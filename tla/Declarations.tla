---------------------------- MODULE Declarations ----------------------------
(***************************************************************************)
(* The account declarations of import runs and their discard (declare.rs,  *)
(* batch.rs and discard.rs of bc-core's import, account.rs).               *)
(*                                                                         *)
(* A run resolves paths against the accounts it read when it began, reads  *)
(* an account once and decides every later declaration from that copy.     *)
(* Each step it decides on is one transaction of the account service, and  *)
(* the record of it against the batch a second one.  Other runs, the user  *)
(* and discards come between any two of them.                              *)
(***************************************************************************)
EXTENDS Naturals, Sequences, Functions

CONSTANTS
    Name, Path,     \* account names, and paths: sequences of names, with all prefixes
    Id,             \* account ids, as numbers
    None,           \* no parent, no row, a field left empty
    Date,           \* dates, as numbers
    Codes,          \* commodity lists
    Documents,      \* the documents: sequences of declarations
    MaxRuns,        \* bound: import runs ever started
    MaxEdits,       \* bound: edits of accounts by the user
    MaxCrashes      \* bound: runs that die

Run == 1 .. MaxRuns

\* The leading part of a path, k segments long.
Prefix(p, k) == SubSeq(p, 1, k)

Declaration == [kind : {"open", "close"}, path : Path, date : Date, codes : Codes \cup {None}]

VARIABLES
    rows,       \* rows[i]: the account with id i, or None
    recs,       \* recs[r][i]: what batch r records of account i, or None
    run,        \* run[r]: the state of import run r
    discarded,  \* the batches discarded
    edits,      \* edits by the user so far
    crashes     \* runs that died so far

vars == <<rows, recs, run, discarded, edits, crashes>>

\* An account: events counts the events of its aggregate; used says whether a
\* posting or anything else of is_account_named's list names it; edited, whether
\* the user changed a field of it, and whether after every run had ended.
Account == [path : Path, parent : Id \cup {None}, opened : Date \cup {None},
            closed : Date \cup {None}, codes : Codes \cup {None}, events : Nat,
            used : BOOLEAN, edited : {"never", "during", "since"}]

Rec == [created : BOOLEAN, opened : Date \cup {None}, closed : Date \cup {None},
        codes : Codes \cup {None}, count : Nat]

ASSUME DeclarationsAssumption ==
    /\ Path \subseteq Seq(Name) \ {<<>>}
    /\ \A p \in Path : \A k \in 1 .. Len(p) : Prefix(p, k) \in Path
    /\ Date \subseteq Nat /\ None \notin Id \cup Date /\ None \notin Codes
    /\ None \notin Account \cup Rec
    /\ Documents \subseteq Seq(Declaration)
    /\ MaxRuns \in Nat /\ MaxEdits \in Nat /\ MaxCrashes \in Nat

Step == [do : {"create", "open", "close", "codes"}, path : Path, id : Id \cup {None},
         date : Date, codes : Codes \cup {None}]

Phase == {"idle", "running", "closed", "stopped"}

\* The state of a run. doc and todo: the document and the declarations of it left
\* to apply; known: the id a path resolves to; cache and made: the accounts read and
\* those created; steps: what is decided and not written; owes: what is written and
\* not recorded.
RunState == [phase : Phase, doc : Seq(Declaration), todo : SUBSET Nat,
             known : [Path -> Id \cup {None}], cache : [Id -> Account \cup {None}],
             made : SUBSET Id, steps : Seq(Step), owes : [Id -> Rec \cup {None}]]

TypeOK ==
    /\ rows \in [Id -> Account \cup {None}]
    /\ recs \in [Run -> [Id -> Rec \cup {None}]]
    /\ run \in [Run -> RunState]
    /\ \A r \in Run : /\ run[r].todo \subseteq DOMAIN run[r].doc
                      /\ \A i \in run[r].made : run[r].cache[i] # None
    /\ discarded \subseteq Run
    /\ edits \in 0 .. MaxEdits /\ crashes \in 0 .. MaxCrashes

NoId == [i \in Id |-> None]
Idle == [phase |-> "idle", doc |-> <<>>, todo |-> {}, known |-> [p \in Path |-> None],
         cache |-> NoId, made |-> {}, steps |-> <<>>, owes |-> NoId]

-----------------------------------------------------------------------------
(* Accounts.                                                               *)

Live == {i \in Id : rows[i] # None}
IdOf(p) == CHOOSE i \in Live : rows[i].path = p
Exists(p) == \E i \in Live : rows[i].path = p
Children(i) == {c \in Live : rows[c].parent = i}
\* descendants_of: what no set with i's children and theirs leaves out.
Below(i) ==
    {c \in Live : ~ \E S \in SUBSET (Live \ {c}) :
        Children(i) \subseteq S /\ \A d \in S : Children(d) \subseteq S}

\* A minted id is one no row, record or run names, and as good as any other such.
Fresh == {i \in Id : /\ rows[i] = None
                     /\ \A r \in Run : /\ recs[r][i] = None
                                       /\ run[r].cache[i] = None /\ run[r].owes[i] = None
                                       /\ \A p \in Path : run[r].known[p] # i}

CanMint(n) == ExistsInjection(1 .. n, Fresh)
Minted(n) == CHOOSE f \in Injection(1 .. n, Fresh) : TRUE

Change(acct, field, value) == [acct EXCEPT ![field] = value, !.events = @ + 1]

\* The account service's rules, each checked against the rows as they are.
MayOpen(i, to) ==
    /\ rows[i] # None
    /\ rows[i].closed # None => to <= rows[i].closed
MayClose(i, on) ==
    /\ rows[i] # None /\ rows[i].closed = None
    /\ \A c \in Below(i) : rows[c].closed # None
    /\ rows[i].opened # None => rows[i].opened <= on
MayReopen(i) ==
    /\ rows[i].closed # None
    /\ rows[i].parent # None => rows[rows[i].parent].closed = None

\* A setter given the stored value logs nothing and changes nothing.
Set(i, field, value) ==
    IF rows[i][field] = value THEN rows
    ELSE [rows EXCEPT ![i] = Change(@, field, value)]

-----------------------------------------------------------------------------
(* One run.                                                                *)

\* application_order: by date, opens before closes, closes deepest first.
Before(d, e) ==
    \/ d.date < e.date
    \/ d.date = e.date /\ d.kind = "open" /\ e.kind = "close"
    \/ /\ d.date = e.date /\ d.kind = "close" /\ e.kind = "close"
       /\ Len(d.path) > Len(e.path)
Earlier(doc, i, j) == Before(doc[i], doc[j]) \/ (~ Before(doc[j], doc[i]) /\ i < j)
\* A second declaration of one kind for one path is dropped.
Applied(doc) ==
    {k \in DOMAIN doc : ~ \E j \in DOMAIN doc :
        Earlier(doc, j, k) /\ doc[j].kind = doc[k].kind /\ doc[j].path = doc[k].path}

\* The copy a run has of an account: what it cached, else the row.
Stored(r, i) == IF run[r].cache[i] # None THEN run[r].cache[i] ELSE rows[i]
Read(r, S) == [i \in Id |-> IF i \in S THEN Stored(r, i) ELSE run[r].cache[i]]

Begin(r, doc) ==
    /\ run[r].phase = "idle" /\ \A q \in 1 .. r - 1 : run[q].phase # "idle"
    /\ run' = [run EXCEPT ![r].phase = "running", ![r].doc = doc,
                          ![r].todo = Applied(doc),
                          ![r].known = [p \in Path |-> IF Exists(p) THEN IdOf(p) ELSE None]]
    /\ UNCHANGED <<rows, recs, discarded, edits, crashes>>

\* The declaration a run turns to: the earliest left.
Deciding(r, k) ==
    /\ run[r].phase = "running" /\ run[r].steps = <<>> /\ run[r].owes = NoId
    /\ k \in run[r].todo /\ \A j \in run[r].todo \ {k} : Earlier(run[r].doc, k, j)

StepFor(do, d, i) == [do |-> do, path |-> d.path, id |-> i, date |-> d.date, codes |-> d.codes]

PlanOpenOver(acct, d, i) ==   \* slip: what the account holds is not asked
    <<StepFor("open", d, i)>> \o (IF d.codes # None THEN <<StepFor("codes", d, i)>> ELSE <<>>)

\* plan_open on an existing account fills what it holds empty; what it holds
\* stands, and differing raises a warning.
PlanOpen(acct, d, i) ==
    (IF acct.opened = None THEN <<StepFor("open", d, i)>> ELSE <<>>)
    \o (IF d.codes # None /\ acct.codes = None THEN <<StepFor("codes", d, i)>> ELSE <<>>)
PlanClose(acct, d, i) == IF acct.closed = None THEN <<StepFor("close", d, i)>> ELSE <<>>

KnownId(r, p, k) == run[r].known[Prefix(p, k)]
\* existing_prefix: the leading n segments of p resolve in the run's snapshot, and
\* no more of them do.
Resolves(r, p, n) ==
    /\ \A k \in 1 .. n : KnownId(r, p, k) # None
    /\ n < Len(p) => KnownId(r, p, n + 1) = None

\* The accounts that deciding a declaration reads: the account, or for one to
\* create the root and the parent creation_rules looks at.
ReadFor(r, d, n) ==
    IF run[r].known[d.path] # None THEN {run[r].known[d.path]}
    ELSE IF d.kind = "close" \/ n = 0 THEN {}
    ELSE {KnownId(r, d.path, 1), KnownId(r, d.path, n)}

MayCreateUnder(r, p, n) == n = 0 \/ Stored(r, KnownId(r, p, n)).closed = None

StepsFor(r, d, n) ==
    IF run[r].known[d.path] # None
    THEN LET i == run[r].known[d.path]
         IN  IF d.kind = "open" THEN PlanOpen(Stored(r, i), d, i) ELSE PlanClose(Stored(r, i), d, i)
    ELSE IF d.kind = "open" /\ MayCreateUnder(r, d.path, n) THEN <<StepFor("create", d, None)>>
    ELSE <<>>

Decide(r, k) ==
    /\ Deciding(r, k)
    /\ LET d == run[r].doc[k]
       IN  \E n \in 0 .. Len(d.path) :
             /\ Resolves(r, d.path, n)
             /\ \A i \in ReadFor(r, d, n) : Stored(r, i) # None
             /\ run' = [run EXCEPT ![r].todo = run[r].todo \ {k},
                                   ![r].cache = Read(r, ReadFor(r, d, n)),
                                   ![r].steps = StepsFor(r, d, n)]
    /\ UNCHANGED <<rows, recs, discarded, edits, crashes>>

\* An account the run's snapshot names is gone: the run ends with that error.
FailToRead(r, k) ==
    /\ Deciding(r, k)
    /\ LET d == run[r].doc[k]
       IN  \E n \in 0 .. Len(d.path) :
             Resolves(r, d.path, n) /\ \E i \in ReadFor(r, d, n) : Stored(r, i) = None
    /\ run' = [run EXCEPT ![r] = [Idle EXCEPT !.phase = "stopped"]]
    /\ UNCHANGED <<rows, recs, discarded, edits, crashes>>

-----------------------------------------------------------------------------
(* The steps a run decided on, each written and then recorded.             *)

Writing(r, do) == /\ run[r].phase = "running" /\ run[r].steps # <<>>
                  /\ Head(run[r].steps).do = do /\ run[r].owes = NoId

Nothing == [created |-> FALSE, opened |-> None, closed |-> None, codes |-> None, count |-> 0]

\* The step is over: the copy reads as written, and the record is owed.
Wrote(r, i, field, value, rec) ==
    run' = [run EXCEPT ![r].steps = Tail(@), ![r].cache = [run[r].cache EXCEPT ![i][field] = value],
                       ![r].owes = [NoId EXCEPT ![i] = rec]]
Refused(r) == run' = [run EXCEPT ![r].steps = Tail(@)] /\ UNCHANGED rows

SetOpenedOn(r) ==
    LET s == Head(run[r].steps)
        held == Stored(r, s.id).closed
    IN  /\ Writing(r, "open")
        /\ IF (held # None => s.date <= held) /\ MayOpen(s.id, s.date)
           THEN /\ rows' = Set(s.id, "opened", s.date)
                /\ Wrote(r, s.id, "opened", s.date, [Nothing EXCEPT !.opened = s.date])
           ELSE Refused(r)
        /\ UNCHANGED <<recs, discarded, edits, crashes>>

\* The copy's list stays as it was read.
SetCommodities(r) ==
    LET s == Head(run[r].steps)
    IN  /\ Writing(r, "codes")
        /\ IF rows[s.id] # None
           THEN /\ rows' = Set(s.id, "codes", s.codes)
                /\ Wrote(r, s.id, "codes", Stored(r, s.id).codes, [Nothing EXCEPT !.codes = s.codes])
           ELSE Refused(r)
        /\ UNCHANGED <<recs, discarded, edits, crashes>>

\* close_rules: the descendants with a row, and those the run made.
RunBelow(r, i) ==
    {c \in Id : ~ \E S \in SUBSET (Id \ {c}) :
        /\ \A m \in run[r].made : run[r].cache[m].parent \in S \cup {i} => m \in S
        /\ Below(i) \subseteq S \cup run[r].made}

Close(r) ==
    LET s == Head(run[r].steps)
        below == RunBelow(r, s.id)
        held == Stored(r, s.id).opened
    IN  /\ Writing(r, "close")
        /\ IF /\ held # None => held <= s.date
              /\ MayClose(s.id, s.date)
              /\ \A c \in below : Stored(r, c).closed # None
           THEN /\ rows' = [rows EXCEPT ![s.id] = Change(@, "closed", s.date)]
                /\ run' = [run EXCEPT ![r].steps = Tail(@),
                                      ![r].cache = [Read(r, below) EXCEPT ![s.id].closed = s.date],
                                      ![r].owes = [NoId EXCEPT ![s.id] = [Nothing EXCEPT !.closed = s.date]]]
           ELSE /\ run' = [run EXCEPT ![r].steps = Tail(@), ![r].cache = Read(r, below)]
                /\ UNCHANGED rows
        /\ UNCHANGED <<recs, discarded, edits, crashes>>

\* The account create_in_tx inserts for the k-th segment of a path.
NewAccount(s, parent, k) ==
    LET leaf == k = Len(s.path)
    IN  [path |-> Prefix(s.path, k), parent |-> parent, opened |-> IF leaf THEN s.date ELSE None,
         closed |-> None, codes |-> IF leaf THEN s.codes ELSE None, events |-> 1,
         used |-> FALSE, edited |-> "never"]

\* create_paths walks p from its root and reuses the accounts that exist now:
\* the leading have segments.
Reuses(p, have) ==
    /\ \A k \in 1 .. have : Exists(Prefix(p, k))
    /\ have < Len(p) => ~ Exists(Prefix(p, have + 1))

\* It refuses a leaf that differs and a closed parent.
MayCreate(s, have) ==
    LET at == rows[IdOf(Prefix(s.path, have))]
    IN  \/ have = 0
        \/ /\ have = Len(s.path)
           /\ at.opened = s.date /\ (s.codes # None => at.codes = s.codes)
        \/ have \in 1 .. Len(s.path) - 1 /\ at.closed = None

Place(q, i) == CHOOSE k \in DOMAIN q : q[k] = i

\* minted are the ids of the accounts that were missing, top down.
CreateRows(s, have, minted) ==
    LET Parent(k) == IF k > 1 THEN minted[k - 1]
                     ELSE IF have = 0 THEN None ELSE IdOf(Prefix(s.path, have))
    IN  [i \in Id |-> IF i \in Range(minted)
                      THEN NewAccount(s, Parent(Place(minted, i)), have + Place(minted, i))
                      ELSE rows[i]]

\* The ids the run takes the path's segments to have: those it knew, then those
\* minted, whichever segments they were minted for, as far as the path goes.
Assumed(r, p, knew, minted) ==
    [k \in {k \in 1 .. Len(p) : k <= knew \/ k - knew \in DOMAIN minted} |->
        IF k <= knew THEN KnownId(r, p, k) ELSE minted[k - knew]]

\* Those of them that were minted, the run's copy of one, and the paths it knows then.
NewAmong(ids, knew) == {ids[k] : k \in DOMAIN ids \ 1 .. knew}
CopyOf(s, ids, i) ==
    LET k == Place(ids, i) IN NewAccount(s, IF k = 1 THEN None ELSE ids[k - 1], k)
Learned(r, s, ids) ==
    [p \in Path |-> IF run[r].known[p] = None /\ \E k \in DOMAIN ids : p = Prefix(s.path, k)
                    THEN ids[Len(p)] ELSE run[r].known[p]]

CreateUnkept(r, s, minted, ids, made) ==    \* slip: the new accounts are not kept as read
    run' = [run EXCEPT
        ![r].steps = Tail(@),
        ![r].made = run[r].made \cup made,
        ![r].known = Learned(r, s, ids),
        ![r].owes = [i \in Id |-> IF i \in Range(minted) THEN [Nothing EXCEPT !.created = TRUE]
                                  ELSE None]]

\* What the run keeps of the accounts created, and owes the batch.
CreateAs(r, s, minted, ids, made) ==
    run' = [run EXCEPT
        ![r].steps = Tail(@),
        ![r].cache = [i \in Id |-> IF i \in made THEN CopyOf(s, ids, i) ELSE run[r].cache[i]],
        ![r].made = run[r].made \cup made,
        ![r].known = Learned(r, s, ids),
        ![r].owes = [i \in Id |-> IF i \in Range(minted) THEN [Nothing EXCEPT !.created = TRUE]
                                  ELSE None]]

Create(r) ==
    /\ Writing(r, "create")
    /\ LET s == Head(run[r].steps)
       IN  \E have \in 0 .. Len(s.path), knew \in 0 .. Len(s.path) :
           LET minted == Minted(Len(s.path) - have)
               ids == Assumed(r, s.path, knew, minted)
           IN  /\ Reuses(s.path, have) /\ MayCreate(s, have)
               /\ CanMint(Len(s.path) - have)
               /\ Resolves(r, s.path, knew)
               /\ rows' = CreateRows(s, have, minted)
               /\ CreateAs(r, s, minted, ids, NewAmong(ids, knew))
    /\ UNCHANGED <<recs, discarded, edits, crashes>>

RefuseCreate(r) ==
    LET s == Head(run[r].steps)
    IN  /\ Writing(r, "create")
        /\ \E have \in 0 .. Len(s.path) : Reuses(s.path, have) /\ ~ MayCreate(s, have)
        /\ Refused(r)
        /\ UNCHANGED <<recs, discarded, edits, crashes>>

\* record_accounts: a field already recorded stands, and the event count is the
\* account's now.
Kept(old, new) == IF old # None THEN old ELSE new
Merge(old, new, events) ==
    IF old = None THEN [new EXCEPT !.count = events]
    ELSE [created |-> old.created \/ new.created, opened |-> Kept(old.opened, new.opened),
          closed |-> Kept(old.closed, new.closed), codes |-> Kept(old.codes, new.codes),
          count |-> events]

\* A record names an account's row: one that a discard has deleted meanwhile
\* fails the run.
Record(r) ==
    /\ run[r].phase = "running" /\ run[r].owes # NoId
    /\ IF \A i \in Id : run[r].owes[i] # None => rows[i] # None
       THEN /\ recs' = [recs EXCEPT ![r] = [i \in Id |->
                           IF run[r].owes[i] = None THEN recs[r][i]
                           ELSE Merge(recs[r][i], run[r].owes[i], rows[i].events)]]
            /\ run' = [run EXCEPT ![r].owes = NoId]
       ELSE /\ run' = [run EXCEPT ![r] = [Idle EXCEPT !.phase = "stopped"]]
            /\ UNCHANGED recs
    /\ UNCHANGED <<rows, discarded, edits, crashes>>

FinishUndiscarded(r) ==     \* slip: a batch discarded meanwhile is waited for
    /\ run[r].phase = "running" /\ r \notin discarded
    /\ run[r].todo = {} /\ run[r].steps = <<>> /\ run[r].owes = NoId
    /\ run' = [run EXCEPT ![r] = [Idle EXCEPT !.phase = "closed"]]
    /\ UNCHANGED <<rows, recs, discarded, edits, crashes>>

\* The declarations are applied and, the document's rows written, the batch is
\* closed, unless it was discarded meanwhile.
Finish(r) ==
    /\ run[r].phase = "running"
    /\ run[r].todo = {} /\ run[r].steps = <<>> /\ run[r].owes = NoId
    /\ run' = [run EXCEPT ![r] = [Idle EXCEPT !.phase = IF r \in discarded THEN "stopped" ELSE "closed"]]
    /\ UNCHANGED <<rows, recs, discarded, edits, crashes>>

Crash(r) ==
    /\ run[r].phase = "running" /\ crashes < MaxCrashes
    /\ crashes' = crashes + 1
    /\ run' = [run EXCEPT ![r] = [Idle EXCEPT !.phase = "stopped"]]
    /\ UNCHANGED <<rows, recs, discarded, edits>>

-----------------------------------------------------------------------------
(* Discarding a batch takes its declarations back.                         *)

Recorded(r) == {i \in Live : recs[r][i] # None}
Made(r) == {i \in Recorded(r) : recs[r][i].created}

NamedByHand(r, i) == rows[i].used   \* slip: batches and events are not asked
\* is_account_named, but for the children: anything besides batch r itself names
\* account i.
Named(r, i) ==
    \/ rows[i].used
    \/ \E q \in Run \ {r} : recs[q][i] # None
    \/ rows[i].events > recs[r][i].count

RemovedRootFirst(r) ==   \* slip: from the root, when the children are still there
    {i \in Made(r) : ~ Named(r, i) /\ Children(i) = {}}
\* Created accounts go deepest first, each when nothing names it and the last of
\* its children has gone: the largest set of them with no child left outside it.
Removed(r) ==
    UNION {S \in SUBSET Made(r) : \A i \in S : ~ Named(r, i) /\ Children(i) \subseteq S}

\* The accounts the run closed on the date they still hold.
ClosedBy(r) == {i \in Recorded(r) \ Made(r) : recs[r][i].closed # None
                                          /\ rows[i].closed = recs[r][i].closed}

ReopenedUnruled(r) == ClosedBy(r)   \* slip: a closing date goes, whatever the parent's
\* Dates are cleared from the root, and a closing date only under a parent that is
\* open or was just reopened: the largest set of them with none left closed above it.
Reopened(r) ==
    UNION {S \in SUBSET ClosedBy(r) :
             \A i \in S : rows[i].parent = None \/ rows[i].parent \in S
                          \/ rows[rows[i].parent].closed = None}

\* revert_fields: a field goes back to empty if it still holds what the run
\* filled in.
Cleared(r, i, field) ==
    IF recs[r][i][field] = rows[i][field] THEN None ELSE rows[i][field]
Reverted(r, i) ==
    [rows[i] EXCEPT !.opened = Cleared(r, i, "opened"),
                    !.closed = IF i \in Reopened(r) THEN None ELSE rows[i].closed,
                    !.codes = Cleared(r, i, "codes")]

\* reverse_accounts: created accounts, then the fields of filled ones.
ReverseAccounts(r) ==
    [i \in Id |-> IF i \in Removed(r) THEN None
                  ELSE IF i \in Recorded(r) \ Made(r) THEN Reverted(r, i)
                  ELSE rows[i]]

Discard(r) ==
    /\ run[r].phase # "idle" /\ r \notin discarded
    /\ discarded' = discarded \cup {r}
    /\ rows' = ReverseAccounts(r)
    /\ recs' = [recs EXCEPT ![r] = NoId]
    /\ UNCHANGED <<run, edits, crashes>>

-----------------------------------------------------------------------------
(* The user, through the same account service.                             *)

Running == {r \in Run : run[r].phase = "running"}
Mark == IF Running = {} THEN "since" ELSE "during"
Edit(R) == /\ edits < MaxEdits /\ edits' = edits + 1
           /\ rows' = R
           /\ UNCHANGED <<recs, run, discarded, crashes>>
ByUser(R, i) == [R EXCEPT ![i].edited = Mark]

UserSet(i, field, value) ==
    /\ rows[i] # None /\ rows[i][field] # value
    /\ field = "opened" /\ value # None => MayOpen(i, value)
    /\ Edit(ByUser(Set(i, field, value), i))

UserClose(i, on) == MayClose(i, on) /\ Edit(ByUser([rows EXCEPT ![i] = Change(@, "closed", on)], i))
UserReopen(i) ==
    /\ rows[i] # None /\ MayReopen(i)
    /\ Edit(ByUser([rows EXCEPT ![i] = Change(@, "closed", None)], i))

UserCreate(p) ==
    LET s == [path |-> p, date |-> None, codes |-> None]
        have == Len(p) - 1
    IN  /\ Reuses(p, have) /\ MayCreate(s, have) /\ CanMint(1)
        /\ Edit(CreateRows(s, have, Minted(1)))

\* A posting, a tag or anything else comes to name the account, or the last
\* that did is gone.
Use(i) == rows[i] # None /\ Edit([rows EXCEPT ![i].used = ~ @])

-----------------------------------------------------------------------------
Init ==
    /\ rows = [i \in Id |-> None]
    /\ recs = [r \in Run |-> NoId]
    /\ run = [r \in Run |-> Idle]
    /\ discarded = {}
    /\ edits = 0 /\ crashes = 0

Work(r) ==
    \/ \E k \in run[r].todo : Decide(r, k) \/ FailToRead(r, k)
    \/ SetOpenedOn(r) \/ SetCommodities(r) \/ Close(r)
    \/ Create(r) \/ RefuseCreate(r)
    \/ Record(r) \/ Finish(r)

RunStep(r) == Work(r) \/ Crash(r) \/ \E doc \in Documents : Begin(r, doc)

UserStep ==
    \/ \E i \in Id : \/ \E on \in Date : UserSet(i, "opened", on) \/ UserClose(i, on)
                     \/ \E list \in Codes : UserSet(i, "codes", list)
                     \/ UserReopen(i) \/ Use(i)
    \/ \E p \in Path : UserCreate(p)

Next == (\E r \in Run : RunStep(r) \/ Discard(r)) \/ UserStep

Spec == Init /\ [][Next]_vars

\* A run, once begun, needs nobody to go on.
FairSpec == Spec /\ \A r \in Run : WF_vars(Work(r))

-----------------------------------------------------------------------------
\* account.rs: an account closes no earlier than it opened, and none is open under
\* a closed parent, though the service checks each write by itself, a run decides
\* from copies and a discard clears dates without the service.
WindowsNest ==
    \A i \in Live :
        /\ rows[i].closed # None /\ rows[i].opened # None => rows[i].opened <= rows[i].closed
        /\ rows[i].parent # None =>
              /\ rows[rows[i].parent] # None
              /\ rows[rows[i].parent].closed # None => rows[i].closed # None

\* discard.rs, is_account_named: a discard removes only accounts nothing names:
\* not the parent of another, not one in use, not one another batch filled, not
\* one the user has edited since the runs.
DiscardSparesNamed ==
    [][discarded' # discarded =>
        \A i \in Live : rows'[i] = None =>
            /\ ~ rows[i].used /\ rows[i].edited # "since"
            /\ \A c \in Id : rows'[c] # None => rows'[c].parent # i
            /\ \A q \in Run \ (discarded' \ discarded) : recs[q][i] = None]_vars

\* discard.rs: a run that ended and was discarded leaves no account behind when
\* nobody else was at work.
DiscardUndoes ==
    edits = 0 /\ (\A r \in Run : r # 1 => run[r].phase = "idle")
              /\ run[1].phase = "closed" /\ 1 \in discarded
    => Live = {}

\* declare.rs: a run always ends: decisions, refusals and the accounts that
\* discards and others take away leave it a step to make.
RunEnds == \A r \in Run : run[r].phase = "running" ~> run[r].phase \in {"closed", "stopped"}

\* docs/DESIGN.md:443: an open "fills each empty field and leaves a stored value
\* alone": a value that was there when the run read the account.
StoredStands ==
    [][\A r \in Run : run'[r] # run[r] =>
        \A i \in Live : \A field \in {"opened", "codes"} :
            run[r].cache[i] # None /\ run[r].cache[i][field] # None => rows'[i][field] = rows[i][field]]_vars

\* account_path.rs:227: the resolver is given "one account id per segment, root
\* first": what it answers for a path is that path's account.
PathsResolveHome ==
    \A r \in Running : \A p \in Path :
        run[r].known[p] # None /\ rows[run[r].known[p]] # None => rows[run[r].known[p]].path = p
=============================================================================
