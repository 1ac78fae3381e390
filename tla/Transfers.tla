------------------------------ MODULE Transfers -----------------------------
(***************************************************************************)
(* Merging two one-sided transactions into a transfer and taking them      *)
(* apart again (transfer.rs), while the user edits, reconciles and deletes *)
(* them (transaction.rs) and an import adds to them (import_exec.rs).      *)
(*                                                                         *)
(* merge and unmerge read on connections of their own and write in one     *)
(* SQLite transaction afterwards; whatever another writer commits between  *)
(* the two is what they do not know.  So does an edit from the command     *)
(* line.  The other operations compare or read under the write lock, so    *)
(* each is a step.                                                         *)
(***************************************************************************)
EXTENDS Integers, Sequences, FiniteSets, SequencesExt, Functions

CONSTANTS
    Transaction, Posting,
    Ref,            \* source references
    Tag, Entry,     \* tags; metadata entries, a key with its value
    Amount,         \* amounts a leg may carry
    Commodity,
    MaxDate,        \* bound: business dates are 1 .. MaxDate
    Settled,        \* reconciliation states in use, by rank
    Drafts,         \* headers transactions start with
    Openings,       \* amounts their legs start with
    Caller,         \* callers of merge and unmerge
    Editor,         \* command-line edits that may be open together
    None,           \* no row, no call, an elided amount
    Scopes,         \* bound: [txns, callers, editors, edits], the transactions at the
                    \*   start, who calls, and the changes users and imports make
    MaxMeta         \* bound: times a user gives a transaction one metadata entry

Unreconciled == 0
Flagged == 1
Reconciled == 2

ASSUME TransferAssumption ==
    /\ MaxDate \in Nat \ {0} /\ MaxMeta \in Nat
    /\ Scopes \subseteq [txns : SUBSET Transaction, callers : SUBSET Caller,
                          editors : SUBSET Editor, edits : Nat]
    /\ Settled \subseteq {Unreconciled, Flagged, Reconciled} /\ Unreconciled \in Settled
    /\ Amount \subseteq Int
    /\ IsFiniteSet(Posting)
    /\ Drafts \subseteq [date : 1 .. MaxDate, tags : SUBSET Tag, meta : [Entry -> Nat], settled : Settled]
    /\ Openings \subseteq [amount : Amount, commodity : Commodity]
    /\ None \notin Transaction \cup Posting \cup Ref
    /\ None \notin [amount : Amount, commodity : Commodity]

VARIABLES
    txns,           \* the transactions table
    header,         \* header[t]: date, tags, metadata and reconciliation of t
    legs,           \* legs[p]: the transaction posting p is on, and its amount
    refs,           \* refs[r]: the transaction and the posting reference r names
    merges,         \* merges[t]: the merges into t its log holds and no unmerge
                    \*   answers, newest last
    call,           \* call[c]: what c has read, or None
    draft,          \* draft[e]: the transaction as editor e has read it, or None
    edits,          \* changes still to be made
    own,            \* history: own[t] is the header the user gave t
    clouded,        \* history: transactions whose merge, unmerge or edit wrote from a
                    \*   stale reading, or whose user wrote what a merge had
    torn,           \* history: those whose log may be wrong about legs: a merge
                    \*   moved another leg than it read, an unmerge took a record
                    \*   that was not the newest, or it undid such a merge, or an
                    \*   edit changed a leg that it had read otherwise
    late            \* history: references attached behind a merge's back

vars == <<txns, header, legs, refs, merges, call, draft, edits, own, clouded, torn, late>>

\* Of the metadata, how often each entry is there; nothing here reads its order.
Meta == [Entry -> Nat]
Header == [date : 1 .. MaxDate, tags : SUBSET Tag, meta : Meta, settled : Settled]
Value == [amount : Amount, commodity : Commodity] \cup {None}

\* The part of a TransactionsMerged event that unmerge uses.  edited says that a
\* later posting event in the same log names the leg; value is history.
Record == [absorbed : Transaction, was : Header, before : Header, leg : Posting,
           sources : SUBSET Ref, edited : BOOLEAN, value : Value]

MergeCall == [op : {"merge"}, survivor : Transaction, absorbed : Transaction,
              shown : Header, was : Header, leg : Posting, sources : SUBSET Ref]
UnmergeCall == [op : {"unmerge"}, survivor : Transaction, record : Record, meta : Meta]

\* shown and legs are what the command read, known what edit then read itself, or
\* None before that.
Values == UNION {[S -> Value] : S \in SUBSET Posting}
Draft == [tx : Transaction, shown : Header, legs : Values, known : Values \cup {None}]

TypeOK ==
    /\ txns \subseteq Transaction
    /\ header \in [Transaction -> Header] /\ own \in [Transaction -> Header]
    /\ legs \in [Posting -> [tx : Transaction \cup {None}, value : Value]]
    /\ refs \in [Ref -> [tx : Transaction \cup {None}, leg : Posting \cup {None}]]
    /\ merges \in [Transaction -> Seq(Record)]
    /\ DOMAIN call \subseteq Caller
    /\ \A c \in DOMAIN call : call[c] = None \/ call[c] \in MergeCall \/ call[c] \in UnmergeCall
    /\ DOMAIN draft \subseteq Editor /\ \A e \in DOMAIN draft : draft[e] \in Draft \cup {None}
    /\ edits \in Nat
    /\ clouded \subseteq Transaction /\ torn \subseteq Transaction /\ late \subseteq Ref

-----------------------------------------------------------------------------
(* Reading the tables.                                                     *)

Blank == [date |-> 1, tags |-> {}, meta |-> [e \in Entry |-> 0], settled |-> Unreconciled]
NoLeg == [tx |-> None, value |-> None]
NoRef == [tx |-> None, leg |-> None]

LegsOf(t) == {p \in Posting : legs[p].tx = t}
ValuesOf(t) == [p \in LegsOf(t) |-> legs[p].value]
RefsOf(t) == {r \in Ref : refs[r].tx = t}
Reading == {c \in DOMAIN call : call[c] # None /\ call[c].op = "unmerge"}
Records == (UNION {ToSet(merges[t]) : t \in Transaction}) \cup {call[c].record : c \in Reading}
Merging == {call[c] : c \in {d \in DOMAIN call : call[d] # None /\ call[d].op = "merge"}}

\* Ids are minted anew, so an id that a log or a call still names is not given
\* to another row; of the others one is as good as another.
AnyOf(S) == IF S = {} THEN {} ELSE {CHOOSE x \in S : TRUE}
Opened == {draft[e] : e \in {d \in DOMAIN draft : draft[d] # None}}
NewLegs == AnyOf({p \in Posting : /\ legs[p] = NoLeg
                                  /\ \A m \in Records \cup Merging : m.leg # p
                                  /\ \A k \in Opened : p \notin DOMAIN k.legs})
NewRefs == AnyOf({r \in Ref : refs[r] = NoRef /\ \A m \in Records \cup Merging : r \notin m.sources})

\* validate_postings: some leg, at most one elided, and that one not alone.
ValidLegs(value) ==
    LET Elided == {p \in DOMAIN value : value[p] = None} IN
    /\ DOMAIN value # {} /\ Cardinality(Elided) <= 1
    /\ Elided # {} => Cardinality(DOMAIN value) > 1

Total(P, k) ==
    MapThenSumSet(LAMBDA p : IF legs[p].value # None /\ legs[p].value.commodity = k
                             THEN legs[p].value.amount ELSE 0, P)

\* Transaction::balanced.
Balanced(t) ==
    LET Elided == {p \in LegsOf(t) : legs[p].value = None}
        Unsettled == {k \in Commodity : Total(LegsOf(t), k) # 0}
    IN  /\ LegsOf(t) # Elided
        /\ IF Elided = {} THEN Unsettled = {}
           ELSE Cardinality(Elided) = 1 /\ Cardinality(Unsettled) <= 1

-----------------------------------------------------------------------------
(* What a merge makes of two headers, and what an unmerge leaves.          *)

Less(n, m) == IF n > m THEN n - m ELSE 0

\* metadata::union and subtract_merged: exact duplicates of the survivor's own
\* entries are not appended, and one occurrence of each appended entry goes.
Appended(before, was) == [e \in Entry |-> IF before[e] > 0 THEN 0 ELSE was[e]]
JoinMeta(before, was) == [e \in Entry |-> before[e] + Appended(before, was)[e]]
Subtract(now, before, was) == [e \in Entry |-> Less(now[e], Appended(before, was)[e])]

MergedDate(before, was) == IF was.date < before.date THEN was.date ELSE before.date

MergedSettled(before, was) ==
    IF was.settled > before.settled THEN was.settled ELSE before.settled

\* The tags are joined as they stand, the rest as it was read.
Joined(s, a, shown, was) ==
    [date |-> MergedDate(shown, was), tags |-> header[s].tags \cup header[a].tags,
     meta |-> JoinMeta(shown.meta, was.meta), settled |-> MergedSettled(shown, was)]

\* slip: takes every tag of the absorbed, the survivor's own too.
PartedTagless(now, meta, m) ==
    [date |-> IF now.date = MergedDate(m.before, m.was) THEN m.before.date ELSE now.date,
     tags |-> now.tags \ m.was.tags,
     meta |-> Subtract(meta, m.before.meta, m.was.meta),
     settled |-> IF now.settled = MergedSettled(m.before, m.was)
                 THEN m.before.settled ELSE now.settled]

\* The tags only the merge brought go; date and reconciliation return unless the
\* user has changed what the merge wrote.
Parted(now, meta, m) ==
    [date |-> IF now.date = MergedDate(m.before, m.was) THEN m.before.date ELSE now.date,
     tags |-> now.tags \ (m.was.tags \ m.before.tags),
     meta |-> Subtract(meta, m.before.meta, m.was.meta),
     settled |-> IF now.settled = MergedSettled(m.before, m.was)
                 THEN m.before.settled ELSE now.settled]

\* check_mergeable, on the only leg of each side.
Mergeable(s, a) ==
    \E p \in LegsOf(s), q \in LegsOf(a) :
        /\ LegsOf(s) = {p} /\ LegsOf(a) = {q}
        /\ None \notin {legs[p].value, legs[q].value}
        /\ legs[p].value.commodity = legs[q].value.commodity
        /\ 0 \notin {legs[p].value.amount, legs[q].value.amount}

-----------------------------------------------------------------------------
(* The callers.                                                            *)

Stale(k) == k.shown # header[k.survivor] \/ k.was # header[k.absorbed]
            \/ LegsOf(k.absorbed) # {k.leg} \/ RefsOf(k.absorbed) # k.sources

\* merge, up to its begin.  A change that reaches the database between these
\* readings touches one of the two transactions or leaves them unmergeable, so it
\* might as well have come before them all or after.
ReadMerge(c, s, a) ==
    /\ call[c] = None /\ s # a /\ {s, a} \subseteq txns /\ Mergeable(s, a)
    /\ \E p \in LegsOf(a) :
         call' = [call EXCEPT ![c] =
             [op |-> "merge", survivor |-> s, absorbed |-> a, shown |-> header[s],
              was |-> header[a], leg |-> p, sources |-> RefsOf(a)]]
    /\ UNCHANGED <<txns, header, legs, refs, merges, draft, edits, own, clouded, torn, late>>

StillThere(k) == LegsOf(k.absorbed) # {}    \* slip: the survivor is not counted again

\* The two counts merge takes again inside its transaction.
StillOneSided(k) ==
    Cardinality(LegsOf(k.survivor)) = 1 /\ Cardinality(LegsOf(k.absorbed)) = 1

Merge(c) ==
    /\ call[c] # None /\ call[c].op = "merge"
    /\ call' = [call EXCEPT ![c] = None]
    /\ LET k == call[c]
           s == k.survivor
           a == k.absorbed
       IN  \/ /\ ~ StillOneSided(k)
              /\ UNCHANGED <<txns, header, legs, refs, merges, clouded, torn>>
           \/ /\ StillOneSided(k)
              /\ merges' = [merges EXCEPT ![s] = Append(@,
                     [absorbed |-> a, was |-> k.was, before |-> k.shown, leg |-> k.leg,
                      sources |-> k.sources, edited |-> FALSE, value |-> legs[k.leg].value])]
              /\ refs' = [r \in Ref |-> IF r \in RefsOf(a) THEN [refs[r] EXCEPT !.tx = s] ELSE refs[r]]
              /\ legs' = [p \in Posting |-> IF p \in LegsOf(a) THEN [legs[p] EXCEPT !.tx = s] ELSE legs[p]]
              /\ header' = [header EXCEPT ![s] = Joined(s, a, k.shown, k.was), ![a] = Blank]
              /\ txns' = txns \ {a}
              /\ clouded' = clouded \cup IF Stale(k) THEN {s, a} ELSE {}
              /\ torn' = torn \cup IF LegsOf(a) # {k.leg} THEN {s, a} ELSE {}
    /\ UNCHANGED <<draft, edits, own, late>>

\* slip: no check for posting events.
ReadLogUnchecked(c, s) ==
    /\ call[c] = None /\ merges[s] # <<>>
    /\ call' = [call EXCEPT ![c] = [op |-> "unmerge", survivor |-> s,
                                    record |-> Last(merges[s]), meta |-> header[s].meta]]
    /\ UNCHANGED <<txns, header, legs, refs, merges, draft, edits, own, clouded, torn, late>>

\* unmerge, up to its begin: the newest open merge, refused when its leg has been
\* edited since (posting_edit_since), and the metadata to rewrite.
ReadLog(c, s) ==
    /\ call[c] = None /\ merges[s] # <<>> /\ ~ Last(merges[s]).edited
    /\ call' = [call EXCEPT ![c] = [op |-> "unmerge", survivor |-> s,
                                    record |-> Last(merges[s]), meta |-> header[s].meta]]
    /\ UNCHANGED <<txns, header, legs, refs, merges, draft, edits, own, clouded, torn, late>>

\* Its header row is inserted, so an id in use fails; so does a leg that is gone.
MayUnmerge(s, m) == m.absorbed \notin txns /\ legs[m.leg].tx = s

ReturnedNone(m) == refs      \* slip: the references stay with the survivor

\* The references the merge took along, by the ids in its event.
Returned(m) == [r \in Ref |->
    IF r \in m.sources /\ refs[r].tx # None THEN [refs[r] EXCEPT !.tx = m.absorbed] ELSE refs[r]]

Outdated(s, m) == merges[s] = <<>> \/ m # Last(merges[s])

Unmerge(c) ==
    /\ call[c] # None /\ call[c].op = "unmerge"
    /\ call' = [call EXCEPT ![c] = None]
    /\ LET k == call[c]
           s == k.survivor
           m == k.record
           a == m.absorbed
       IN  \/ /\ ~ MayUnmerge(s, m)
              /\ UNCHANGED <<txns, header, legs, refs, merges, clouded, torn>>
           \/ /\ MayUnmerge(s, m)
              /\ merges' = [merges EXCEPT ![s] = Front(@)]
              /\ txns' = txns \cup {a}
              /\ header' = [header EXCEPT ![s] = Parted(header[s], k.meta, m), ![a] = m.was]
              /\ legs' = [legs EXCEPT ![m.leg].tx = a]
              /\ refs' = Returned(m)
              /\ clouded' = clouded \cup
                     IF Outdated(s, m) \/ k.meta # header[s].meta THEN {s, a} ELSE {}
              /\ torn' = torn \cup IF Outdated(s, m) \/ s \in torn THEN {s, a} ELSE {}
    /\ UNCHANGED <<draft, edits, own, late>>

-----------------------------------------------------------------------------
(* The user and the imports.                                               *)

\* How often merge m brought entry e.
Brought(m, e) == Appended(m.before.meta, m.was.meta)[e]

\* The user adds entry e to t after having removed one that an open merge brought.
PutsBack(t, e) ==
    \E i \in DOMAIN merges[t] :
        /\ Brought(merges[t][i], e) > 0
        /\ \/ own[t].meta[e] + Brought(merges[t][i], e) > header[t].meta[e]
           \/ \E j \in DOMAIN merges[t] \ {i} : Brought(merges[t][j], e) > 0

\* The user writes what an open merge of t wrote: the date or state it has moved
\* away from, a tag or entry it has removed.
Echoes(t, h) ==
    LET now == header[t] IN
    \/ \E i \in DOMAIN merges[t] : LET m == merges[t][i] IN
         \/ h.date # now.date /\ h.date = MergedDate(m.before, m.was)
         \/ h.settled # now.settled /\ h.settled = MergedSettled(m.before, m.was)
         \/ (h.tags \ now.tags) \cap (m.was.tags \ m.before.tags) # {}
    \/ \E e \in Entry : h.meta[e] > now.meta[e] /\ PutsBack(t, e)

\* The same change made to what the user gave t.
Rewritten(o, now, h) ==
    [date |-> IF h.date # now.date THEN h.date ELSE o.date,
     tags |-> (o.tags \cup (h.tags \ now.tags)) \ (now.tags \ h.tags),
     meta |-> [e \in Entry |-> IF h.meta[e] > now.meta[e] THEN o.meta[e] + (h.meta[e] - now.meta[e])
                               ELSE Less(o.meta[e], now.meta[e] - h.meta[e])],
     settled |-> IF h.settled # now.settled THEN h.settled ELSE o.settled]

\* An edit changes any number of fields; here one at a time.
Revisions(h) ==
    {[h EXCEPT !.date = d] : d \in 1 .. MaxDate}
    \cup {[h EXCEPT !.tags = T] : T \in SUBSET Tag}
    \cup {[h EXCEPT !.meta[e] = @ + 1] : e \in {d \in Entry : h.meta[d] < MaxMeta}}
    \cup {[h EXCEPT !.meta[e] = @ - 1] : e \in {d \in Entry : h.meta[d] > 0}}

\* The user, who was shown one header, writes h.
SetHeader(t, shown, h) ==
    /\ header' = [header EXCEPT ![t] = h]
    /\ own' = [own EXCEPT ![t] = Rewritten(@, shown, h)]

Write(t, h) ==
    /\ SetHeader(t, header[t], h)
    /\ clouded' = clouded \cup IF Echoes(t, h) THEN {t} ELSE {}
    /\ UNCHANGED <<txns, legs, merges, call, draft, torn, late>>

LoggedNothing(t, P) == merges       \* slip: an edit of a leg goes unlogged

\* A posting event in the log of t names the legs P.
Logged(t, P) ==
    LET Marked(m) == [m EXCEPT !.edited = m.edited \/ m.leg \in P] IN
    [merges EXCEPT ![t] = [i \in DOMAIN merges[t] |-> Marked(merges[t][i])]]

\* apply_transaction_projection replaces the legs of t by P: a reference that is on
\* t and names one of P is tied to it again (relink_surviving_sources), the others
\* that named a leg of t name none.
Relinked(t, P) == [r \in Ref |->
    IF refs[r].leg \in LegsOf(t) /\ ~ (refs[r].leg \in P /\ refs[r].tx = t)
    THEN [refs[r] EXCEPT !.leg = None] ELSE refs[r]]

\* The legs and their values that one change makes of value, other than it.
OneChange(value) ==
    LET S == DOMAIN value IN
    {v \in UNION {[P -> Value] : P \in {S} \cup {S \ {p} : p \in S} \cup {S \cup {p} : p \in NewLegs}} :
        /\ v # value
        /\ \/ DOMAIN v = S /\ Cardinality({p \in S : v[p] # value[p]}) = 1
           \/ \A p \in S \cap DOMAIN v : v[p] = value[p]}

\* The legs that an edit of known to value records an event for.
Heard(value, known) == {p \in DOMAIN known : p \notin DOMAIN value \/ value[p] # known[p]}

\* The postings of t become value, and its log hears of what that changes of known.
SetLegs(t, value, known) ==
    /\ legs' = [p \in Posting |-> IF p \in DOMAIN value THEN [tx |-> t, value |-> value[p]]
                                  ELSE IF p \in LegsOf(t) THEN NoLeg ELSE legs[p]]
    /\ refs' = Relinked(t, DOMAIN value)
    /\ merges' = Logged(t, Heard(value, known))

\* edit_if_unchanged on the header; it leaves the reconciliation alone.
EditHeader(t) ==
    /\ t \in txns /\ ValidLegs(ValuesOf(t))
    /\ \E h \in Revisions(header[t]) \ {header[t]} : Write(t, h)
    /\ refs' = Relinked(t, LegsOf(t))

\* reconcile.  Its check of the balance reads before it begins; an edit in between
\* leaves what the same edit leaves afterwards, which the code allows.
Reconcile(t) ==
    /\ t \in txns
    /\ \E n \in Settled \ {header[t].settled} :
         /\ n = Reconciled => Balanced(t)
         /\ Write(t, [header[t] EXCEPT !.settled = n])
    /\ UNCHANGED refs

\* edit_if_unchanged on the postings.
EditLegs(t) ==
    /\ t \in txns
    /\ \E value \in OneChange(ValuesOf(t)) : ValidLegs(value) /\ SetLegs(t, value, ValuesOf(t))
    /\ UNCHANGED <<txns, header, call, draft, own, clouded, torn, late>>

-----------------------------------------------------------------------------
(* transaction edit, of the command line.                                  *)

\* find_target reads the transaction that the command's changes are made to ...
StartEdit(e, t) ==
    /\ draft[e] = None /\ t \in txns
    /\ draft' = [draft EXCEPT ![e] = [tx |-> t, shown |-> header[t], legs |-> ValuesOf(t),
                                      known |-> None]]
    /\ UNCHANGED <<txns, header, legs, refs, merges, call, own, clouded, torn, late>>

\* ... and edit reads it once more, still before its begin.
ReadCurrent(e) ==
    /\ draft[e] # None /\ draft[e].known = None
    /\ draft' = IF draft[e].tx \in txns THEN [draft EXCEPT ![e].known = ValuesOf(draft[e].tx)]
                ELSE [draft EXCEPT ![e] = None]
    /\ UNCHANGED <<txns, header, legs, refs, merges, call, edits, own, clouded, torn, late>>

\* Its rows are inserted, so a leg that is on another transaction by now fails; so
\* does a header row that is gone.
MayEdit(t, value) == t \in txns /\ \A p \in DOMAIN value : legs[p].tx \in {t, None}

\* A leg of t changes without its log hearing of it.
Unheard(t, value, known) == ~ (Heard(value, ValuesOf(t)) \subseteq Heard(value, known))

\* edit, from its begin: everything but the reconciliation is written as it was
\* read, with one change, and nothing is compared with what is there.
WriteEdit(e) ==
    /\ draft[e] # None /\ draft[e].known # None
    /\ draft' = [draft EXCEPT ![e] = None]
    /\ LET k == draft[e]
           t == k.tx
           shown == [k.shown EXCEPT !.settled = header[t].settled]
       IN  \E h \in Revisions(k.shown), value \in {k.legs} \cup OneChange(k.legs) :
             /\ h = k.shown \/ value = k.legs
             /\ ValidLegs(value)
             /\ \/ /\ ~ MayEdit(t, value)
                   /\ UNCHANGED <<header, legs, refs, merges, own, clouded, torn>>
                \/ /\ MayEdit(t, value)
                   /\ LET w == [h EXCEPT !.settled = header[t].settled] IN
                      /\ SetHeader(t, shown, w)
                      /\ clouded' = clouded \cup IF shown # header[t] \/ Echoes(t, w) THEN {t} ELSE {}
                   /\ SetLegs(t, value, k.known)
                   /\ torn' = torn \cup IF Unheard(t, value, k.known) THEN {t} ELSE {}
    /\ UNCHANGED <<txns, call, edits, late>>

-----------------------------------------------------------------------------
(* Deletions and imports.                                                  *)

\* delete, in either mode: a reference kept as an orphan and one forgotten differ
\* for imports only.  The log of a deleted transaction is not used again.
Delete(t) ==
    /\ t \in txns
    /\ txns' = txns \ {t}
    /\ refs' = [r \in Ref |-> IF refs[r].tx = t THEN NoRef ELSE refs[r]]
    /\ legs' = [p \in Posting |-> IF legs[p].tx = t THEN NoLeg ELSE legs[p]]
    /\ header' = [header EXCEPT ![t] = Blank] /\ own' = [own EXCEPT ![t] = Blank]
    /\ merges' = [merges EXCEPT ![t] = <<>>]
    /\ UNCHANGED <<call, draft, clouded, torn, late>>

\* An import finds its leg already written by hand and attaches a reference to it.
Adopt(t) ==
    /\ \E p \in LegsOf(t), r \in NewRefs :
         /\ \A q \in Ref : refs[q].leg # p
         /\ refs' = [refs EXCEPT ![r] = [tx |-> t, leg |-> p]]
         /\ late' = IF \E m \in Records \cup Merging : m.leg = p THEN late \cup {r} ELSE late \ {r}
    /\ UNCHANGED <<txns, header, legs, merges, call, draft, own, clouded, torn>>

\* An import adds a missing leg, with its reference.
AddSourced(t) ==
    /\ LegsOf(t) # {}
    /\ \E p \in NewLegs, r \in NewRefs, v \in Value \ {None} :
         /\ legs' = [legs EXCEPT ![p] = [tx |-> t, value |-> v]]
         /\ refs' = [refs EXCEPT ![r] = [tx |-> t, leg |-> p]]
         /\ late' = late \ {r}
    /\ UNCHANGED <<txns, header, merges, call, draft, own, clouded, torn>>

-----------------------------------------------------------------------------

\* Every transaction has one leg; some came from an import.
Init ==
    /\ \E scope \in Scopes :
         /\ txns = scope.txns /\ edits = scope.edits
         /\ call = [c \in scope.callers |-> None] /\ draft = [e \in scope.editors |-> None]
    /\ header \in {f \in [Transaction -> Drafts \cup {Blank}] : \A t \in Transaction :
                       IF t \in txns THEN f[t] \in Drafts ELSE f[t] = Blank}
    /\ own = header
    /\ \E imported \in SUBSET txns, v \in [txns -> Openings] :
         LET legOf == CHOOSE f \in Injection(txns, Posting) : TRUE
             refOf == CHOOSE f \in Injection(imported, Ref) : TRUE
         IN  /\ Cardinality(imported) < Cardinality(Ref)
             /\ ExistsInjection(txns, Posting) /\ ExistsInjection(imported, Ref)
             /\ legs = [p \in Posting |-> IF \E t \in txns : legOf[t] = p
                            THEN LET t == CHOOSE u \in txns : legOf[u] = p IN [tx |-> t, value |-> v[t]]
                            ELSE NoLeg]
             /\ refs = [r \in Ref |-> IF \E t \in imported : refOf[t] = r
                            THEN LET t == CHOOSE u \in imported : refOf[u] = r IN [tx |-> t, leg |-> legOf[t]]
                            ELSE NoRef]
    /\ merges = [t \in Transaction |-> <<>>]
    /\ clouded = {} /\ torn = {} /\ late = {}

UserStep(t) ==
    /\ edits > 0 /\ edits' = edits - 1
    /\ EditHeader(t) \/ Reconcile(t) \/ EditLegs(t) \/ Delete(t) \/ Adopt(t) \/ AddSourced(t)

CallerStep(c) ==
    \/ \E s, a \in Transaction : ReadMerge(c, s, a)
    \/ Merge(c)
    \/ \E s \in Transaction : ReadLog(c, s)
    \/ Unmerge(c)

EditorStep(e) ==
    \/ edits > 0 /\ edits' = edits - 1 /\ \E t \in txns : StartEdit(e, t)
    \/ ReadCurrent(e) \/ WriteEdit(e)

Next ==
    \/ \E t \in Transaction : UserStep(t)
    \/ \E c \in DOMAIN call : CallerStep(c)
    \/ \E e \in DOMAIN draft : EditorStep(e)

Spec == Init /\ [][Next]_vars

-----------------------------------------------------------------------------
(* Properties.                                                             *)

\* Once no merge into it is open, a transaction's header is what its user made it,
\* edits while merged included: a merge and its unmerge leave no trace
\* (transfer.rs, unmerge: "edits made while merged are preserved").
EditsStand ==
    \A t \in txns \ clouded : merges[t] = <<>> => header[t] = own[t]

\* A merge leaves its survivor with two legs, its own and the absorbed one, however
\* many merges into it are under way (transfer.rs, merge: the recount).
MergesFuseTwo ==
    [][\A s \in Transaction : Len(merges'[s]) > Len(merges[s]) =>
          \E p, q \in Posting : /\ p # q /\ legs[p].tx = s /\ legs[q].tx = Last(merges'[s]).absorbed
                                /\ LegsOf(s)' = {p, q}]_vars

\* A reference names a leg of the transaction it is on, through every merge and
\* unmerge, unless it was attached while its leg was merged or being merged.
ReferencesFollow ==
    \A r \in Ref \ late : refs[r].leg # None => legs[refs[r].leg].tx = refs[r].tx

\* The same without the exception: what attach checks of every reference it
\* writes (source.rs, attach_in_tx).
ReferencesAsAttached ==
    \A r \in Ref : refs[r].leg # None => legs[refs[r].leg].tx = refs[r].tx

\* What the log says of an open merge is so: the absorbed transaction is gone, and
\* its leg is on the survivor unless a posting event says otherwise
\* (transfer.rs, unmerge: the row it inserts and the leg it moves).
MergesStand ==
    \A s \in txns \ torn : \A m \in ToSet(merges[s]) :
        /\ m.absorbed \notin torn => m.absorbed \notin txns
        /\ m.edited \/ legs[m.leg].tx = s

\* An unmerge that no edit overtook brings a leg back as it was merged.
LegsReturnAsMerged ==
    [][\A s \in Transaction \ torn' : Len(merges'[s]) < Len(merges[s]) /\ s \in txns' =>
          LET m == Last(merges[s]) IN
          legs'[m.leg] = [tx |-> m.absorbed, value |-> m.value]]_vars
=============================================================================
