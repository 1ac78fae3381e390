------------------------------ MODULE RoundTrip -----------------------------
(***************************************************************************)
(* Applying edited exports to the ledger (roundtrip/plan.rs,               *)
(* roundtrip/apply.rs) and discarding what an apply wrote                  *)
(* (import/discard.rs), beside the user's edits and an import's adoptions. *)
(*                                                                         *)
(* A run reads a file that was exported and edited some time ago, plans    *)
(* against what is stored, and writes one transaction at a time later on.  *)
(* A file may be applied again, by one run after the other or by two at    *)
(* once.  All transactions have one date and one description, so a leg's   *)
(* value is its account and amount and decides its fingerprint.            *)
(***************************************************************************)
EXTENDS Integers, Sequences, FiniteSets, SequencesExt, Functions

CONSTANTS
    Transaction, Posting, Ref,      \* ids, numbered
    Value,          \* values of legs: account and amount
    Line,           \* lines of bank statements
    Run,            \* runs of apply, each with the file it reads
    Opening,        \* the legs of the transactions stored at the start
    Sourced,        \* Sourced[x]: the posting bank reference x names at the start
    Editor,         \* command-line edits at once
    Scopes,         \* bound: [drafts, new, twins, changes, runs, editors], the legs a file
                    \*   may state for a transaction it names, those of the ones it adds and
                    \*   how many, the changes users and imports make, the runs, the Editors
    AtOnce,         \* bound: runs between their plan and their end at once
    None            \* no row, no run

ASSUME RoundTripAssumption ==
    /\ \A S \in {Transaction, Posting, Ref} : S \subseteq Nat /\ IsFiniteSet(S)
    /\ Scopes \subseteq [drafts : SUBSET Seq(Value), new : Seq(Value) \ {<<>>},
                        twins : Nat, changes : Nat, runs : Nat, editors : SUBSET Editor]
    /\ AtOnce \in Nat \ {0}
    /\ None \notin Transaction \cup Posting \cup Run

\* Sets of numbers in their order: the rank of i among S, the n-th of S, and what a
\* sequence holds at the places in S.
Rank(S, i) == Cardinality({j \in S : j <= i})
Nth(S, n) == CHOOSE i \in S : Rank(S, i) = n
Pick(seq, S) == [n \in 1 .. Cardinality(S) |-> seq[Nth(S, n)]]

VARIABLES
    stored,         \* stored[t]: the legs of t in order and its reconciliation
    refs,           \* refs[x]: a row of transaction_sources, or NoRef
    edits,          \* edits[b][t]: the record of b's edit or deletion of t, or None
    begun,          \* the runs that opened a batch, in that order
    discarded,      \* the runs whose batch was discarded
    phase,          \* phase[r]: idle, drafted, planned, applying or over
    file,           \* file[r]: the file r reads, or None
    todo,           \* todo[r]: the writes r has planned and not carried out
    slots,          \* slots[r]: the slots r takes for held, and those planned
    scope,          \* the scope, with the changes still to be made
    reading,        \* reading[e]: the transaction as editor e has read it, or None
    made,           \* history: made[t] is the file and the run that created t
    story,          \* history: story[t] is what stands of the writes to t, newest last
    rejected,       \* history: bank references whose leg somebody let go
    unsettled,      \* history: files whose new transactions' slots others moved or freed
    echoed          \* history: transactions whose user wrote what a run had, or that
                    \*   runs at once wrote against the order they began in

vars == <<stored, refs, edits, begun, discarded, phase, file, todo, slots,
          scope, reading, made, story, rejected, unsettled, echoed>>
tables == <<stored, refs, edits, begun, discarded>>
runs == <<phase, file, todo, slots>>
history == <<made, story, rejected, unsettled, echoed>>

-----------------------------------------------------------------------------
(* The tables.                                                             *)

Mark == {"unreconciled", "flagged", "reconciled"}
Leg == [id : Posting, value : Value]

\* Every transaction holds legs; one without does not exist.
Gone == [legs |-> <<>>, mark |-> "unreconciled"]
Version == [legs : Seq(Leg), mark : Mark]
Stands(t) == stored[t] # Gone

\* The record of an edit or a deletion, a file, an entry of a story.
Record == [op : {"edit", "delete"}, before : Version, after : Version,
           links : SUBSET (Ref \X Posting)]
Doc == [name : Run, snap : UNION {[T -> Version] : T \in SUBSET Transaction},
        wants : UNION {[T -> Seq(Value)] : T \in SUBSET Transaction}, new : Nat]
Maker == [file : Run, run : Run]
Entry == [by : Run \cup {None}, v : Version]
Reading == [txn : Transaction, legs : Seq(Leg) \ {<<>>}]

Ids(legs) == {legs[i].id : i \in DOMAIN legs}
Values(legs) == [i \in DOMAIN legs |-> legs[i].value]

\* What is stored at the start: each leg one transaction's, each reference on a leg.
ASSUME OpeningAssumption ==
    /\ None \notin Record \cup Doc \cup Maker \cup Reading
    /\ DOMAIN Opening \subseteq Transaction /\ DOMAIN Sourced \subseteq Ref
    /\ \A t \in DOMAIN Opening :
        /\ Opening[t] \in Seq(Leg) \ {<<>>}
        /\ \A u \in DOMAIN Opening \ {t} : Ids(Opening[t]) \cap Ids(Opening[u]) = {}
    /\ \A x \in DOMAIN Sourced :
        Sourced[x].txn \in DOMAIN Opening /\ Sourced[x].leg \in Ids(Opening[Sourced[x].txn])

\* A reference.  owner is transaction_id while live and deleted_transaction_id when
\* not; leg is None for a tombstone or an orphan.  Apply's own have importer bc-apply,
\* their leg's value for a fingerprint and their run's batch; they own their leg.
NoRef == [importer |-> "none"]
Row(x) == refs[x] # NoRef
Rows == {x \in DOMAIN refs : Row(x)}
BankRefs == {x \in Rows : refs[x].importer = "bank"}
ApplyRefs == {x \in Rows : refs[x].importer = "bc-apply"}
RefsOf(t) == {x \in Rows : refs[x].owner = t}
RefsOn(P) == {x \in Rows : refs[x].leg \in P}
BatchRefs(b) == {x \in ApplyRefs : refs[x].batch = b}

\* protected_postings: the legs a reference other than apply's own names.
Protected == {refs[x].leg : x \in BankRefs} \ {None}

\* The slots of apply's references, those of deleted transactions included.
SlotsOf(X) == {<<refs[x].key, refs[x].occurrence>> : x \in X \cap ApplyRefs}
NoSlots == [held |-> {}, aimed |-> {}]
Occurrences(S, key) == {s[2] : s \in {q \in S : q[1] = key}}

EditsOf(t) == {edits[b][t] : b \in Run} \ {None}
Files == {file[r] : r \in Run} \ {None}
Readings(t) == {reading[e] : e \in {d \in Editor : reading[d] # None /\ reading[d].txn = t}}

\* Ids are minted anew: one that a row, a record, a file, a reading or the history still
\* names is not given to another.
UsedPostings ==
    UNION {Ids(v.legs) : v \in
        UNION {{stored[t]} \cup {e.before : e \in EditsOf(t)} \cup Readings(t)
               \cup {f.snap[t] : f \in {g \in Files : t \in DOMAIN g.snap}}
               \cup {story[t][i].v : i \in DOMAIN story[t]} : t \in Transaction}}
UsedRefs ==
    Rows \cup rejected
         \cup {l[1] : l \in UNION {e.links : e \in UNION {EditsOf(t) : t \in Transaction}}}
FreshPostings == Posting \ UsedPostings
FreshRefs == Ref \ UsedRefs
FreshTransactions ==
    {t \in Transaction :
        /\ ~Stands(t) /\ story[t] = <<>> /\ RefsOf(t) = {} /\ EditsOf(t) = {} /\ Readings(t) = {}
        /\ \A f \in Files : t \notin DOMAIN f.snap}

-----------------------------------------------------------------------------
(* Planning: plan.rs.                                                      *)

\* unchanged_since: content, posting ids and reconciliation.
UnchangedSince(now, was) == now = was

\* The places of v.
Places(seq, v) == {i \in DOMAIN seq : seq[i] = v}

\* match_legs: the legs equal in value are paired first, in order ...
EqualPairs(draft, old) ==
    [i \in DOMAIN draft |->
        LET n == Rank(Places(draft, draft[i]), i)
            Equal == Places(old, draft[i])
        IN  IF n <= Cardinality(Equal) THEN Nth(Equal, n) ELSE 0]

\* ... then a protected leg left over takes the place of an equal unprotected one ...
PreferProtected(pairs, draft, old, protected) ==
    [i \in DOMAIN pairs |->
        LET Loose(k) == pairs[k] # 0 /\ old[pairs[k]].id \notin protected
            n == Rank({k \in Places(draft, draft[i]) : Loose(k)}, i)
            Over == {j \in Places(Values(old), draft[i]) \ ToSet(pairs) : old[j].id \in protected}
        IN  IF Loose(i) /\ n <= Cardinality(Over) THEN Nth(Over, n) ELSE pairs[i]]

Paired(draft, legs, protected) ==
    PreferProtected(EqualPairs(draft, Values(legs)), draft, legs, protected)

\* ... and what is left is paired by position, or new.
MatchLegs(draft, legs, protected) ==
    LET pairs == Paired(draft, legs, protected)
        free == DOMAIN legs \ ToSet(pairs)
        Place(i) == IF pairs[i] # 0 THEN pairs[i]
                    ELSE LET n == Rank(Places(pairs, 0), i)
                         IN  IF n <= Cardinality(free) THEN Nth(free, n) ELSE 0
    IN  [i \in DOMAIN draft |->
            [id |-> IF Place(i) = 0 THEN None ELSE legs[Place(i)].id, value |-> draft[i]]]

\* A protected leg without an equal one in the file refuses the transaction.
KeepsProtected(draft, legs, protected) ==
    \A j \in DOMAIN legs :
        legs[j].id \in protected => j \in ToSet(Paired(draft, legs, protected))

Edits(f) ==
    {[op |-> "edit", txn |-> t, legs |-> MatchLegs(f.wants[t], f.snap[t].legs, Protected)] :
        t \in {u \in DOMAIN f.wants :
                /\ f.wants[u] # <<>> /\ Stands(u)
                /\ KeepsProtected(f.wants[u], f.snap[u].legs, Protected)
                /\ f.wants[u] # Values(f.snap[u].legs)
                /\ UnchangedSince(stored[u], f.snap[u])}}

Deletions(f) ==
    {[op |-> "delete", txn |-> t] :
        t \in {u \in DOMAIN f.wants :
                f.wants[u] = <<>> /\ Stands(u) /\ UnchangedSince(stored[u], f.snap[u])}}

-----------------------------------------------------------------------------
(* Slots: apply.rs.                                                        *)

\* The legs of a transaction a file adds.
NewDraft == scope.new

\* The n-th natural, from the 0th, that is not taken.
NthFree(taken, n) == Nth((0 .. n + Cardinality(taken)) \ taken, n + 1)

\* settle: the legs of the i-th new transaction take their positions among identical
\* legs of the file's new transactions, past the slots of the transactions it names.
Positions(f, i) ==
    LET Before(k) == Cardinality({m \in 1 .. k - 1 : NewDraft[m] = NewDraft[k]})
        Each(k) == Cardinality({m \in DOMAIN NewDraft : NewDraft[m] = NewDraft[k]})
        Theirs == SlotsOf({x \in ApplyRefs : refs[x].owner \in DOMAIN f.wants})
    IN  [k \in DOMAIN NewDraft |->
            NthFree(Occurrences(Theirs, NewDraft[k]), (i - 1) * Each(k) + Before(k))]

SlotsAt(at) == {<<NewDraft[k], at[k]>> : k \in DOMAIN NewDraft}

\* stored_whole, at planning and again before the write.
StoredWholeNever(at) == FALSE   \* slip: the plan's verdict is not checked again

StoredWhole(at) == SlotsAt(at) \subseteq SlotsOf(ApplyRefs)

Creates(f) ==
    {[op |-> "create", at |-> at] :
        at \in {Positions(f, i) : i \in {n \in 1 .. f.new : ~StoredWhole(Positions(f, n))}}}

\* claim, leg by leg: the wished-for slot when it is free, otherwise the one after all
\* held or planned, those the legs before got included.
Claims(known, keys, wish) ==
    LET Late == {k \in DOMAIN keys :
                    ~(k \in DOMAIN wish /\ <<keys[k], wish[k]>> \notin known.held)}
        Known(key) == Occurrences(known.held \cup known.aimed, key)
        After(key) == IF Known(key) = {} THEN 0
                      ELSE 1 + (CHOOSE m \in Known(key) : \A o \in Known(key) : o <= m)
        at == [k \in DOMAIN keys |->
                  IF k \in Late
                  THEN After(keys[k]) + Rank({m \in Late : keys[m] = keys[k]}, k) - 1
                  ELSE wish[k]]
    IN  [held |-> known.held \cup {<<keys[k], at[k]>> : k \in DOMAIN keys}, at |-> at]

-----------------------------------------------------------------------------
Init ==
    /\ stored = [t \in Transaction |->
                    IF t \in DOMAIN Opening
                    THEN [legs |-> Opening[t], mark |-> "unreconciled"] ELSE Gone]
    /\ refs = [x \in Ref |->
                  IF x \in DOMAIN Sourced
                  THEN [importer |-> "bank", key |-> Sourced[x].line, occurrence |-> 0,
                        owner |-> Sourced[x].txn, leg |-> Sourced[x].leg,
                        live |-> TRUE, batch |-> None]
                  ELSE NoRef]
    /\ edits = [b \in Run |-> [t \in Transaction |-> None]]
    /\ begun = <<>> /\ discarded = {}
    /\ phase = [r \in Run |-> "idle"] /\ file = [r \in Run |-> None]
    /\ todo = [r \in Run |-> {}] /\ slots = [r \in Run |-> NoSlots]
    /\ scope \in Scopes /\ reading = [e \in Editor |-> None]
    /\ made = [t \in Transaction |-> None]
    /\ story = [t \in Transaction |->
                   IF Stands(t) THEN <<[by |-> None, v |-> stored[t]]>> ELSE <<>>]
    /\ rejected = {} /\ unsettled = {} /\ echoed = {}

(***************************************************************************)
(* A run.  RoundTripService::export, then somebody edits the file.         *)
(***************************************************************************)

MoreRuns == Cardinality({r \in Run : phase[r] # "idle"}) < scope.runs

\* The file names the exported transactions, each as exported, with other legs or
\* marked bc-delete, and adds some.
ExportFile(r, T, wants, n) ==
    /\ phase[r] = "idle" /\ MoreRuns /\ \A t \in T : Stands(t)
    /\ phase' = [phase EXCEPT ![r] = "drafted"]
    /\ file' = [file EXCEPT ![r] = [name |-> r, snap |-> [t \in T |-> stored[t]],
                                    wants |-> wants, new |-> n]]
    /\ UNCHANGED <<tables, todo, slots, scope, reading, history>>

\* The same file is applied again.
TakeFile(r, q) ==
    /\ phase[r] = "idle" /\ MoreRuns /\ phase[q] # "idle"
    /\ phase' = [phase EXCEPT ![r] = "drafted"]
    /\ file' = [file EXCEPT ![r] = file[q]]
    /\ UNCHANGED <<tables, todo, slots, scope, reading, history>>

PlanFile(r) ==
    /\ phase[r] = "drafted"
    /\ Cardinality({q \in Run : phase[q] \in {"planned", "applying"}}) < AtOnce
    /\ phase' = [phase EXCEPT ![r] = "planned"]
    /\ todo' = [todo EXCEPT ![r] = Edits(file[r]) \cup Deletions(file[r]) \cup Creates(file[r])]
    /\ UNCHANGED <<tables, file, slots, scope, reading, history>>

\* apply loads the slots once, before its first write.
StartApply(r) ==
    /\ phase[r] = "planned"
    /\ phase' = [phase EXCEPT ![r] = "applying"]
    /\ slots' = [slots EXCEPT ![r] =
            [held |-> SlotsOf(ApplyRefs),
             aimed |-> UNION {SlotsAt(a.at) : a \in {w \in todo[r] : w.op = "create"}}]]
    /\ UNCHANGED <<tables, file, todo, scope, reading, history>>

At(r, a, op) == phase[r] = "applying" /\ a \in todo[r] /\ a.op = op

\* What finds the transaction of an action as the file knew it.
BaseStands(r, a) == UnchangedSince(stored[a.txn], file[r].snap[a.txn])

Carried(r, a) ==
    /\ todo' = [todo EXCEPT ![r] = @ \ {a}]
    /\ UNCHANGED <<phase, file>>

\* The batch opens with the first write.
OpenBatch(r) == begun' = IF r \in ToSet(begun) THEN begun ELSE Append(begun, r)

Later(b, c) ==
    \E i, j \in DOMAIN begun : begun[i] = b /\ begun[j] = c /\ i < j

\* v is what a run left.
Echoes(t, v) == \E e \in EditsOf(t) : e.after = v

\* r writes after a run that began later.
Crosses(r, t) == \E b \in Run \ discarded : edits[b][t] # None /\ Later(r, b)

\* What a run whose batch is discarded writes is beyond any discard, like the user's.
Tell(r, t, v) ==
    LET gone == r \in discarded IN
    /\ story' = [story EXCEPT ![t] = Append(@, [by |-> IF gone THEN None ELSE r, v |-> v])]
    /\ echoed' = IF (IF gone THEN Echoes(t, v) ELSE Crosses(r, t))
                 THEN echoed \cup {t} ELSE echoed

\* References of batch r on the legs in news, at the slots got.
Attach(table, r, t, news, at) ==
    [x \in Ref |->
        LET N == {n \in DOMAIN news : Nth(FreshRefs, n) = x} IN
        IF N = {} THEN table[x]
        ELSE LET n == CHOOSE m \in N : TRUE IN
             [importer |-> "bc-apply", key |-> news[n].value, occurrence |-> at[n],
              owner |-> t, leg |-> news[n].id, live |-> TRUE, batch |-> r]]

\* ON DELETE SET NULL: references on legs in P name none any more.
Tombstoned(P) ==
    [x \in Ref |-> IF x \in RefsOn(P) THEN [refs[x] EXCEPT !.leg = None] ELSE refs[x]]

\* The places of the legs that are new.
New(legs) == {k \in DOMAIN legs : legs[k].id = None}
WithIds(legs) ==
    [k \in DOMAIN legs |->
        IF k \in New(legs) THEN [legs[k] EXCEPT !.id = Nth(FreshPostings, Rank(New(legs), k))]
        ELSE legs[k]]

Room(n) == Cardinality(FreshPostings) >= n /\ Cardinality(FreshRefs) >= n
SlotsFree(keys, at) == {<<keys[n], at[n]>> : n \in DOMAIN keys} \cap SlotsOf(ApplyRefs) = {}

EditLegs(a) == WithIds(a.legs)
AddedLegs(a) == Pick(EditLegs(a), New(a.legs))
AddedValues(a) == Values(Pick(a.legs, New(a.legs)))
LegClaims(r, a) == Claims(slots[r], AddedValues(a), <<>>)

Goes(r) == phase[r] \in {"planned", "applying"}

\* A run made t, and t has all the slots it took.
HasSlots(t) ==
    made[t] # None /\ Cardinality(RefsOf(t) \cap BatchRefs(made[t].run)) = Len(NewDraft)

\* The files from under which freeing the slots of X takes one: all but the one whose new
\* transaction took it and had the others too, and that one while a run of it goes on.
Beside(X) ==
    {f.name : f \in {g \in Files : \E x \in X \cap ApplyRefs :
        LET t == refs[x].owner IN
        \/ ~HasSlots(t) \/ made[t] # [file |-> g.name, run |-> refs[x].batch]
        \/ \E q \in Run : file[q] = g /\ Goes(q)}}

\* The other files that name t and had planned their new transactions before t took more
\* slots, which moves their positions.
Moved(r, t) ==
    {f.name : f \in {g \in Files :
        /\ g.name # file[r].name /\ t \in DOMAIN g.wants
        /\ \E q \in Run : file[q] = g /\ phase[q] # "drafted"}}

\* Run::edit: the links let a discard name the removed legs again.
EditTransaction(r, a) ==
    /\ At(r, a, "edit") /\ BaseStands(r, a)
    /\ Room(Cardinality(New(a.legs))) /\ SlotsFree(AddedValues(a), LegClaims(r, a).at)
    /\ LET t == a.txn
           after == [legs |-> EditLegs(a), mark |-> "flagged"]
           removed == Ids(stored[t].legs) \ Ids(after.legs)
       IN  /\ stored' = [stored EXCEPT ![t] = after]
           /\ refs' = Attach(Tombstoned(removed), r, t, AddedLegs(a), LegClaims(r, a).at)
           /\ edits' = [edits EXCEPT ![r][t] =
                  [op |-> "edit", before |-> stored[t], after |-> after,
                   links |-> {<<x, refs[x].leg>> : x \in RefsOn(removed)}]]
           /\ Tell(r, t, after)
    /\ slots' = [slots EXCEPT ![r].held = LegClaims(r, a).held]
    /\ unsettled' = unsettled \cup (IF New(a.legs) = {} THEN {} ELSE Moved(r, a.txn))
    /\ OpenBatch(r) /\ Carried(r, a)
    /\ UNCHANGED <<discarded, scope, reading, made, rejected>>

\* Run::delete, keeping the references as orphans.
Orphaned(t) ==
    [x \in Ref |-> IF x \in RefsOf(t) THEN [refs[x] EXCEPT !.leg = None, !.live = FALSE]
                   ELSE refs[x]]

DeleteTransaction(r, a) ==
    /\ At(r, a, "delete") /\ BaseStands(r, a)
    /\ stored' = [stored EXCEPT ![a.txn] = Gone]
    /\ refs' = Orphaned(a.txn)
    /\ edits' = [edits EXCEPT ![r][a.txn] =
           [op |-> "delete", before |-> stored[a.txn], after |-> Gone,
            links |-> {<<x, refs[x].leg>> : x \in RefsOn(Ids(stored[a.txn].legs))}]]
    /\ Tell(r, a.txn, Gone)
    /\ OpenBatch(r) /\ Carried(r, a)
    /\ UNCHANGED <<discarded, slots, scope, reading, made, rejected, unsettled>>

\* Run::create.
CreateTransaction(r, a) ==
    LET got == Claims(slots[r], NewDraft, a.at)
        legs == WithIds([k \in DOMAIN NewDraft |-> [id |-> None, value |-> NewDraft[k]]])
    IN  /\ At(r, a, "create") /\ ~StoredWhole(a.at)
        /\ Room(Len(NewDraft)) /\ FreshTransactions # {} /\ SlotsFree(NewDraft, got.at)
        /\ LET t == Nth(FreshTransactions, 1)
               new == [legs |-> legs, mark |-> "flagged"]
           IN  /\ stored' = [stored EXCEPT ![t] = new]
               /\ refs' = Attach(refs, r, t, legs, got.at)
               /\ made' = [made EXCEPT ![t] = [file |-> file[r].name, run |-> r]]
               /\ Tell(r, t, new)
        /\ slots' = [slots EXCEPT ![r].held = got.held]
        /\ OpenBatch(r) /\ Carried(r, a)
        /\ UNCHANGED <<edits, discarded, scope, reading, rejected, unsettled>>

\* A stale transaction is refused and a stored one counted as applied; the rest goes on.
LeaveAlone(r, a) ==
    /\ \/ At(r, a, "edit") /\ ~BaseStands(r, a)
       \/ At(r, a, "delete") /\ ~BaseStands(r, a)
       \/ At(r, a, "create") /\ StoredWhole(a.at)
    /\ Carried(r, a)
    /\ UNCHANGED <<tables, slots, scope, reading, history>>

\* Another run took a slot since this one loaded them: the unique index refuses the
\* row, which is not this transaction's failure alone, and the run stops.
StopOnSlot(r, a) ==
    /\ \/ At(r, a, "edit") /\ BaseStands(r, a)
          /\ ~SlotsFree(AddedValues(a), LegClaims(r, a).at)
       \/ At(r, a, "create") /\ ~StoredWhole(a.at)
          /\ ~SlotsFree(NewDraft, Claims(slots[r], NewDraft, a.at).at)
    /\ phase' = [phase EXCEPT ![r] = "over"] /\ todo' = [todo EXCEPT ![r] = {}]
    /\ slots' = [slots EXCEPT ![r] = NoSlots]
    /\ UNCHANGED <<tables, file, scope, reading, history>>

CloseBatch(r) ==
    /\ phase[r] = "applying" /\ todo[r] = {}
    /\ phase' = [phase EXCEPT ![r] = "over"] /\ slots' = [slots EXCEPT ![r] = NoSlots]
    /\ UNCHANGED <<tables, file, todo, scope, reading, history>>

(***************************************************************************)
(* The user and an import (transaction.rs, source.rs, import_exec.rs).     *)
(***************************************************************************)
Change == scope.changes > 0 /\ scope' = [scope EXCEPT !.changes = @ - 1] /\ UNCHANGED <<edits, begun, discarded, runs>>

UserWrites(t, v) ==
    /\ stored' = [stored EXCEPT ![t] = v]
    /\ story' = [story EXCEPT ![t] =
           IF @ # <<>> /\ Last(@).by = None THEN [@ EXCEPT ![Len(@)].v = v]
           ELSE Append(@, [by |-> None, v |-> v])]
    /\ echoed' = IF Echoes(t, v) THEN echoed \cup {t} ELSE echoed

\* An edit writes legs in place of those of t: what names one that stays is tied to it
\* again, and the user lets go of the others.  The reconciliation is not touched.
WriteLegs(t, legs) ==
    /\ Stands(t) /\ legs # <<>> /\ legs # stored[t].legs /\ Change
    /\ LET dropped == Ids(stored[t].legs) \ Ids(legs) IN
       /\ refs' = Tombstoned(dropped)
       /\ rejected' = rejected \cup (BankRefs \cap RefsOn(dropped))
    /\ UserWrites(t, [stored[t] EXCEPT !.legs = legs])
    /\ UNCHANGED <<made, unsettled>>

\* A leg is changed, dropped or added.
Revalued(legs) == {[legs EXCEPT ![i].value = v] : i \in DOMAIN legs, v \in Value}
Shortened(legs) == {RemoveAt(legs, i) : i \in DOMAIN legs}
NewLegs ==
    LET fresh == FreshPostings IN {l \in Leg : l.id \in fresh /\ l.id = Nth(fresh, 1)}
Lengthened(legs) == {Append(legs, l) : l \in NewLegs}
OneChange(legs) == Revalued(legs) \cup Shortened(legs) \cup Lengthened(legs)

\* edit_if_unchanged, of the desktop app and the server, compares and writes in one.
EditByUser(t) ==
    /\ \E legs \in OneChange(stored[t].legs) : WriteLegs(t, legs)
    /\ UNCHANGED reading

\* transaction edit, of the command line, reads what it will change ...
ReadForEdit(e, t) ==
    /\ e \in scope.editors /\ scope.changes > 0 /\ reading[e] = None /\ Stands(t)
    /\ reading' = [reading EXCEPT ![e] = [txn |-> t, legs |-> stored[t].legs]]
    /\ UNCHANGED <<tables, runs, scope, history>>

\* ... and later writes it with the change, whatever others wrote in between; a leg that
\* is gone comes back.
WriteEdit(e) ==
    /\ reading[e] # None
    /\ \E legs \in OneChange(reading[e].legs) : WriteLegs(reading[e].txn, legs)
    /\ reading' = [reading EXCEPT ![e] = None]

\* Its transaction is gone, or it changes nothing, or its process ends.
AbandonEdit(e) ==
    /\ reading[e] # None
    /\ reading' = [reading EXCEPT ![e] = None]
    /\ UNCHANGED <<tables, runs, scope, history>>

Reconcile(t, m) ==
    /\ Stands(t) /\ m # stored[t].mark /\ Change
    /\ UserWrites(t, [stored[t] EXCEPT !.mark = m])
    /\ UNCHANGED <<refs, reading, made, rejected, unsettled>>

DeleteKeeping(t) ==
    /\ Stands(t) /\ Change
    /\ refs' = Orphaned(t)
    /\ rejected' = rejected \cup (BankRefs \cap RefsOf(t))
    /\ UserWrites(t, Gone)
    /\ UNCHANGED <<reading, made, unsettled>>

Without(X) == [x \in Ref |-> IF x \in X THEN NoRef ELSE refs[x]]

DeleteForgetting(t) ==
    /\ Stands(t) /\ Change
    /\ refs' = Without(RefsOf(t))
    /\ rejected' = rejected \ RefsOf(t) /\ unsettled' = unsettled \cup Beside(RefsOf(t))
    /\ stored' = [stored EXCEPT ![t] = Gone]
    /\ story' = [story EXCEPT ![t] = <<>>] /\ made' = [made EXCEPT ![t] = None]
    /\ UNCHANGED <<reading, echoed>>

\* Releasing a rejected leg's reference, or detaching a live one.
FreeSlot(x) ==
    /\ Row(x) /\ Change
    /\ refs' = Without({x})
    /\ rejected' = rejected \ {x} /\ unsettled' = unsettled \cup Beside({x})
    /\ UNCHANGED <<stored, reading, made, story, echoed>>

\* An import finds a line's leg entered by hand and adopts it: attach's reference.
Adopt(t, i, line) ==
    /\ Stands(t) /\ i \in DOMAIN stored[t].legs /\ Change
    /\ RefsOn({stored[t].legs[i].id}) = {}
    /\ \A x \in BankRefs : refs[x].key # line
    /\ FreshRefs # {}
    /\ refs' = [refs EXCEPT ![Nth(FreshRefs, 1)] =
           [importer |-> "bank", key |-> line, occurrence |-> 0, owner |-> t,
            leg |-> stored[t].legs[i].id, live |-> TRUE, batch |-> None]]
    /\ UNCHANGED <<stored, reading, made, story, rejected, unsettled, echoed>>

(***************************************************************************)
(* Discarding the batch of an apply (discard.rs).                          *)
(***************************************************************************)
\* dependants: the later batches that own a live leg beside one of this batch's, or
\* edited a transaction this one created or edited.
DependantsOfLegs(b) ==   \* slip: does not look at the edits
    {c \in Run \ discarded : Later(b, c) /\
        \E x \in BatchRefs(b), y \in BatchRefs(c) :
            refs[x].leg # None /\ refs[y].leg # None /\ refs[x].owner = refs[y].owner}

Dependants(b) ==
    LET Touched == {refs[x].owner : x \in BatchRefs(b)}
                   \cup {t \in Transaction : edits[b][t] # None}
    IN  {c \in Run \ discarded : Later(b, c) /\
            \/ \E t \in Touched : edits[c][t] # None
            \/ \E x \in BatchRefs(b), y \in BatchRefs(c) :
                 refs[x].leg # None /\ refs[y].leg # None /\ refs[x].owner = refs[y].owner}

EditedBy(b, op) == {t \in Transaction : edits[b][t] # None /\ edits[b][t].op = op}

\* Recorded::read: an edit is reverted while the transaction is as the run left it.
Kept(b) == {t \in EditedBy(b, "edit") : ~UnchangedSince(stored[t], edits[b][t].after)}
Returned(b) == (EditedBy(b, "edit") \ Kept(b)) \cup EditedBy(b, "delete")

\* Plan::read, after detach_kept: the run's own postings, and where its references are.
Plan(b) == {x \in BatchRefs(b) : refs[x].owner \notin Kept(b)}
Owned(b) == {refs[x].leg : x \in Plan(b)} \ {None}
Swept(b) == {refs[x].owner : x \in {y \in Plan(b) : refs[y].live}}

\* What is left of t: the recorded state before the run, less the run's own postings.
Left(b, t) ==
    LET back == IF t \in Returned(b) THEN edits[b][t].before ELSE stored[t]
        legs == Pick(back.legs, {i \in DOMAIN back.legs : back.legs[i].id \notin Owned(b)})
    IN  IF legs = <<>> THEN Gone ELSE [back EXCEPT !.legs = legs]

\* relink: a reference names the posting it named, if it still belongs to t.
Relinks(b, x) ==
    IF Row(x) /\ refs[x].owner \in Returned(b)
    THEN {l \in edits[b][refs[x].owner].links : l[1] = x} ELSE {}

RefAfter(b, x) ==
    LET t == refs[x].owner
        leg == IF Relinks(b, x) = {} THEN refs[x].leg
               ELSE (CHOOSE l \in Relinks(b, x) : TRUE)[2]
    IN  IF ~Row(x) \/ x \in BatchRefs(b) \/ (t \in Swept(b) /\ Left(b, t) = Gone) THEN NoRef
        ELSE [refs[x] EXCEPT
                 !.leg = IF leg \in UNION {Ids(Left(b, u).legs) : u \in Transaction}
                         THEN leg ELSE None,
                 !.live = @ \/ t \in EditedBy(b, "delete")]

\* What b wrote to t is taken off t's story; what stands on it stays.  Of a transaction
\* b created only the run's own legs are known to go.
Taken(b, t) ==
    LET S == story[t]
        I == {i \in DOMAIN S : S[i].by = b}
        Whole == Ids(stored[t].legs) \subseteq {refs[x].leg : x \in BatchRefs(b)}
    IN  IF made[t] # None /\ made[t].run = b
        THEN IF Len(S) = 1 /\ Whole THEN <<>>
             ELSE IF Left(b, t) = stored[t]
             THEN [i \in DOMAIN S |-> IF i \in I THEN [S[i] EXCEPT !.by = None] ELSE S[i]]
             ELSE IF Left(b, t) = Gone THEN <<>> ELSE <<[by |-> None, v |-> Left(b, t)]>>
        ELSE IF I = {} THEN S ELSE RemoveAt(S, CHOOSE i \in I : \A j \in I : i >= j)

Discard(b) ==
    /\ b \in ToSet(begun) \ discarded /\ Dependants(b) = {}
    /\ stored' = [t \in Transaction |-> Left(b, t)]
    /\ refs' = [x \in Ref |-> RefAfter(b, x)]
    /\ edits' = [edits EXCEPT ![b] = [t \in Transaction |-> None]]
    /\ discarded' = discarded \cup {b}
    /\ story' = [t \in Transaction |-> Taken(b, t)]
    /\ made' = [t \in Transaction |->
                   IF made[t] # None /\ made[t].run = b THEN None ELSE made[t]]
    /\ rejected' =
           (rejected \cup {x \in BankRefs : refs[x].leg # None /\ refs'[x] # NoRef
                                            /\ refs'[x].leg = None}
                     \cup {l[1] : l \in UNION {edits[b][t].links : t \in Kept(b)}})
           \cap {x \in Ref : refs'[x] # NoRef}
    /\ unsettled' = unsettled \cup Beside({x \in Rows : refs'[x] = NoRef})
    /\ UNCHANGED <<begun, runs, scope, reading, echoed>>

-----------------------------------------------------------------------------
Next ==
    \/ \E r \in Run :
        \/ \E T \in SUBSET Transaction, n \in 0 .. scope.twins :
             \E wants \in [T -> scope.drafts] : ExportFile(r, T, wants, n)
        \/ \E q \in Run : TakeFile(r, q)
        \/ PlanFile(r) \/ StartApply(r) \/ CloseBatch(r)
        \/ \E a \in todo[r] :
             \/ EditTransaction(r, a) \/ CreateTransaction(r, a) \/ DeleteTransaction(r, a)
             \/ LeaveAlone(r, a) \/ StopOnSlot(r, a)
        \/ Discard(r)
    \/ \E t \in Transaction :
        \/ EditByUser(t)
        \/ \E i \in 1 .. Len(stored[t].legs), line \in Line : Adopt(t, i, line)
        \/ \E m \in Mark : Reconcile(t, m)
        \/ DeleteKeeping(t) \/ DeleteForgetting(t)
    \/ \E e \in Editor :
        \/ \E t \in Transaction : ReadForEdit(e, t)
        \/ WriteEdit(e) \/ AbandonEdit(e)
    \/ \E x \in Ref : FreeSlot(x)

Spec == Init /\ [][Next]_vars

-----------------------------------------------------------------------------
(* Properties.                                                             *)

TypeOK ==
    /\ stored \in [Transaction -> Version]
    /\ DOMAIN refs = Ref
    /\ \A x \in Rows :
        /\ refs[x].owner \in Transaction /\ refs[x].leg \in Posting \cup {None}
        /\ refs[x].leg # None => refs[x].live
    /\ edits \in [Run -> [Transaction -> Record \cup {None}]]
    /\ begun \in Seq(Run) /\ IsInjective(begun) /\ discarded \subseteq ToSet(begun)
    /\ phase \in [Run -> {"idle", "drafted", "planned", "applying", "over"}]
    /\ DOMAIN file = Run /\ DOMAIN todo = Run /\ DOMAIN slots = Run
    /\ \A r \in Run :
        /\ (phase[r] = "idle") <=> (file[r] = None)
        /\ file[r] # None =>
            LET T == DOMAIN file[r].snap IN
            /\ T \subseteq Transaction /\ file[r].snap \in [T -> Version \ {Gone}]
            /\ file[r].wants \in [T -> Seq(Value)] /\ file[r].name \in Run
    /\ made \in [Transaction -> Maker \cup {None}]
    /\ story \in [Transaction -> Seq(Entry)]
    /\ reading \in [Editor -> Reading \cup {None}]
    /\ rejected \subseteq Ref /\ unsettled \subseteq Run /\ echoed \subseteq Transaction
    /\ scope \in [drafts : SUBSET Seq(Value), new : Seq(Value) \ {<<>>},
                  twins : Nat, changes : Nat, runs : Nat, editors : SUBSET Editor]

\* A transaction is what the last standing write made of it: a discard takes back what
\* its run wrote, and only that, whatever others wrote before and since, in whatever
\* order batches are discarded (discard.rs, Recorded; "a discarded batch is a run that
\* never happened").
StoriesHold ==
    \A t \in Transaction \ echoed :
        stored[t] = IF story[t] = <<>> THEN Gone ELSE Last(story[t]).v

\* A bank reference without its leg is one whose leg the user let go, or a standing
\* record still says which leg it named: an apply never leaves the next import to take a
\* line for rejected by its own doing (relink in discard.rs).
LegsComeBack ==
    \A x \in BankRefs : refs[x].leg = None =>
        x \in rejected \/ \E e \in EditsOf(refs[x].owner) : x \in {l[1] : l \in e.links}

DiscardsPeelOff == StoriesHold /\ LegsComeBack

\* The transactions a file added, applied any number of times and by runs at once, while
\* their slots are taken: deleted ones, which must not come back, included.
AddedBy(f) == {t \in Transaction : HasSlots(t) /\ made[t].file = f.name}

\* Applying a file again, after a run that ended, stopped or still goes on, adds nothing
\* it added already, as long as nobody frees a slot from under it or moves its positions
\* (apply.rs, Slots and the check before the write; "a rerun finds each one at the slot it
\* took").
CreatedOnce == \A f \in Files : f.name \notin unsettled => Cardinality(AddedBy(f)) <= f.new
=============================================================================
