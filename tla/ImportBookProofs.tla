-------------------------- MODULE ImportBookProofs --------------------------
(***************************************************************************)
(* Proofs about ImportLedger when runs do not overlap: a row stays on one  *)
(* transaction, and the ledger implements StatementBook, for any           *)
(* documents that agree on what a row is, any number of runs, and any      *)
(* edits, deletions, discards and crashes between and during them.         *)
(*                                                                         *)
(* Between its reading and its write a run has only users and discards     *)
(* beside it.  They take references away and turn live ones into           *)
(* tombstones, and so a stale reading errs on one side only: what it saw   *)
(* free is free, and what it saw on a transaction is on no other.          *)
(***************************************************************************)
EXTENDS ImportLedgerProofs, FiniteSetTheorems

\* A leg belongs to the same row in every document that states it.
StableRows ==
    \A doc, other \in Documents : \A i \in DOMAIN doc, j \in DOMAIN other :
        doc[i] = other[j] \/ doc[i] \cap other[j] = {}

OneAtATime == AtOnce = 1

\* Runs do not overlap, and one that is over has nothing left to do.
Sequential ==
    /\ \A q, r \in InFlight : q = r
    /\ \A r \in Run \ InFlight : todo[r] = <<>>

\* Nothing is imported to an account that does not exist.
LegsReachable ==
    /\ Held \subseteq reachable
    /\ \A r \in Run : \A i \in DOMAIN todo[r] : todo[r][i] \subseteq reachable

\* The planned legs of two rows are of two rows, and those of one of one.
RowsApart ==
    \A r \in Run : \A i, j \in DOMAIN todo[r] : \A s \in todo[r][i], d \in todo[r][j] :
        RowMates(s, d) <=> i = j

\* A leg of a row that a run left out, because its account did not exist, stays out.
LateLegsFree ==
    \A r \in Run : \A i \in DOMAIN todo[r] : \A s \in todo[r][i], d \in Slot \ todo[r][i] :
        RowMates(s, d) => refs[d] = NoRef

\* A reading errs on one side only.
SeenStands ==
    \A r \in Run : \A i \in DOMAIN todo[r] : \A s \in todo[r][i] :
        /\ seen[r][s] = Free => refs[s] = NoRef
        /\ seen[r][s] \in Tx => refs[s] = NoRef \/ refs[s].tx = seen[r][s]

\* What a run is about to extend is the one owner that it saw.
SawOwner(r, t) == ~RowRejected(r) /\ Owners(r) = {t}
PendingOwner ==
    \A r \in Run :
        /\ candidate[r] # NoPlan => SawOwner(r, candidate[r].owner)
        /\ plan[r] # NoPlan => /\ SawOwner(r, plan[r].owner)
                               /\ plan[r].insert \cup Adopted(plan[r]) \subseteq Legs(r)

BookInv ==
    /\ Sequential
    /\ LegsReachable
    /\ RowsApart
    /\ LateLegsFree
    /\ SeenStands
    /\ PendingOwner
    /\ RowWhole

-----------------------------------------------------------------------------
(* What users and discards do.                                             *)

\* References go or become tombstones; none appears, and none moves.
Fades ==
    \A s \in Slot : refs'[s] # NoRef =>
        /\ refs[s] # NoRef /\ refs'[s].tx = refs[s].tx
        /\ refs'[s].live => refs[s].live

\* Rows are made of slots.
LEMMA LegsAreSlots ==
    ASSUME RunInv, NEW r \in Run
    PROVE  /\ \A i \in DOMAIN todo[r] : todo[r][i] \subseteq Slot
           /\ todo[r] # <<>> => Legs(r) = todo[r][1] /\ 1 \in DOMAIN todo[r]
  <1>1. todo[r] \in Seq(SUBSET Slot)
    BY DEF RunInv, RunTypes
  <1> QED
    BY <1>1 DEF Legs

\* What fades keeps all that is known of the rows.
LEMMA FadingKeepsBook ==
    ASSUME BookInv, RunInv, Fades, reachable \subseteq reachable',
           UNCHANGED <<phase, todo, seen, candidate, plan>>
    PROVE  BookInv'
  <1> USE DEF BookInv, Fades
  <1>1. Sequential'
    BY DEF Sequential, InFlight
  <1>2. LegsReachable'
    BY DEF LegsReachable, Held
  <1>3. RowsApart'
    BY DEF RowsApart, RowMates
  <1>4. LateLegsFree'
    BY DEF LateLegsFree, RowMates
  <1>5. SeenStands'
    BY LegsAreSlots DEF SeenStands
  <1>6. PendingOwner'
    BY DEF PendingOwner, SawOwner, RowRejected, Owners, Legs, Adopted
  <1>7. RowWhole'
    BY DEF RowWhole, RowMates, Held
  <1> QED
    BY <1>1, <1>2, <1>3, <1>4, <1>5, <1>6, <1>7

\* Untying a reference from a posting that goes is fading.
LEMMA UntyingFades ==
    ASSUME LedgerTypes, NEW G, NEW s \in Slot, Untie(G, s) # NoRef
    PROVE  /\ refs[s] # NoRef /\ Untie(G, s).tx = refs[s].tx
           /\ Untie(G, s).live => refs[s].live
  <1>1. refs[s] # NoRef
    BY DEF Untie
  <1> QED
    BY <1>1, UntiedRecord DEF Held

\* The user takes references away and opens accounts.
LEMMA UserFades ==
    ASSUME LedgerInv, UserStep
    PROVE  Fades /\ (reachable \subseteq Slot => reachable \subseteq reachable')
  <1> USE DEF LedgerInv, Fades, Others
  <1>1. CASE OpenAccounts
    BY <1>1 DEF OpenAccounts, ledger
  <1>2. ASSUME NEW t \in txs, NEW p \in FreshPosting, NEW v \in Value, AddLeg(t, p, v)
        PROVE  Fades /\ reachable' = reachable
    BY <1>2 DEF AddLeg
  <1>3. ASSUME NEW p \in Posting, NEW v \in Value, Revalue(p, v)
        PROVE  Fades /\ reachable' = reachable
    BY <1>3 DEF Revalue
  <1>4. ASSUME NEW p \in Posting, DropLeg(p)
        PROVE  Fades /\ reachable' = reachable
    BY <1>4, UntyingFades DEF DropLeg
  <1>5. ASSUME NEW t \in txs, NEW keep \in BOOLEAN, DeleteTransaction(t, keep)
        PROVE  Fades /\ reachable' = reachable
    BY <1>5, OrphanRecord DEF DeleteTransaction, RefsOn, Held, LedgerTypes
  <1>6. ASSUME NEW s \in Slot, ReleaseLeg(s)
        PROVE  Fades /\ reachable' = reachable
    BY <1>6 DEF ReleaseLeg, FreeSlots
  <1>7. ASSUME NEW s \in Slot, Detach(s)
        PROVE  Fades /\ reachable' = reachable
    BY <1>7 DEF Detach, FreeSlots
  <1>8. ASSUME NEW t \in Tx, ReleaseTransaction(t)
        PROVE  Fades /\ reachable' = reachable
    BY <1>8 DEF ReleaseTransaction, FreeSlots
  <1>9. ASSUME NEW e \in Editor, EditStep(e)
        PROVE  Fades /\ reachable' = reachable
    <2>1. ASSUME NEW legs, WriteEdit(e, legs) PROVE Fades /\ reachable' = reachable
      BY <2>1, UntyingFades DEF WriteEdit
    <2> QED
      BY <1>9, <2>1 DEF EditStep, ReadForEdit, AbandonEdit, ledger
  <1> QED
    BY <1>1, <1>2, <1>3, <1>4, <1>5, <1>6, <1>7, <1>8, <1>9 DEF UserStep

\* A discard takes references away.
LEMMA DiscardFades ==
    ASSUME LedgerInv, NEW r \in Run, Discard(r)
    PROVE  Fades
  BY UntyingFades DEF Discard, Fades, LedgerInv

-----------------------------------------------------------------------------
(* What a run does to its own rows.                                        *)

\* A step that writes nothing, and after which the run has the rows it had.
LEMMA ThinkingKeepsBook ==
    ASSUME BookInv, UNCHANGED <<ledger, reachable, todo>>,
           Sequential', SeenStands', PendingOwner'
    PROVE  BookInv'
  <1> USE DEF BookInv, ledger
  <1>1. LegsReachable'
    BY DEF LegsReachable, Held
  <1>2. RowsApart' /\ LateLegsFree'
    BY DEF RowsApart, LateLegsFree, RowMates
  <1>3. RowWhole'
    BY DEF RowWhole, RowMates, Held
  <1> QED
    BY <1>1, <1>2, <1>3

\* The rows of a document, and their legs.
LEMMA RowMatesOf ==
    ASSUME StableRows, NEW doc \in Documents, NEW i \in DOMAIN doc, NEW s \in doc[i], NEW d
    PROVE  RowMates(s, d) <=> d \in doc[i]
  BY DEF StableRows, RowMates

\* A run begins when none is in flight.
LEMMA BeginsAlone ==
    ASSUME OneAtATime, Cardinality(InFlight) < AtOnce
    PROVE  InFlight = {}
  <1>1. IsFiniteSet(Run)
    <2>1. 1 \in Int /\ MaxRuns \in Int
      BY LedgerAssumption
    <2> QED
      BY <2>1, FS_Interval DEF Run
  <1>2. IsFiniteSet(InFlight)
    BY <1>1, FS_Subset DEF InFlight
  <1>3. Cardinality(InFlight) = 0
    BY <1>2, FS_CardinalityType DEF OneAtATime
  <1> QED
    BY <1>2, <1>3, FS_EmptySet

\* A run plans the legs whose accounts exist, each row's apart from the others'.
LEMMA BeginKeepsBook ==
    ASSUME BookInv, IInv, OneAtATime, StableRows,
           NEW r \in Run, NEW doc \in Documents, Begin(r, doc)
    PROVE  BookInv'
  <1> DEFINE legs == [i \in DOMAIN doc |-> doc[i] \cap reachable]
             planned == UNION {doc[i] \cap reachable : i \in DOMAIN doc}
  <1>1. InFlight = {}
    BY BeginsAlone DEF Begin
  <1>2. \A q \in Run : todo[q] = <<>>
    BY <1>1 DEF BookInv, Sequential
  <1>3. todo' = [todo EXCEPT ![r] = legs]
    BY DEF Begin
  <1>4. \A q \in Run \ {r} : DOMAIN todo'[q] = {}
    BY <1>2, <1>3 DEF IInv, RunInv, RunTypes
  <1>5. todo'[r] = legs
    BY <1>3 DEF IInv, RunInv, RunTypes
  <1>6. \A i \in DOMAIN doc : doc[i] \subseteq Slot
    BY LedgerAssumption
  <1>7. Sequential'
    BY <1>1, <1>2, <1>3 DEF Begin, Sequential, InFlight, IInv, RunInv, RunTypes
  <1>8. LegsReachable'
    BY <1>4, <1>5 DEF Begin, BookInv, LegsReachable, ledger, Held
  <1>9. RowsApart'
    <2> SUFFICES ASSUME NEW i \in DOMAIN legs, NEW j \in DOMAIN legs,
                        NEW s \in legs[i], NEW d \in legs[j]
                 PROVE  RowMates(s, d) <=> i = j
      BY <1>4, <1>5 DEF RowsApart, RowMates
    <2> QED
      BY RowMatesOf, LedgerAssumption
  <1>10. LateLegsFree'
    <2> SUFFICES ASSUME NEW i \in DOMAIN legs, NEW s \in legs[i], NEW d \in Slot \ legs[i],
                        RowMates(s, d)
                 PROVE  refs[d] = NoRef
      BY <1>4, <1>5 DEF LateLegsFree, RowMates, Begin, ledger
    <2>1. d \in doc[i] \ reachable
      BY RowMatesOf
    <2> QED
      BY <2>1 DEF BookInv, LegsReachable, Held
  <1>11. SeenStands'
    <2> SUFFICES ASSUME NEW i \in DOMAIN legs, NEW s \in legs[i]
                 PROVE  seen'[r][s] = Unread
      BY <1>4, <1>5, LedgerAssumption DEF SeenStands
    <2> QED
      BY <1>6 DEF Begin, IInv, RunInv, RunTypes
  <1>12. PendingOwner'
    BY <1>1 DEF PendingOwner, Begin, IInv, RunInv, PendingHasRow, InFlight
  <1>13. RowWhole'
    BY DEF BookInv, RowWhole, RowMates, Held, Begin, ledger
  <1> QED
    BY <1>7, <1>8, <1>9, <1>10, <1>11, <1>12, <1>13 DEF BookInv

\* existing_legs: what is read is true when it is read.
LEMMA ReadExistingKeepsBook ==
    ASSUME BookInv, IInv, NEW r \in Run, NEW a, ReadExisting(r, a)
    PROVE  BookInv'
  <1> USE DEF ReadExisting
  <1>1. Sequential'
    BY DEF BookInv, Sequential, InFlight, IInv, RunInv, RunTypes
  <1>2. SeenStands'
    <2> SUFFICES ASSUME NEW q \in Run, NEW i \in DOMAIN todo[q], NEW s \in todo[q][i]
                 PROVE  /\ seen'[q][s] = Free => refs[s] = NoRef
                        /\ seen'[q][s] \in Tx => refs[s] = NoRef \/ refs[s].tx = seen'[q][s]
      BY DEF SeenStands, ledger
    <2>1. s \in Slot
      BY LegsAreSlots DEF IInv
    <2>2. seen'[q][s] = seen[q][s] \/ seen'[q][s] = Holder(s)
      BY <2>1 DEF IInv, RunInv, RunTypes
    <2>3. CASE seen'[q][s] = seen[q][s]
      BY <2>3 DEF BookInv, SeenStands
    <2>4. CASE seen'[q][s] = Holder(s)
      BY <2>1, <2>4, LedgerAssumption DEF Holder, IInv, LedgerInv, LedgerTypes, Ref
    <2> QED
      BY <2>2, <2>3, <2>4
  <1>3. \A q \in Run : candidate[q] # NoPlan \/ plan[q] # NoPlan => seen'[q] = seen[q]
    BY DEF IInv, RunInv, RunTypes, PendingHasRow
  <1>4. \A q \in Run : candidate[q] # NoPlan =>
            RowRejected(q)' = RowRejected(q) /\ Owners(q)' = Owners(q)
    BY <1>3 DEF RowRejected, Owners, Legs
  <1>5. \A q \in Run : plan[q] # NoPlan =>
            RowRejected(q)' = RowRejected(q) /\ Owners(q)' = Owners(q) /\ Legs(q)' = Legs(q)
    BY <1>3 DEF RowRejected, Owners, Legs
  <1>6. PendingOwner'
    BY <1>4, <1>5 DEF BookInv, PendingOwner, SawOwner, Adopted
  <1> QED
    BY <1>1, <1>2, <1>6, ThinkingKeepsBook

\* attach reads the owner that the row's reading names.
LEMMA ReadOwnerKeepsBook ==
    ASSUME BookInv, IInv, NEW r \in Run, ReadOwner(r)
    PROVE  BookInv'
  <1> USE DEF ReadOwner
  <1>1. PICK t \in txs : /\ AtRow(r) /\ SawOwner(r, t)
                         /\ candidate'[r] =
                              [owner |-> t, shown |-> [p \in PostingsOf(t) |-> postings[p].value]]
    BY DEF SawOwner, IInv, RunInv, RunTypes
  <1>2. Sequential' /\ SeenStands'
    BY DEF BookInv, Sequential, InFlight, SeenStands, ledger
  <1>3. \A q \in Run : RowRejected(q)' = RowRejected(q) /\ Owners(q)' = Owners(q)
                       /\ Legs(q)' = Legs(q)
    BY DEF RowRejected, Owners, Legs
  <1>4. candidate'[r].owner = t
    BY <1>1
  <1>5. \A q \in Run \ {r} : candidate'[q] = candidate[q]
    BY DEF IInv, RunInv, RunTypes
  <1>6. PendingOwner'
    BY <1>1, <1>3, <1>4, <1>5 DEF BookInv, PendingOwner, SawOwner, Adopted
  <1> QED
    BY <1>2, <1>6, ThinkingKeepsBook

\* corroborate plans for the legs that the reading found missing, on that owner.
LEMMA CorroborateKeepsBook ==
    ASSUME BookInv, IInv, NEW r \in Run, Corroborate(r)
    PROVE  BookInv'
  <1> USE DEF Corroborate
  <1> DEFINE c == candidate[r]
             mine == {q \in DOMAIN c.shown : Provenance(c.owner, q) = {}}
  <1>1. PICK leg \in Explanations(r, c) :
          plan' = [plan EXCEPT ![r] = [owner |-> c.owner, adopt |-> [p \in mine |-> leg[p]],
                                       insert |-> Unstored(r) \ {leg[p] : p \in DOMAIN c.shown}]]
    OBVIOUS
  <1>2. /\ plan'[r].owner = c.owner /\ plan'[r].adopt = [p \in mine |-> leg[p]]
        /\ plan'[r].insert \subseteq Unstored(r)
    BY <1>1 DEF IInv, RunInv, RunTypes
  <1>3. \A p \in mine : leg[p] \in Legs(r)
    BY DEF Explanations
  <1>4. plan'[r].insert \cup Adopted(plan'[r]) \subseteq Legs(r)
    <2>1. DOMAIN plan'[r].adopt = mine /\ \A p \in mine : plan'[r].adopt[p] = leg[p]
      BY <1>2
    <2>2. \A d \in Adopted(plan'[r]) : \E p \in mine : d = leg[p]
      BY <2>1 DEF Adopted
    <2>3. Adopted(plan'[r]) \subseteq Legs(r)
      BY <1>3, <2>2
    <2>4. plan'[r].insert \subseteq Legs(r)
      BY <1>2 DEF Unstored
    <2> QED
      BY <2>3, <2>4
  <1>5. Sequential' /\ SeenStands'
    BY DEF BookInv, Sequential, InFlight, SeenStands, ledger
  <1>6. \A q \in Run : RowRejected(q)' = RowRejected(q) /\ Owners(q)' = Owners(q)
                       /\ Legs(q)' = Legs(q)
    BY DEF RowRejected, Owners, Legs
  <1>7. \A q \in Run \ {r} : plan'[q] = plan[q] /\ candidate'[q] = candidate[q]
    BY <1>1 DEF IInv, RunInv, RunTypes
  <1>8. candidate'[r] = NoPlan /\ SawOwner(r, c.owner)
    BY DEF IInv, RunInv, RunTypes, BookInv, PendingOwner
  <1> HIDE DEF c, mine
  <1>9. PendingOwner'
    <2> SUFFICES ASSUME NEW q \in Run
                 PROVE  /\ candidate'[q] # NoPlan => SawOwner(q, candidate[q].owner)'
                        /\ plan'[q] # NoPlan =>
                             /\ SawOwner(q, plan[q].owner)'
                             /\ plan'[q].insert \cup Adopted(plan'[q]) \subseteq Legs(q)'
      BY DEF PendingOwner, Adopted
    <2>1. CASE q = r
      BY <2>1, <1>2, <1>4, <1>6, <1>8 DEF SawOwner
    <2>2. CASE q # r
      BY <2>2, <1>6, <1>7 DEF BookInv, PendingOwner, SawOwner, Adopted
    <2> QED
      BY <2>1, <2>2
  <1> QED
    BY <1>5, <1>9, ThinkingKeepsBook

\* A run that is over, however it ended, has nothing left to do.
LEMMA EndRunKeepsBook ==
    ASSUME BookInv, IInv, NEW r \in Run, NEW how \in Phase \ {"begun", "writing"}, EndRun(r, how)
    PROVE  BookInv'
  <1> USE DEF EndRun, ledger
  <1>1. /\ \A q \in Run \ {r} : todo'[q] = todo[q] /\ seen'[q] = seen[q] /\ phase'[q] = phase[q]
                                /\ candidate'[q] = candidate[q] /\ plan'[q] = plan[q]
        /\ todo'[r] = <<>> /\ candidate'[r] = NoPlan /\ plan'[r] = NoPlan /\ phase'[r] = how
    BY DEF IInv, RunInv, RunTypes
  <1>2. DOMAIN todo'[r] = {}
    BY <1>1
  <1>3. Sequential' /\ LegsReachable'
    BY <1>1, <1>2 DEF BookInv, Sequential, LegsReachable, InFlight, Held
  <1>4. RowsApart' /\ LateLegsFree' /\ RowWhole'
    BY <1>1, <1>2 DEF BookInv, RowsApart, LateLegsFree, RowWhole, RowMates, Held
  <1>5. SeenStands'
    BY <1>1, <1>2 DEF BookInv, SeenStands
  <1>6. \A q \in Run \ {r} : RowRejected(q)' = RowRejected(q) /\ Owners(q)' = Owners(q)
                             /\ Legs(q)' = Legs(q)
    BY <1>1 DEF RowRejected, Owners, Legs
  <1>7. PendingOwner'
    BY <1>1, <1>6 DEF BookInv, PendingOwner, SawOwner, Adopted
  <1> QED
    BY <1>3, <1>4, <1>5, <1>7 DEF BookInv

-----------------------------------------------------------------------------
(* What a run writes.                                                      *)

\* Run r writes the legs of S, of the row it is at, to transaction t, on which
\* every other leg of the row is that is anywhere; and goes on to the next row.
WritesRow(r, S, t) ==
    /\ phase[r] = "writing" /\ todo[r] # <<>> /\ NextRow(r)
    /\ S \subseteq Legs(r) /\ SlotsFree(S)
    /\ \A s \in Slot \ S : refs'[s] = refs[s]
    /\ \A s \in S : refs'[s].tx = t
    /\ S # {} => \A d \in Legs(r) : refs[d] # NoRef => refs[d].tx = t

\* The rows a run has left are those it had, but the first.
LEMMA RowsLeft ==
    ASSUME RunInv, NEW r \in Run, todo[r] # <<>>, NextRow(r)
    PROVE  /\ todo'[r] = Tail(todo[r])
           /\ \A i \in DOMAIN todo'[r] : /\ i + 1 \in DOMAIN todo[r] /\ i + 1 # 1 /\ i \in Nat
                                         /\ todo'[r][i] = todo[r][i + 1]
           /\ \A q \in Run \ {r} : todo'[q] = todo[q]
  <1>1. todo'[r] = Tail(todo[r]) /\ todo[r] \in Seq(SUBSET Slot)
    BY DEF NextRow, RunInv, RunTypes
  <1>2. \A q \in Run \ {r} : todo'[q] = todo[q]
    BY DEF NextRow, RunInv, RunTypes
  <1> QED
    BY <1>1, <1>2

\* A written row is on one transaction, and the rows ahead are other rows.
LEMMA WriteKeepsBook ==
    ASSUME BookInv, IInv, NEW r \in Run, NEW S, NEW t, WritesRow(r, S, t)
    PROVE  BookInv'
  <1> USE DEF WritesRow
  <1>1. /\ \A i \in DOMAIN todo'[r] : /\ i + 1 \in DOMAIN todo[r] /\ i + 1 # 1 /\ i \in Nat
                                      /\ todo'[r][i] = todo[r][i + 1]
        /\ \A q \in Run \ {r} : todo'[q] = todo[q]
    BY RowsLeft DEF IInv
  <1>2. /\ \A i \in DOMAIN todo[r] : todo[r][i] \subseteq Slot
        /\ Legs(r) = todo[r][1] /\ 1 \in DOMAIN todo[r]
    BY LegsAreSlots DEF IInv
  <1>3. \A q \in Run \ {r} : todo[q] = <<>>
    BY DEF BookInv, Sequential, InFlight
  <1>4. \A q \in Run \ {r} : DOMAIN todo'[q] = {}
    BY <1>1, <1>3
  <1>5. UNCHANGED <<reachable, phase, seen>>
    BY DEF NextRow
  <1>6. \A i \in DOMAIN todo'[r] : todo'[r][i] \cap S = {}
    BY <1>1, <1>2 DEF BookInv, RowsApart
  <1>7. Sequential' /\ LegsReachable'
    BY <1>1, <1>2, <1>3, <1>4, <1>5 DEF BookInv, Sequential, LegsReachable, InFlight, Held
  <1>8. RowsApart'
    <2> SUFFICES ASSUME NEW i \in DOMAIN todo'[r], NEW j \in DOMAIN todo'[r],
                        NEW s \in todo'[r][i], NEW d \in todo'[r][j]
                 PROVE  RowMates(s, d) <=> i = j
      BY <1>4 DEF RowsApart, RowMates
    <2> QED
      BY <1>1 DEF BookInv, RowsApart
  <1>9. LateLegsFree'
    <2> SUFFICES ASSUME NEW i \in DOMAIN todo'[r], NEW s \in todo'[r][i],
                        NEW d \in Slot \ todo'[r][i], RowMates(s, d)
                 PROVE  refs'[d] = NoRef
      BY <1>4 DEF LateLegsFree, RowMates
    <2>1. refs[d] = NoRef
      BY <1>1 DEF BookInv, LateLegsFree
    <2>2. d \notin S
      BY <1>1, <1>2 DEF BookInv, RowsApart
    <2> QED
      BY <2>1, <2>2
  <1>10. SeenStands'
    <2> SUFFICES ASSUME NEW i \in DOMAIN todo'[r], NEW s \in todo'[r][i]
                 PROVE  /\ seen[r][s] = Free => refs'[s] = NoRef
                        /\ seen[r][s] \in Tx => refs'[s] = NoRef \/ refs'[s].tx = seen[r][s]
      BY <1>4, <1>5 DEF SeenStands
    <2>1. refs'[s] = refs[s]
      BY <1>1, <1>2, <1>6
    <2> QED
      BY <1>1, <2>1 DEF BookInv, SeenStands
  <1>11. PendingOwner'
    <2>1. \A q \in Run : candidate'[q] = NoPlan /\ plan'[q] = NoPlan
      BY <1>3 DEF NextRow, IInv, RunInv, RunTypes, PendingHasRow
    <2> QED
      BY <2>1 DEF PendingOwner
  <1>12. RowWhole'
    <2>1. ASSUME NEW s \in S, NEW d \in Slot, refs'[d] # NoRef, RowMates(s, d)
          PROVE  refs'[d].tx = t
      BY <1>2, <2>1 DEF BookInv, LateLegsFree
    <2>2. \A s, d : RowMates(s, d) => RowMates(d, s)
      BY DEF RowMates
    <2> QED
      BY <2>1, <2>2, <1>2 DEF BookInv, RowWhole, RowMates, Held
  <1> QED
    BY <1>7, <1>8, <1>9, <1>10, <1>11, <1>12 DEF BookInv

\* What a write leaves at a slot.
Booked(s) == refs[s] # NoRef /\ refs[s].live /\ refs[s].posting # NoPosting

\* A write of legs to a transaction that is there.
Books(r, S, t) ==
    /\ WritesRow(r, S, t)
    /\ \A s \in S : Booked(s)'
    /\ S # {} => \A d \in Held : refs[d].tx = t => refs[d].live

\* A row nothing is written for.
LEMMA SkipBooksNothing ==
    ASSUME IInv, NEW r \in Run, phase[r] = "writing", todo[r] # <<>>, NextRow(r), UNCHANGED ledger
    PROVE  \A t : Books(r, {}, t)
  BY DEF Books, WritesRow, SlotsFree, ledger

\* The row is new: no leg of it is anywhere.
LEMMA CreateBooks ==
    ASSUME IInv, NEW r \in Run, NEW t \in FreshTx, AtRow(r), NEW post \in NewIds(Legs(r)),
           CreateRow(r, t, post)
    PROVE  Books(r, Legs(r), t)
  <1>1. Legs(r) \subseteq Slot
    BY LegsAreSlots DEF IInv, AtRow
  <1>2. \A s \in Legs(r) : post[s] \in Posting
    BY DEF NewIds, FreshPosting
  <1>3. \A s \in Legs(r) : refs'[s] = [tx |-> t, live |-> TRUE, posting |-> post[s], batch |-> r,
                                       owns |-> TRUE]
    BY <1>1 DEF CreateRow, InsertTransaction
  <1>4. \A s \in Legs(r) : refs'[s] \in Ref /\ refs'[s].tx = t /\ Booked(s)'
    <2> SUFFICES ASSUME NEW s \in Legs(r)
                 PROVE  refs'[s] \in Ref /\ refs'[s].tx = t /\ Booked(s)'
      OBVIOUS
    <2>1. post[s] \in Posting \cup {NoPosting} /\ t \in Tx
      BY <1>2 DEF FreshTx
    <2>2. refs'[s] = [tx |-> t, live |-> TRUE, posting |-> post[s], batch |-> r, owns |-> TRUE]
      BY <1>3
    <2>3. /\ refs'[s] \in Ref /\ refs'[s].tx = t /\ refs'[s].posting = post[s]
          /\ refs'[s].live
      BY <2>1, <2>2 DEF Ref
    <2> QED
      BY <1>2, <2>3, NullAssumption, LedgerAssumption DEF Booked
  <1>5. /\ SlotsFree(Legs(r)) /\ NextRow(r)
        /\ \A s \in Slot \ Legs(r) : refs'[s] = refs[s]
    BY DEF CreateRow, InsertTransaction
  <1> QED
    BY <1>1, <1>4, <1>5 DEF Books, WritesRow, AtRow, FreshTx, SlotsFree

\* The row is extended: its other legs are where attach puts these.
LEMMA AttachBooks ==
    ASSUME IInv, BookInv, NEW r \in Run, Attaching(r), NEW post \in NewIds(plan[r].insert),
           AttachRow(r, post)
    PROVE  Books(r, plan[r].insert \cup Adopted(plan[r]), plan[r].owner)
  <1> DEFINE pl == plan[r]
             S == pl.insert
             A == Adopted(pl)
             poster == [s \in A |-> CHOOSE p \in DOMAIN pl.adopt : pl.adopt[p] = s]
  <1>1. pl \in Plan /\ todo[r] # <<>>
    BY DEF Attaching, IInv, RunInv, RunTypes, PendingHasRow
  <1>2. /\ pl.owner \in Tx /\ S \in SUBSET Slot
        /\ \A p \in DOMAIN pl.adopt : p \in Posting /\ pl.adopt[p] \in Slot
    BY <1>1 DEF Plan
  <1>3. A \in SUBSET Slot
    BY <1>2 DEF Adopted
  <1>4. \A s \in A : poster[s] \in DOMAIN pl.adopt
    BY DEF Adopted
  <1>5. \A s \in S : post[s] \in Posting
    BY DEF NewIds, FreshPosting
  <1>6. \A s \in S \cup A :
          refs'[s] = [tx |-> pl.owner, live |-> TRUE, batch |-> r,
                      posting |-> IF s \in S THEN post[s] ELSE poster[s], owns |-> s \in Owned(pl)]
    BY <1>2, <1>3 DEF AttachRow
  <1>7. \A s \in S \cup A : refs'[s] \in Ref /\ refs'[s].tx = pl.owner /\ Booked(s)'
    <2> SUFFICES ASSUME NEW s \in S \cup A
                 PROVE  refs'[s] \in Ref /\ refs'[s].tx = pl.owner /\ Booked(s)'
      OBVIOUS
    <2> DEFINE mine == IF s \in S THEN post[s] ELSE poster[s]
               own == s \in Owned(pl)
               to == pl.owner
    <2>1. own \in BOOLEAN /\ to \in Tx
      BY <1>2
    <2>4. mine \in Posting
      <3>1. CASE s \in S
        BY <3>1, <1>5
      <3>2. CASE s \notin S
        BY <3>2, <1>2, <1>4
      <3> QED
        BY <3>1, <3>2
    <2>2. refs'[s] = [tx |-> to, live |-> TRUE, posting |-> mine, batch |-> r, owns |-> own]
      BY <1>6
    <2> HIDE DEF mine, own, to
    <2>3. refs'[s] \in Ref /\ refs'[s].tx = to /\ refs'[s].live /\ refs'[s].posting = mine
      BY <2>1, <2>2, <2>4, RefRecord
    <2> QED
      BY <2>3, <2>4, NullAssumption, LedgerAssumption DEF Booked, to
  <1>8. /\ SlotsFree(S \cup A) /\ NextRow(r) /\ phase[r] = "writing"
        /\ \A s \in Slot \ (S \cup A) : refs'[s] = refs[s]
    BY DEF AttachRow, Attaching
  <1>9. SawOwner(r, pl.owner) /\ S \cup A \subseteq Legs(r)
    BY DEF BookInv, PendingOwner, Attaching
  <1>10. \A d \in Legs(r) : refs[d] # NoRef => refs[d].tx = pl.owner
    <2> SUFFICES ASSUME NEW d \in Legs(r), refs[d] # NoRef
                 PROVE  refs[d].tx = pl.owner
      OBVIOUS
    <2>1. d \in Slot /\ 1 \in DOMAIN todo[r] /\ d \in todo[r][1]
      BY <1>1, LegsAreSlots DEF IInv
    <2>2. seen[r][d] \in {Free, pl.owner}
      BY <1>9 DEF SawOwner, RowRejected, Owners
    <2> QED
      BY <1>2, <2>1, <2>2 DEF BookInv, SeenStands
  <1>11. S \cup A # {} => pl.owner \in txs
    <2>1. S # {} => pl.owner \in txs
      BY DEF AttachRow, OwnerGone, PostingsOf, IInv, LedgerInv, NoEmptyTransaction, Written
    <2>2. A # {} => pl.owner \in txs
      BY <1>2, <1>4 DEF AttachRow, AdoptionLost, IInv, LedgerInv, NoEmptyTransaction, Written
    <2> QED
      BY <2>1, <2>2
  <1>12. S \cup A # {} => \A d \in Held : refs[d].tx = pl.owner => refs[d].live
    BY <1>11 DEF IInv, LedgerInv, ReferencesPointHome
  <1> HIDE DEF pl, S, A, poster
  <1>13. Books(r, S \cup A, pl.owner)
    BY <1>1, <1>7, <1>8, <1>9, <1>10, <1>12 DEF Books, WritesRow
  <1> QED
    BY <1>13 DEF pl, S, A

\* A run's step books what it writes of a row, or writes nothing.
LEMMA RunStepBooks ==
    ASSUME BookInv, IInv, OneAtATime, StableRows, NEW r \in Run, RunStep(r)
    PROVE  \/ \E S, t : Books(r, S, t)
           \/ BookInv' /\ UNCHANGED refs
  <1>1. ASSUME NEW doc \in Documents, Begin(r, doc)
        PROVE  BookInv' /\ UNCHANGED refs
    BY <1>1, BeginKeepsBook DEF Begin, ledger
  <1>2. ASSUME NEW s \in Slot, ReadExisting(r, ValueOf[s][1])
        PROVE  BookInv' /\ UNCHANGED refs
    BY <1>2, ReadExistingKeepsBook DEF ReadExisting, ledger
  <1>3. ASSUME NEW t \in FreshTx, AtRow(r), NEW post \in NewIds(Legs(r)), CreateRow(r, t, post)
        PROVE  \E S, u : Books(r, S, u)
    BY <1>3, CreateBooks
  <1>4. CASE ReadOwner(r)
    BY <1>4, ReadOwnerKeepsBook DEF ReadOwner, ledger
  <1>5. CASE Corroborate(r)
    BY <1>5, CorroborateKeepsBook DEF Corroborate, ledger
  <1>6. CASE FailCorroboration(r)
    BY <1>6, SkipBooksNothing DEF FailCorroboration, IInv, RunInv, PendingHasRow
  <1>7. ASSUME Attaching(r), NEW post \in NewIds(plan[r].insert), AttachRow(r, post)
        PROVE  \E S, t : Books(r, S, t)
    BY <1>7, AttachBooks
  <1>8. CASE SkipRow(r)
    BY <1>8, SkipBooksNothing DEF SkipRow, AtRow
  <1>9. CASE SkipAttach(r)
    BY <1>9, SkipBooksNothing DEF SkipAttach, Attaching, IInv, RunInv, PendingHasRow
  <1>10. ASSUME NEW how \in Phase \ {"begun", "writing"}, EndRun(r, how)
         PROVE  BookInv' /\ UNCHANGED refs
    BY <1>10, EndRunKeepsBook DEF EndRun, ledger
  <1>11. CASE AbortRun(r) \/ CloseBatch(r) \/ CrashRun(r)
    BY <1>10, <1>11 DEF AbortRun, CloseBatch, CrashRun, Phase
  <1> QED
    BY <1>1, <1>2, <1>3, <1>4, <1>5, <1>6, <1>7, <1>8, <1>9, <1>11 DEF RunStep

\* Every step keeps what is known of the rows.
LEMMA StepKeepsBook ==
    ASSUME OneAtATime, StableRows, BookInv, IInv, [Next]_vars
    PROVE  BookInv'
  <1>1. reachable \subseteq Slot /\ RunInv
    BY DEF IInv, RunInv, RunTypes
  <1>2. ASSUME NEW r \in Run, RunStep(r) PROVE BookInv'
    BY <1>2, RunStepBooks, WriteKeepsBook DEF Books
  <1>3. ASSUME NEW r \in Run, Discard(r) PROVE BookInv'
    BY <1>1, <1>3, DiscardFades, FadingKeepsBook DEF Discard, IInv
  <1>4. CASE UserStep
    <2>1. UNCHANGED <<phase, todo, seen, candidate, plan>>
      BY <1>4, UserStepDrafts DEF runs
    <2> QED
      BY <1>1, <1>4, <2>1, UserFades, FadingKeepsBook DEF IInv
  <1>5. CASE UNCHANGED vars
    BY <1>1, <1>5, FadingKeepsBook DEF vars, runs, ledger, Fades
  <1> QED
    BY <1>2, <1>3, <1>4, <1>5 DEF Next

\* It holds at the start, of nothing.
LEMMA InitBook == Init => BookInv
  <1> SUFFICES ASSUME Init PROVE BookInv
    OBVIOUS
  <1>1. \A r \in Run : todo[r] = <<>> /\ DOMAIN todo[r] = {}
    BY DEF Init
  <1>2. InFlight = {} /\ Held = {}
    BY DEF Init, InFlight, Held
  <1>3. \A r \in Run : candidate[r] = NoPlan /\ plan[r] = NoPlan
    BY DEF Init
  <1> QED
    BY <1>1, <1>2, <1>3 DEF BookInv, Sequential, LegsReachable, RowsApart, LateLegsFree, SeenStands,
                           PendingOwner, RowWhole

\* What is known of the rows between the steps of runs that do not overlap.
THEOREM BookInvariant ==
    ASSUME OneAtATime, StableRows
    PROVE  Spec => []BookInv
  <1>1. IInv /\ BookInv /\ [Next]_vars => BookInv'
    BY StepKeepsBook
  <1> QED
    BY <1>1, InitBook, LedgerInvariant, PTL DEF Spec

\* write_row, attach: the legs of one row never end up on two transactions, whatever
\* the user, discards and crashes do between and during the runs that import it.
THEOREM RowsStayWhole ==
    ASSUME OneAtATime, StableRows
    PROVE  Spec => []RowWhole
  <1>1. BookInv => RowWhole
    BY DEF BookInv
  <1> QED
    BY <1>1, BookInvariant, PTL

-----------------------------------------------------------------------------
(* The refinement of StatementBook.                                        *)

DocumentRows == UNION {{doc[i] : i \in DOMAIN doc} : doc \in Documents}

\* What a status says of the slot.
LEMMA StatusSays ==
    ASSUME NEW s \in Slot, refs[s] # NoRef => refs[s].live \in BOOLEAN
    PROVE  /\ Status(s) = "absent" <=> refs[s] = NoRef
           /\ Status(s) = "rejected" <=> refs[s] # NoRef /\ ~refs[s].live
           /\ Status(s) = "booked" <=> Booked(s)
           /\ Status(s) = "dropped" <=>
                refs[s] # NoRef /\ refs[s].live /\ refs[s].posting = NoPosting
  BY DEF Status, Booked

\* The same after a step.
LEMMA StatusBecomes ==
    ASSUME NEW s \in Slot, refs'[s] # NoRef => refs'[s].live \in BOOLEAN
    PROVE  /\ Status(s)' = "absent" <=> refs'[s] = NoRef
           /\ Status(s)' = "rejected" <=> refs'[s] # NoRef /\ ~refs'[s].live
           /\ Status(s)' = "booked" <=> Booked(s)'
           /\ Status(s)' = "dropped" <=>
                refs'[s] # NoRef /\ refs'[s].live /\ refs'[s].posting = NoPosting
  BY DEF Status, Booked

\* A slot's status is its reference's.
LEMMA StatusStands ==
    ASSUME NEW s \in Slot, refs'[s] = refs[s]
    PROVE  Status(s)' = Status(s)
  BY DEF Status

\* The steps of the book, slot by slot.
LEMMA BooksStep ==
    ASSUME NEW row \in DocumentRows, row \subseteq Slot, NEW S \in SUBSET row, S # {},
           \A s \in S : Status(s) = "absent" /\ Status(s)' = "booked",
           \A s \in row : Status(s) # "rejected",
           \A s \in Slot \ S : Status(s)' = Status(s)
    PROVE  Book!Next
  BY DEF Book!Next, Book!Book, Book!Become, DocumentRows

\* Legs taken off their references are dropped.
LEMMA DropsStep ==
    ASSUME NEW S \in SUBSET Slot,
           \A s \in S : Status(s) = "booked" /\ Status(s)' = "dropped",
           \A s \in Slot \ S : Status(s)' = Status(s)
    PROVE  Book!Next
  BY DEF Book!Next, Book!Drop, Book!Become

\* References released for good are rejected.
LEMMA RejectsStep ==
    ASSUME NEW S \in SUBSET Slot,
           \A s \in S : Status(s) \in {"booked", "dropped"} /\ Status(s)' = "rejected",
           \A s \in Slot \ S : Status(s)' = Status(s)
    PROVE  Book!Next
  BY DEF Book!Next, Book!Reject, Book!Become

\* A discard frees some slots and drops others.
LEMMA ClearsStep ==
    ASSUME NEW S \in SUBSET Slot, NEW D \in SUBSET Slot,
           \A s \in S : Status(s)' = "absent",
           \A s \in D \ S : Status(s)' = "dropped",
           \A s \in D : Status(s) = "booked",
           \A s \in Slot \ (S \cup D) : Status(s)' = Status(s)
    PROVE  Book!Next
  BY DEF Book!Next, Book!Clear

\* Slots are freed and nothing else changes.
LEMMA FreesStep ==
    ASSUME NEW S \in SUBSET Slot,
           \A s \in S : Status(s)' = "absent",
           \A s \in Slot \ S : Status(s)' = Status(s)
    PROVE  Book!Next
  <1> DEFINE D == {}
  <1>1. /\ D \in SUBSET Slot /\ \A s \in D \ S : Status(s)' = "dropped"
        /\ \A s \in D : Status(s) = "booked"
    OBVIOUS
  <1>2. S \cup D = S
    OBVIOUS
  <1> HIDE DEF D
  <1> QED
    BY <1>1, <1>2, ClearsStep

\* A slot that is held is held by a reference.
LEMMA LiveIsBoolean ==
    ASSUME LedgerTypes, NEW s \in Slot, refs[s] # NoRef
    PROVE  refs[s] \in Ref /\ refs[s].live \in BOOLEAN
  BY DEF LedgerTypes, Ref

\* A write books the legs of one row of a document, none of them rejected.
LEMMA WriteRefines ==
    ASSUME IInv, BookInv, LedgerTypes', StableRows, NEW r \in Run, NEW S, NEW t, Books(r, S, t)
    PROVE  Book!Next \/ \A s \in Slot : Status(s)' = Status(s)
  <1> USE DEF Books, WritesRow
  <1>1. /\ \A i \in DOMAIN todo[r] : todo[r][i] \subseteq Slot
        /\ Legs(r) = todo[r][1] /\ 1 \in DOMAIN todo[r]
    BY LegsAreSlots DEF IInv
  <1>2. CASE S = {}
    BY <1>2, StatusStands
  <1>3. CASE S # {}
    <2>1. PICK a \in S : TRUE
      BY <1>3
    <2>2. PICK doc \in Documents : \E i \in DOMAIN doc : a \in doc[i]
      BY <1>1 DEF BookInv, RowsApart, RowMates
    <2>3. PICK i \in DOMAIN doc : a \in doc[i]
      BY <2>2
    <2>4. \A d : RowMates(a, d) <=> d \in doc[i]
      BY <2>3, RowMatesOf
    <2>5. doc[i] \in DocumentRows /\ doc[i] \subseteq Slot
      BY <2>3, LedgerAssumption DEF DocumentRows
    <2>6. S \subseteq doc[i]
      BY <1>1, <2>4 DEF BookInv, RowsApart
    <2>7. \A s \in S : Status(s) = "absent" /\ Status(s)' = "booked"
      BY <2>5, <2>6, StatusSays, StatusBecomes, LiveIsBoolean
         DEF SlotsFree, IInv, LedgerInv, LedgerTypes, Ref
    <2>8. ASSUME NEW d \in doc[i] PROVE Status(d) # "rejected"
      <3>1. refs[d] # NoRef => refs[d].live
        <4>1. CASE d \in Legs(r)
          BY <2>1, <2>5, <4>1 DEF Held
        <4>2. CASE d \notin Legs(r)
          BY <1>1, <2>1, <2>4, <2>5, <4>2 DEF BookInv, LateLegsFree
        <4> QED
          BY <4>1, <4>2
      <3> QED
        BY <3>1, <2>5, StatusSays
    <2>9. \A s \in Slot \ S : Status(s)' = Status(s)
      BY StatusStands
    <2> QED
      BY <1>3, <2>5, <2>6, <2>7, <2>8, <2>9, BooksStep
  <1> QED
    BY <1>2, <1>3

\* Where a posting goes, its reference stays as what the user dropped.
LEMMA UntiedIsDropped ==
    ASSUME LedgerInv, NEW G, NoPosting \notin G,
           NEW s \in Held, refs[s].posting \in G, refs'[s] = Untie(G, s)
    PROVE  Status(s) = "booked" /\ Status(s)' = "dropped"
  <1>1. s \in Slot /\ refs[s] \in Ref /\ Booked(s)
    BY DEF Held, LedgerInv, LedgerTypes, ReferencesPointHome, Booked
  <1>2. refs'[s] \in Ref /\ refs'[s].live /\ refs'[s].posting = NoPosting
    BY <1>1, UntiedRecord DEF LedgerInv, Booked
  <1> QED
    BY <1>1, <1>2, StatusSays, StatusBecomes, NullAssumption DEF Ref

\* And where none goes, nothing changes.
LEMMA UntiedStands ==
    ASSUME NEW G, NEW s \in Slot, s \in Held => refs[s].posting \notin G, refs'[s] = Untie(G, s)
    PROVE  Status(s)' = Status(s)
  BY StatusStands DEF Untie, Held

\* An edit that drops legs drops those of the references to them.
LEMMA DroppingRefines ==
    ASSUME IInv, NEW G, NoPosting \notin G, \A s \in Slot : refs'[s] = Untie(G, s)
    PROVE  Book!Next
  <1> DEFINE S == {s \in Held : refs[s].posting \in G}
  <1>1. S \in SUBSET Slot
    BY DEF Held
  <1>2. \A s \in S : Status(s) = "booked" /\ Status(s)' = "dropped"
    BY <1>1, UntiedIsDropped DEF IInv
  <1>3. \A s \in Slot \ S : Status(s)' = Status(s)
    BY UntiedStands
  <1> HIDE DEF S
  <1> QED
    BY <1>1, <1>2, <1>3, DropsStep

LEMMA EditRefines ==
    ASSUME IInv, NEW e \in Editor, EditStep(e)
    PROVE  Book!Next \/ UNCHANGED refs
  <1>1. ASSUME NEW legs, WriteEdit(e, legs) PROVE Book!Next
    <2> DEFINE G == PostingsOf(draft[e].tx) \ DOMAIN legs
    <2>1. NoPosting \notin G
      BY LedgerAssumption DEF PostingsOf
    <2>2. \A s \in Slot : refs'[s] = Untie(G, s)
      BY <1>1 DEF WriteEdit
    <2> HIDE DEF G
    <2> QED
      BY <2>1, <2>2, DroppingRefines
  <1> QED
    BY <1>1 DEF EditStep, ReadForEdit, AbandonEdit, ledger

\* delete_in_tx: the legs of a deleted transaction are rejected, or forgotten.
LEMMA DeleteRefines ==
    ASSUME IInv, NEW t \in txs, NEW keep \in BOOLEAN, DeleteTransaction(t, keep)
    PROVE  Book!Next
  <1> DEFINE S == RefsOn(t)
  <1>1. S \in SUBSET Slot /\ \A s \in S : s \in Held /\ refs[s] \in Ref /\ refs[s].live
    BY DEF RefsOn, Held, IInv, LedgerInv, LedgerTypes
  <1>2. \A s \in Slot \ S : Status(s)' = Status(s)
    BY StatusStands DEF DeleteTransaction
  <1>3. CASE keep
    <2>1. \A s \in S : refs'[s] \in Ref /\ ~refs'[s].live
      BY <1>1, <1>3, OrphanRecord DEF DeleteTransaction
    <2>2. \A s \in S : Status(s)' = "rejected"
      BY <1>1, <2>1, StatusBecomes, NullAssumption DEF Ref
    <2>3. \A s \in S : Status(s) \in {"booked", "dropped"}
      BY <1>1, StatusSays DEF Held, Ref, Booked
    <2> HIDE DEF S
    <2> QED
      BY <1>1, <1>2, <2>2, <2>3, RejectsStep
  <1>4. CASE ~keep
    <2>1. \A s \in S : refs'[s] = NoRef
      BY <1>1, <1>4 DEF DeleteTransaction
    <2>2. \A s \in S : Status(s)' = "absent"
      BY <1>1, <2>1, StatusBecomes
    <2> HIDE DEF S
    <2> QED
      BY <1>1, <1>2, <2>2, FreesStep
  <1> QED
    BY <1>3, <1>4

\* release, detach: what is freed is absent.
LEMMA FreeRefines ==
    ASSUME NEW S \in SUBSET Slot, FreeSlots(S)
    PROVE  Book!Next
  <1>1. \A s \in S : Status(s)' = "absent"
    BY StatusBecomes DEF FreeSlots
  <1>2. \A s \in Slot \ S : Status(s)' = Status(s)
    BY StatusStands DEF FreeSlots
  <1> QED
    BY <1>1, <1>2, FreesStep

\* discard_batch: the batch's references are gone, and legs of its postings that
\* others have adopted are dropped.
LEMMA DiscardRefines ==
    ASSUME IInv, NEW r \in Run, Discard(r)
    PROVE  Book!Next
  <1> DEFINE gone == {refs[s].posting : s \in OwnedLegs(r)}
             swept == Emptied(r, gone)
             S == {s \in Slot : s \in WrittenBy(r) \/ \E t \in swept : s \in RefsOn(t)}
             D == {s \in Held \ S : refs[s].posting \in gone}
  <1>1. S \in SUBSET Slot /\ D \in SUBSET Slot /\ NoPosting \notin gone
    BY DEF Held, OwnedLegs
  <1>2. /\ \A s \in S : refs'[s] = NoRef
        /\ \A s \in Slot \ S : refs'[s] = Untie(gone, s)
    BY DEF Discard
  <1> HIDE DEF gone, S
  <1>3. \A s \in S : Status(s)' = "absent"
    BY <1>1, <1>2, StatusBecomes
  <1>4. \A s \in D : Status(s) = "booked" /\ Status(s)' = "dropped"
    BY <1>1, <1>2, UntiedIsDropped DEF IInv
  <1>5. \A s \in Slot \ (S \cup D) : Status(s)' = Status(s)
    BY <1>2, UntiedStands
  <1> HIDE DEF D
  <1> QED
    BY <1>1, <1>3, <1>4, <1>5, ClearsStep

\* Every step is one of the book's, or does not show in it.
LEMMA StepRefines ==
    ASSUME OneAtATime, StableRows, BookInv, IInv, [Next]_vars
    PROVE  Book!Next \/ \A s \in Slot : Status(s)' = Status(s)
  <1>1. LedgerTypes'
    BY StepKeepsIInv DEF IInv, LedgerInv
  <1>2. ASSUME UNCHANGED refs
        PROVE  \A s \in Slot : Status(s)' = Status(s)
    BY <1>2, StatusStands
  <1>3. ASSUME NEW r \in Run, RunStep(r)
        PROVE  Book!Next \/ \A s \in Slot : Status(s)' = Status(s)
    BY <1>1, <1>2, <1>3, RunStepBooks, WriteRefines
  <1>4. ASSUME NEW r \in Run, Discard(r)
        PROVE  Book!Next
    BY <1>4, DiscardRefines
  <1>5. ASSUME UserStep
        PROVE  Book!Next \/ UNCHANGED refs
    <2>1. ASSUME NEW s \in Slot, ReleaseLeg(s) \/ Detach(s)
          PROVE  Book!Next
      BY <2>1, FreeRefines DEF ReleaseLeg, Detach
    <2>2. ASSUME NEW t \in Tx, ReleaseTransaction(t)
          PROVE  Book!Next
      BY <2>2, FreeRefines DEF ReleaseTransaction, Held
    <2>3. ASSUME NEW p \in Posting, NEW v \in Value, Revalue(p, v)
          PROVE  UNCHANGED refs
      BY <2>3 DEF Revalue
    <2>4. ASSUME NEW t \in txs, NEW p \in FreshPosting, NEW v \in Value, AddLeg(t, p, v)
          PROVE  UNCHANGED refs
      BY <2>4 DEF AddLeg
    <2>5. OpenAccounts => UNCHANGED refs
      BY DEF OpenAccounts, ledger
    <2>6. ASSUME NEW p \in Posting, DropLeg(p)
          PROVE  Book!Next
      <3>1. NoPosting \notin {p} /\ \A s \in Slot : refs'[s] = Untie({p}, s)
        BY <2>6, LedgerAssumption DEF DropLeg
      <3> QED
        BY <3>1, DroppingRefines
    <2> QED
      BY <1>5, <2>1, <2>2, <2>3, <2>4, <2>5, <2>6, EditRefines, DeleteRefines DEF UserStep
  <1>6. CASE UNCHANGED vars
    BY <1>2, <1>6 DEF vars, ledger
  <1> QED
    BY <1>2, <1>3, <1>4, <1>5, <1>6 DEF Next

\* Runs that do not overlap implement StatementBook: a leg is booked from a row none
\* of whose legs was rejected, and only while its slot is absent, though what a run
\* decides from is a reading that the user and discards have since made stale.
THEOREM ImplementsTheBook ==
    ASSUME OneAtATime, StableRows
    PROVE  Spec => ImplementsBook
  <1>1. Init => Book!Init
    BY DEF Init, Book!Init, Status
  <1>2. IInv /\ BookInv /\ [Next]_vars => [Book!Next]_[s \in Slot |-> Status(s)]
    BY StepRefines
  <1> QED
    BY <1>1, <1>2, BookInvariant, LedgerInvariant, PTL DEF Spec, ImplementsBook, Book!Spec
=============================================================================
