------------------------- MODULE ImportLedgerProofs -------------------------
(***************************************************************************)
(* Proofs about ImportLedger, for any documents, slots and values, any     *)
(* number of runs and any number of them in flight together.               *)
(*                                                                         *)
(* LedgerInv is what the ledger promises, of transactions, postings and    *)
(* references only: a run's stale reading of them may not break it.  What  *)
(* does have to hold of a reading is ReadingInv, that a posting about to   *)
(* be adopted is nobody's but the user's.                                  *)
(***************************************************************************)
EXTENDS ImportLedger, TLAPS

LedgerTypes ==
    /\ txs \subseteq Tx
    /\ postings \in [Posting -> PostingRow \cup {NoPosting}]
    /\ refs \in [Slot -> Ref \cup {NoRef}]

RunTypes ==
    /\ reachable \subseteq Slot
    /\ phase \in [Run -> Phase]
    /\ discarded \subseteq Run
    /\ todo \in [Run -> Seq(SUBSET Slot)]
    /\ seen \in [Run -> [Slot -> Tx \cup {Free, Rejected, Unread}]]
    /\ candidate \in [Run -> Candidate \cup {NoPlan}]
    /\ plan \in [Run -> Plan \cup {NoPlan}]
    /\ draft \in [Editor -> Draft \cup {NoDraft}]

\* What a run has read or decided is for the row it is at.
PendingHasRow ==
    \A r \in Run : candidate[r] # NoPlan \/ plan[r] # NoPlan =>
        phase[r] = "writing" /\ todo[r] # <<>>

RunInv == RunTypes /\ PendingHasRow

\* An edit's reading names its transaction's postings, as any other reading of
\* them does, so what the edit puts back comes back there.
DraftInv ==
    \A e \in Editor : draft[e] # NoDraft =>
        \A p \in DOMAIN draft[e].legs :
            /\ Written(p) => postings[p].tx = draft[e].tx
            /\ \A f \in Editor : draft[f] # NoDraft /\ p \in DOMAIN draft[f].legs =>
                  draft[f].tx = draft[e].tx
            /\ \A r \in Run : candidate[r] # NoPlan /\ p \in DOMAIN candidate[r].shown =>
                  candidate[r].owner = draft[e].tx

\* The reference an imported posting came with is one that owns it.
OwnedByOrigin ==
    \A p \in Posting : Written(p) /\ postings[p].from \in Slot =>
        postings[p].from \in Held /\ refs[postings[p].from].owns

\* A reference owns the posting inserted for its leg, and what it has adopted is
\* the user's: no discard deletes that.
OwnsOrigin ==
    \A s \in Held : refs[s].posting # NoPosting =>
        /\ refs[s].owns => postings[refs[s].posting].from = s
        /\ ~refs[s].owns => postings[refs[s].posting].from \notin Slot

LedgerInv ==
    /\ LedgerTypes
    /\ ImportedKeepProvenance
    /\ OwnedByOrigin
    /\ OwnsOrigin
    /\ ReferencesPointHome
    /\ NoEmptyTransaction

\* No id a run has read is given anew: what it was shown is still the owner's, if
\* it is still there, and what it is about to adopt is the user's.
ReadingInv ==
    \A r \in Run :
        /\ candidate[r] # NoPlan =>
             \A p \in DOMAIN candidate[r].shown : Written(p) => postings[p].tx = candidate[r].owner
        /\ plan[r] # NoPlan =>
             \A p \in DOMAIN plan[r].adopt : Written(p) => postings[p].from \notin Slot

IInv == RunInv /\ LedgerInv /\ ReadingInv /\ DraftInv

LEMMA TypesSplit == TypeOK <=> LedgerTypes /\ RunTypes
  BY DEF TypeOK, LedgerTypes, RunTypes

-----------------------------------------------------------------------------
(* What a run keeps.                                                       *)

LEMMA HolderType ==
    ASSUME LedgerTypes, NEW s \in Slot
    PROVE  Holder(s) \in Tx \cup {Free, Rejected, Unread}
  BY DEF LedgerTypes, Ref, Holder

LEMMA BeginKeepsRuns ==
    ASSUME RunInv, NEW r \in Run, NEW doc \in Documents, Begin(r, doc)
    PROVE  RunInv'
  <1> DEFINE legs == [i \in DOMAIN doc |-> doc[i] \cap reachable]
  <1>1. doc \in Seq(SUBSET Slot)
    BY LedgerAssumption
  <1>2. legs \in Seq(SUBSET Slot)
    <2>1. legs \in [1 .. Len(doc) -> SUBSET Slot] /\ Len(doc) \in Nat
      BY <1>1
    <2> QED
      BY <2>1
  <1>3. todo' \in [Run -> Seq(SUBSET Slot)]
    BY <1>2 DEF Begin, RunInv, RunTypes
  <1>4. phase' \in [Run -> Phase]
    BY DEF Begin, RunInv, RunTypes, Phase
  <1>5. seen' \in [Run -> [Slot -> Tx \cup {Free, Rejected, Unread}]]
    BY DEF Begin, RunInv, RunTypes
  <1>6. PendingHasRow'
    BY DEF Begin, RunInv, RunTypes, PendingHasRow
  <1> QED
    BY <1>3, <1>4, <1>5, <1>6 DEF Begin, RunInv, RunTypes

LEMMA ReadExistingKeepsRuns ==
    ASSUME RunInv, LedgerTypes, NEW r \in Run, NEW a, ReadExisting(r, a)
    PROVE  RunInv'
  <1>1. phase' \in [Run -> Phase]
    BY DEF ReadExisting, RunInv, RunTypes, Phase
  <1>2. seen' \in [Run -> [Slot -> Tx \cup {Free, Rejected, Unread}]]
    BY HolderType DEF ReadExisting, RunInv, RunTypes
  <1>3. PendingHasRow'
    BY DEF ReadExisting, RunInv, RunTypes, PendingHasRow
  <1> QED
    BY <1>1, <1>2, <1>3 DEF ReadExisting, RunInv, RunTypes

LEMMA NextRowKeepsRuns ==
    ASSUME RunInv, NEW r \in Run, todo[r] # <<>>, NextRow(r)
    PROVE  RunInv'
  <1>1. todo' \in [Run -> Seq(SUBSET Slot)]
    BY DEF NextRow, RunInv, RunTypes
  <1>2. PendingHasRow'
    BY DEF NextRow, RunInv, RunTypes, PendingHasRow
  <1> QED
    BY <1>1, <1>2 DEF NextRow, RunInv, RunTypes

LEMMA EndRunKeepsRuns ==
    ASSUME RunInv, NEW r \in Run, NEW how \in Phase, EndRun(r, how)
    PROVE  RunInv'
  <1>1. todo' \in [Run -> Seq(SUBSET Slot)]
    BY DEF EndRun, RunInv, RunTypes
  <1>2. PendingHasRow'
    BY DEF EndRun, RunInv, RunTypes, PendingHasRow
  <1> QED
    BY <1>1, <1>2 DEF EndRun, RunInv, RunTypes

LEMMA ReadOwnerKeepsRuns ==
    ASSUME RunInv, LedgerTypes, NEW r \in Run, ReadOwner(r)
    PROVE  RunInv'
  <1>1. PICK t \in txs : candidate' = [candidate EXCEPT ![r] =
                           [owner |-> t, shown |-> [p \in PostingsOf(t) |-> postings[p].value]]]
    BY DEF ReadOwner
  <1> DEFINE shown == [p \in PostingsOf(t) |-> postings[p].value]
  <1>2. PostingsOf(t) \in SUBSET Posting
    BY DEF PostingsOf
  <1>3. shown \in [PostingsOf(t) -> Value]
    BY DEF PostingsOf, LedgerTypes, PostingRow
  <1>4. [owner |-> t, shown |-> shown] \in Candidate
    BY <1>2, <1>3 DEF Candidate, LedgerTypes
  <1>5. RunTypes'
    BY <1>1, <1>4 DEF ReadOwner, RunInv, RunTypes
  <1>6. PendingHasRow'
    BY <1>1 DEF ReadOwner, AtRow, RunInv, RunTypes, PendingHasRow
  <1> QED
    BY <1>5, <1>6 DEF RunInv

LEMMA CorroborateKeepsRuns ==
    ASSUME RunInv, NEW r \in Run, Corroborate(r)
    PROVE  RunInv'
  <1> DEFINE c == candidate[r]
             mine == {q \in DOMAIN c.shown : Provenance(c.owner, q) = {}}
             next == [leg \in Explanations(r, c) |->
                        [owner |-> c.owner, adopt |-> [p \in mine |-> leg[p]],
                         insert |-> Unstored(r) \ {leg[p] : p \in DOMAIN c.shown}]]
  <1>1. PICK leg \in Explanations(r, c) : plan' = [plan EXCEPT ![r] = next[leg]]
    BY DEF Corroborate
  <1>2. c \in Candidate
    BY DEF Corroborate, RunInv, RunTypes
  <1>3. c.owner \in Tx /\ DOMAIN c.shown \in SUBSET Posting
    BY <1>2 DEF Candidate
  <1>4. todo[r] \in Seq(SUBSET Slot) /\ todo[r] # <<>>
    BY DEF Corroborate, RunInv, RunTypes, PendingHasRow
  <1>5. Legs(r) \subseteq Slot
    BY <1>4 DEF Legs
  <1>6. Unstored(r) \subseteq Slot
    BY <1>5 DEF Unstored
  <1>7. leg \in [DOMAIN c.shown -> Slot]
    BY <1>5 DEF Explanations
  <1>8. [p \in mine |-> leg[p]] \in [mine -> Slot] /\ mine \in SUBSET Posting
    BY <1>3, <1>7
  <1>9. next[leg] \in Plan
    BY <1>3, <1>6, <1>8 DEF Plan
  <1>10. RunTypes'
    BY <1>1, <1>9 DEF Corroborate, RunInv, RunTypes
  <1>11. PendingHasRow'
    BY <1>1, <1>4 DEF Corroborate, RunInv, RunTypes, PendingHasRow
  <1> QED
    BY <1>10, <1>11 DEF RunInv

-----------------------------------------------------------------------------
LEMMA SameLedger ==
    ASSUME LedgerInv, UNCHANGED ledger
    PROVE  LedgerInv'
  BY DEF LedgerInv, ledger, LedgerTypes, ImportedKeepProvenance, OwnedByOrigin, OwnsOrigin,
         ReferencesPointHome, NoEmptyTransaction, Written, Held, PostingsOf

(* What the runs write.                                                    *)

\* A write of run r to transaction t: a posting for each leg of S, and a
\* reference at each slot of S and, on postings already there, of A.
WritesTo(r, t, S, post, A, poster) ==
    /\ SlotsFree(S \cup A)
    /\ InsertPostings(S, post, t)
    /\ refs' \in [Slot -> Ref \cup {NoRef}]
    /\ \A s \in Slot \ (S \cup A) : refs'[s] = refs[s]
    /\ \A s \in S \cup A : /\ refs'[s] \in Ref
                           /\ refs'[s].tx = t /\ refs'[s].live
                           /\ refs'[s].posting = IF s \in S THEN post[s] ELSE poster[s]
    /\ \A s \in S : refs'[s].owns
    /\ \A s \in A \ S : ~refs'[s].owns

\* A new posting carries the leg it was inserted for.
LEMMA InsertedPostings ==
    ASSUME LedgerTypes, NEW S \in SUBSET Slot, NEW post \in NewIds(S), NEW t \in Tx,
           InsertPostings(S, post, t)
    PROVE  /\ postings' \in [Posting -> PostingRow \cup {NoPosting}]
           /\ \A s \in S : /\ post[s] \in Posting /\ postings[post[s]] = NoPosting
                           /\ postings'[post[s]] \in PostingRow
                           /\ postings'[post[s]].tx = t /\ postings'[post[s]].from = s
           /\ \A p \in Posting : (\A s \in S : post[s] # p) => postings'[p] = postings[p]
  <1> DEFINE row(s) == [tx |-> t, value |-> ValueOf[s], from |-> s]
  <1>1. \A s \in S : post[s] \in Posting /\ postings[post[s]] = NoPosting
    BY DEF NewIds, FreshPosting
  <1>2. \A s \in S : LegOf(S, post, post[s]) = s
    BY DEF NewIds, LegOf
  <1>3. \A s \in S : row(s) \in PostingRow
    BY LedgerAssumption DEF PostingRow
  <1>4. \A s \in S : postings'[post[s]] = row(s)
    <2> SUFFICES ASSUME NEW s \in S PROVE postings'[post[s]] = row(s)
      OBVIOUS
    <2>1. \E u \in S : post[u] = post[s]
      OBVIOUS
    <2>2. postings'[post[s]] =
            [tx |-> t, value |-> ValueOf[LegOf(S, post, post[s])], from |-> LegOf(S, post, post[s])]
      BY <1>1, <2>1 DEF InsertPostings
    <2> QED
      BY <1>2, <2>2
  <1>5. \A s \in S : postings'[post[s]].tx = t /\ postings'[post[s]].from = s
    <2> SUFFICES ASSUME NEW s \in S PROVE row(s).tx = t /\ row(s).from = s
      BY <1>4
    <2> QED
      OBVIOUS
  <1>6. \A p \in Posting : (\A s \in S : post[s] # p) => postings'[p] = postings[p]
    BY DEF InsertPostings
  <1>7. \A s \in S : postings'[post[s]] \in PostingRow
    BY <1>3, <1>4
  <1>8. \A p \in Posting : postings'[p] \in PostingRow \cup {NoPosting}
    BY <1>6, <1>7 DEF LedgerTypes
  <1>9. postings' \in [Posting -> PostingRow \cup {NoPosting}]
    <2>1. postings' = [p \in Posting |-> postings'[p]]
      BY DEF InsertPostings
    <2> QED
      BY <1>8, <2>1
  <1> QED
    BY <1>1, <1>5, <1>6, <1>7, <1>9

\* A write keeps the ledger's promises: what it finds at a slot it does not
\* touch stands, and what it adds carries its provenance.
LEMMA WriteKeepsLedger ==
    ASSUME LedgerInv, NEW r \in Run, NEW t \in Tx,
           NEW S \in SUBSET Slot, NEW post \in NewIds(S),
           NEW A \in SUBSET Slot, NEW poster,
           WritesTo(r, t, S, post, A, poster),
           \A s \in A : /\ poster[s] \in Posting /\ Written(poster[s])
                        /\ postings[poster[s]].tx = t /\ postings[poster[s]].from \notin Slot,
           txs' = txs \cup {t},
           t \in txs \/ (S # {} /\ \A s \in Held : refs[s].tx # t)
    PROVE  LedgerInv'
  <1> USE NullAssumption, LedgerAssumption
  <1>1. /\ postings' \in [Posting -> PostingRow \cup {NoPosting}]
        /\ \A s \in S : /\ post[s] \in Posting /\ postings[post[s]] = NoPosting
                        /\ postings'[post[s]] \in PostingRow
                        /\ postings'[post[s]].tx = t /\ postings'[post[s]].from = s
        /\ \A p \in Posting : (\A s \in S : post[s] # p) => postings'[p] = postings[p]
    BY InsertedPostings DEF LedgerInv, WritesTo
  <1>2. LedgerTypes'
    BY <1>1 DEF WritesTo, LedgerInv, LedgerTypes
  <1>3. \A p \in Posting : Written(p) => postings'[p] = postings[p] /\ Written(p)'
    BY <1>1 DEF Written
  <1>4. \A p \in Posting : Written(p)' => Written(p) \/ \E s \in S : post[s] = p
    BY <1>1 DEF Written
  <1>5. \A s \in S \cup A : s \notin Held /\ s \in Held'
    BY DEF WritesTo, SlotsFree, Held
  <1>6. \A s \in Held : s \in Held' /\ refs'[s] = refs[s]
    BY <1>5 DEF WritesTo, Held
  <1>7. \A s \in Held' : s \in Held \/ s \in S \cup A
    BY DEF WritesTo, Held
  <1>8. ImportedKeepProvenance' /\ OwnedByOrigin'
    <2> SUFFICES ASSUME NEW p \in Posting, Written(p)', postings'[p].from \in Slot
                 PROVE  /\ postings'[p].from \in Held'
                        /\ refs'[postings'[p].from].posting = p
                        /\ refs'[postings'[p].from].owns
      BY DEF ImportedKeepProvenance, OwnedByOrigin
    <2>1. CASE Written(p)
      BY <2>1, <1>3, <1>6 DEF LedgerInv, ImportedKeepProvenance, OwnedByOrigin
    <2>2. CASE \E s \in S : post[s] = p
      BY <2>2, <1>1, <1>5 DEF WritesTo
    <2> QED
      BY <1>4, <2>1, <2>2
  <1>9. \A s \in Held : refs[s] \in Ref /\ refs[s].posting \in Posting \cup {NoPosting}
    BY DEF LedgerInv, LedgerTypes, Held, Ref
  <1>11. OwnsOrigin'
    <2> SUFFICES ASSUME NEW s \in Held', refs'[s].posting # NoPosting
                 PROVE  /\ refs'[s].owns => postings'[refs'[s].posting].from = s
                        /\ ~refs'[s].owns => postings'[refs'[s].posting].from \notin Slot
      BY DEF OwnsOrigin
    <2>1. CASE s \in Held
      <3>1. refs[s].posting \in Posting /\ Written(refs[s].posting)
        BY <2>1, <1>6, <1>9 DEF LedgerInv, ReferencesPointHome
      <3>2. /\ refs[s].owns => postings[refs[s].posting].from = s
            /\ ~refs[s].owns => postings[refs[s].posting].from \notin Slot
        BY <2>1, <1>6 DEF LedgerInv, OwnsOrigin
      <3> QED
        BY <2>1, <3>1, <3>2, <1>3, <1>6
    <2>2. CASE s \in S
      BY <2>2, <1>1 DEF WritesTo
    <2>3. CASE s \in A \ S
      <3>1. ~refs'[s].owns /\ refs'[s].posting = poster[s]
        BY <2>3 DEF WritesTo
      <3>2. postings'[poster[s]] = postings[poster[s]] /\ postings[poster[s]].from \notin Slot
        BY <2>3, <1>3
      <3> QED
        BY <3>1, <3>2
    <2> QED
      BY <1>7, <2>1, <2>2, <2>3
  <1>12. ReferencesPointHome'
    <2>1. ASSUME NEW s \in Held' PROVE refs'[s].live <=> refs'[s].tx \in txs'
      <3>1. CASE s \in Held
        <4>1. refs[s].live <=> refs[s].tx \in txs
          BY <3>1 DEF LedgerInv, ReferencesPointHome
        <4>2. refs[s].tx \in txs <=> refs[s].tx \in txs'
          BY <3>1
        <4> QED
          BY <3>1, <4>1, <4>2, <1>6
      <3>2. CASE s \in S \cup A
        BY <3>2 DEF WritesTo
      <3> QED
        BY <2>1, <1>7, <3>1, <3>2
    <2>2. ASSUME NEW s \in Held', refs'[s].posting # NoPosting
          PROVE  /\ refs'[s].live
                 /\ postings'[refs'[s].posting] # NoPosting
                 /\ postings'[refs'[s].posting].tx = refs'[s].tx
      <3>1. CASE s \in Held
        <4>1. refs[s].posting \in Posting /\ Written(refs[s].posting) /\ refs[s].live
              /\ postings[refs[s].posting].tx = refs[s].tx
          BY <2>2, <3>1, <1>6, <1>9 DEF LedgerInv, ReferencesPointHome
        <4>2. postings'[refs[s].posting] = postings[refs[s].posting]
          BY <4>1, <1>3
        <4> QED
          BY <4>1, <4>2, <3>1, <1>6 DEF Written
      <3>2. CASE s \in S
        BY <3>2, <1>1 DEF WritesTo
      <3>3. CASE s \in A \ S
        <4>1. /\ refs'[s].posting = poster[s] /\ refs'[s].tx = t /\ refs'[s].live
              /\ poster[s] \in Posting /\ Written(poster[s]) /\ postings[poster[s]].tx = t
          BY <3>3 DEF WritesTo
        <4>2. postings'[poster[s]] = postings[poster[s]] /\ postings[poster[s]] # NoPosting
          BY <4>1, <1>3 DEF Written
        <4> QED
          BY <4>1, <4>2
      <3> QED
        BY <2>2, <1>7, <3>1, <3>2, <3>3
    <2> QED
      BY <2>1, <2>2 DEF ReferencesPointHome, Written
  <1>10. NoEmptyTransaction'
    <2>1. ASSUME NEW u \in txs' PROVE PostingsOf(u)' # {}
      <3>1. CASE u \in txs
        <4>1. PICK p \in Posting : Written(p) /\ postings[p].tx = u
          BY <3>1 DEF LedgerInv, NoEmptyTransaction, PostingsOf, Written
        <4> QED
          BY <4>1, <1>3 DEF PostingsOf, Written
      <3>2. CASE u \notin txs
        <4>1. PICK s \in S : TRUE
          BY <2>1, <3>2
        <4> QED
          BY <2>1, <3>2, <4>1, <1>1 DEF PostingsOf
      <3> QED
        BY <3>1, <3>2
    <2>2. ASSUME NEW p \in Posting, Written(p)' PROVE postings'[p].tx \in txs'
      BY <2>2, <1>1, <1>3, <1>4 DEF LedgerInv, NoEmptyTransaction
    <2> QED
      BY <2>1, <2>2 DEF NoEmptyTransaction
  <1> QED
    BY <1>2, <1>8, <1>10, <1>11, <1>12 DEF LedgerInv

\* The row of a reference a run writes has the type of one.
LEMMA RefRecord ==
    ASSUME NEW t \in Tx, NEW p \in Posting \cup {NoPosting}, NEW r \in Run,
           NEW o \in BOOLEAN, NEW ref,
           ref = [tx |-> t, live |-> TRUE, posting |-> p, batch |-> r, owns |-> o]
    PROVE  /\ ref \in Ref
           /\ ref.tx = t /\ ref.posting = p /\ ref.live
           /\ ref.owns <=> o
  BY DEF Ref

LEMMA CreateRowKeepsLedger ==
    ASSUME LedgerInv, RunInv, NEW r \in Run, NEW t \in FreshTx, AtRow(r),
           NEW post \in NewIds(Legs(r)), CreateRow(r, t, post)
    PROVE  LedgerInv'
  <1> DEFINE L == Legs(r)
  <1>1. L \in SUBSET Slot
    BY DEF AtRow, Legs, RunInv, RunTypes
  <1>2. t \in Tx /\ L # {} /\ \A s \in Held : refs[s].tx # t
    BY DEF FreshTx, CreateRow
  <1>3. WritesTo(r, t, L, post, {}, post)
    <2>1. \A s \in L : post[s] \in Posting
      BY DEF NewIds, FreshPosting
    <2>2. \A s \in Slot \ L : refs'[s] = refs[s]
      BY DEF CreateRow, InsertTransaction
    <2>3. \A s \in L : refs'[s] = [tx |-> t, live |-> TRUE, posting |-> post[s],
                                   batch |-> r, owns |-> TRUE]
      BY <1>1 DEF CreateRow, InsertTransaction
    <2>4. \A s \in L : /\ refs'[s] \in Ref /\ refs'[s].tx = t /\ refs'[s].posting = post[s]
                       /\ refs'[s].live /\ refs'[s].owns
      <3> SUFFICES ASSUME NEW s \in L
                   PROVE  /\ refs'[s] \in Ref /\ refs'[s].tx = t /\ refs'[s].posting = post[s]
                          /\ refs'[s].live /\ refs'[s].owns
        OBVIOUS
      <3>1. post[s] \in Posting \cup {NoPosting}
        BY <2>1
      <3>2. refs'[s] = [tx |-> t, live |-> TRUE, posting |-> post[s], batch |-> r, owns |-> TRUE]
        BY <2>3
      <3>3. /\ refs'[s] \in Ref /\ refs'[s].tx = t /\ refs'[s].posting = post[s]
            /\ refs'[s].live
        BY <1>2, <3>1, <3>2 DEF Ref
      <3>4. refs'[s].owns
        BY <3>2
      <3> QED
        BY <3>3, <3>4
    <2>5. refs' \in [Slot -> Ref \cup {NoRef}]
      <3>1. \A s \in Slot : refs'[s] \in Ref \cup {NoRef}
        BY <2>2, <2>4 DEF LedgerInv, LedgerTypes
      <3>2. refs' = [s \in Slot |-> refs'[s]]
        BY DEF CreateRow, InsertTransaction
      <3> QED
        BY <3>1, <3>2
    <2>6. SlotsFree(L) /\ InsertPostings(L, post, t)
      BY DEF CreateRow, InsertTransaction
    <2>7. SlotsFree(L \cup {})
      BY <2>6 DEF SlotsFree
    <2> QED
      BY <2>2, <2>4, <2>5, <2>6, <2>7 DEF WritesTo
  <1>4. txs' = txs \cup {t}
    BY DEF CreateRow, InsertTransaction
  <1> HIDE DEF L
  <1> QED
    BY <1>1, <1>2, <1>3, <1>4, WriteKeepsLedger DEF L

LEMMA AttachRowKeepsLedger ==
    ASSUME IInv, NEW r \in Run, Attaching(r),
           NEW post \in NewIds(plan[r].insert), AttachRow(r, post)
    PROVE  LedgerInv'
  <1> DEFINE pl == plan[r]
             S == pl.insert
             A == Adopted(pl)
             poster == [s \in A |-> CHOOSE p \in DOMAIN pl.adopt : pl.adopt[p] = s]
  <1>1. pl \in Plan /\ LedgerInv
    BY DEF Attaching, RunInv, RunTypes, IInv
  <1>2. /\ pl.owner \in Tx /\ S \in SUBSET Slot
        /\ \A p \in DOMAIN pl.adopt : p \in Posting /\ pl.adopt[p] \in Slot
    BY <1>1 DEF Plan
  <1>3. A \in SUBSET Slot
    BY <1>2 DEF Adopted
  <1>4. \A s \in A : poster[s] \in DOMAIN pl.adopt
    BY DEF Adopted
  <1>5. \A s \in A : /\ poster[s] \in Posting /\ Written(poster[s])
                     /\ postings[poster[s]].tx = pl.owner /\ postings[poster[s]].from \notin Slot
    <2>1. \A p \in DOMAIN pl.adopt : Written(p) => postings[p].from \notin Slot
      BY DEF IInv, ReadingInv, Attaching
    <2> QED
      BY <1>2, <1>4, <2>1 DEF AttachRow, AdoptionLost, Written
  <1>6. WritesTo(r, pl.owner, S, post, A, poster)
    <2>1. \A s \in S : post[s] \in Posting
      BY DEF NewIds, FreshPosting
    <2>2. \A s \in Slot \ (S \cup A) : refs'[s] = refs[s]
      BY DEF AttachRow
    <2>3. \A s \in S \cup A :
            refs'[s] = [tx |-> pl.owner, live |-> TRUE, batch |-> r,
                        posting |-> IF s \in S THEN post[s] ELSE poster[s], owns |-> s \in S]
      BY <1>2, <1>3 DEF AttachRow, Owned
    <2>4. \A s \in S \cup A :
            /\ refs'[s] \in Ref /\ refs'[s].tx = pl.owner /\ refs'[s].live
            /\ refs'[s].posting = IF s \in S THEN post[s] ELSE poster[s]
            /\ refs'[s].owns <=> s \in S
      <3> SUFFICES ASSUME NEW s \in S \cup A
                   PROVE  /\ refs'[s] \in Ref /\ refs'[s].tx = pl.owner /\ refs'[s].live
                          /\ refs'[s].posting = IF s \in S THEN post[s] ELSE poster[s]
                          /\ refs'[s].owns <=> s \in S
        OBVIOUS
      <3> DEFINE mine == IF s \in S THEN post[s] ELSE poster[s]
      <3>1. mine \in Posting \cup {NoPosting}
        BY <1>5, <2>1
      <3>2. refs'[s] = [tx |-> pl.owner, live |-> TRUE, posting |-> mine, batch |-> r,
                        owns |-> s \in S]
        BY <2>3
      <3> DEFINE own == s \in S
                 to == pl.owner
      <3>3. own \in BOOLEAN /\ to \in Tx
        BY <1>2
      <3>5. refs'[s] = [tx |-> to, live |-> TRUE, posting |-> mine, batch |-> r, owns |-> own]
        BY <3>2
      <3> HIDE DEF mine, own, to
      <3>4. /\ refs'[s] \in Ref /\ refs'[s].tx = to /\ refs'[s].live
            /\ refs'[s].posting = mine
        BY <3>1, <3>3, <3>5, RefRecord
      <3>6. refs'[s].owns <=> own
        BY <3>1, <3>3, <3>5, RefRecord
      <3> QED
        BY <3>4, <3>6 DEF mine, own, to
    <2>5. refs' \in [Slot -> Ref \cup {NoRef}]
      <3>1. \A s \in Slot : refs'[s] \in Ref \cup {NoRef}
        BY <1>1, <2>2, <2>4 DEF LedgerInv, LedgerTypes
      <3>2. refs' = [s \in Slot |-> refs'[s]]
        BY DEF AttachRow
      <3> QED
        BY <3>1, <3>2
    <2>6. SlotsFree(S \cup A) /\ InsertPostings(S, post, pl.owner)
      BY DEF AttachRow
    <2> QED
      BY <2>2, <2>4, <2>5, <2>6 DEF WritesTo
  <1>7. txs' = txs
    BY DEF AttachRow
  <1>8. CASE pl.owner \in txs
    <2>1. txs' = txs \cup {pl.owner}
      BY <1>7, <1>8
    <2> HIDE DEF pl, S, A, poster
    <2>2. post \in NewIds(S)
      BY DEF S, pl
    <2> QED
      BY <1>1, <1>2, <1>3, <1>5, <1>6, <1>8, <2>1, <2>2, WriteKeepsLedger
  <1>9. CASE pl.owner \notin txs
    <2>1. A = {}
      BY <1>1, <1>5, <1>9 DEF LedgerInv, NoEmptyTransaction
    <2>2. S = {}
      BY <1>1, <1>9 DEF AttachRow, OwnerGone, PostingsOf, LedgerInv, NoEmptyTransaction, Written
    <2>3. refs' = refs
      BY <1>1, <2>1, <2>2 DEF AttachRow, LedgerInv, LedgerTypes
    <2>4. postings' = postings
      BY <1>1, <2>2 DEF AttachRow, InsertPostings, LedgerInv, LedgerTypes
    <2> QED
      BY <1>1, <2>3, <2>4, <1>7, SameLedger DEF ledger
  <1> QED
    BY <1>8, <1>9

-----------------------------------------------------------------------------
(* What the user and a discard take away.                                  *)

\* The postings of G go, and the transactions of X; the references of F go, and
\* those of O become orphans; any other is untied from what goes.
Removes(G, X, F, O) ==
    /\ txs' = txs \ X
    /\ postings' = Without(G)
    /\ refs' = [s \in Slot |-> refs'[s]]
    /\ \A s \in F : refs'[s] = NoRef
    /\ \A s \in O \ F : refs'[s] = [refs[s] EXCEPT !.live = FALSE, !.posting = NoPosting]
    /\ \A s \in Slot \ (F \cup O) : refs'[s] = Untie(G, s)

\* What may go: a transaction with everything it has, no orphan but of one that
\* goes, no reference of a posting that stays, and no transaction's last posting
\* but with the transaction.
MayRemove(G, X, F, O) ==
    /\ \A t \in X : PostingsOf(t) \subseteq G /\ RefsOn(t) \subseteq F \cup O
    /\ \A s \in O : s \in Held /\ refs[s].tx \in X
    /\ \A s \in (F \cup O) \cap Held :
          refs[s].owns /\ refs[s].posting # NoPosting => refs[s].posting \in G
    /\ \A t \in txs \ X : PostingsOf(t) \ G # {}

LEMMA OrphanRecord ==
    ASSUME NEW ref \in Ref, NEW orphan,
           orphan = [ref EXCEPT !.live = FALSE, !.posting = NoPosting]
    PROVE  /\ orphan \in Ref
           /\ orphan.tx = ref.tx /\ orphan.posting = NoPosting
           /\ ~orphan.live
  BY DEF Ref

LEMMA UntiedRecord ==
    ASSUME LedgerTypes, NEW G, NEW s \in Held
    PROVE  /\ Untie(G, s) \in Ref
           /\ Untie(G, s).tx = refs[s].tx
           /\ Untie(G, s).live <=> refs[s].live
           /\ Untie(G, s).posting # NoPosting =>
                Untie(G, s) = refs[s] /\ refs[s].posting \in Posting \ G
  <1>1. refs[s] \in Ref /\ refs[s] # NoRef
    BY DEF LedgerTypes, Held
  <1>2. CASE refs[s].posting \in G
    <2>1. Untie(G, s) = [refs[s] EXCEPT !.posting = NoPosting]
      BY <1>1, <1>2 DEF Untie
    <2> QED
      BY <1>1, <2>1 DEF Ref
  <1>3. CASE refs[s].posting \notin G
    <2>1. Untie(G, s) = refs[s]
      BY <1>3 DEF Untie
    <2>2. refs[s].posting \in Posting \cup {NoPosting}
      BY <1>1 DEF Ref
    <2> QED
      BY <1>1, <1>3, <2>1, <2>2
  <1> QED
    BY <1>2, <1>3

LEMMA RemovalKeepsLedger ==
    ASSUME LedgerInv, NEW G, NEW X, NEW F \in SUBSET Slot, NEW O \in SUBSET Slot,
           Removes(G, X, F, O), MayRemove(G, X, F, O)
    PROVE  LedgerInv'
  <1> USE NullAssumption, LedgerAssumption
  <1>1. LedgerTypes
    BY DEF LedgerInv
  <1>2. \A p \in Posting : Written(p)' <=> Written(p) /\ p \notin G
    BY DEF Removes, Without, Written
  <1>3. \A p \in Posting \ G : postings'[p] = postings[p]
    BY DEF Removes, Without
  <1>4. postings' \in [Posting -> PostingRow \cup {NoPosting}]
    BY <1>1 DEF Removes, Without, LedgerTypes
  <1>5. \A s \in Held' : s \in Held /\ s \notin F
    BY DEF Removes, Held, MayRemove, Untie
  <1>6. \A s \in O \ F : /\ refs'[s] \in Ref /\ refs'[s].tx \in X /\ refs'[s].posting = NoPosting
                         /\ ~refs'[s].live
    <2> SUFFICES ASSUME NEW s \in O \ F
                 PROVE  /\ refs'[s] \in Ref /\ refs'[s].tx \in X /\ refs'[s].posting = NoPosting
                        /\ ~refs'[s].live
      OBVIOUS
    <2>1. refs[s] \in Ref /\ refs[s].tx \in X
      BY <1>1 DEF MayRemove, Held, LedgerTypes
    <2>2. refs'[s] = [refs[s] EXCEPT !.live = FALSE, !.posting = NoPosting]
      BY DEF Removes
    <2> QED
      BY <2>1, <2>2, OrphanRecord
  <1>7. \A s \in Held \ (F \cup O) :
          /\ refs'[s] \in Ref /\ refs'[s].tx = refs[s].tx
          /\ refs'[s].live <=> refs[s].live
          /\ refs'[s].posting # NoPosting =>
               refs'[s] = refs[s] /\ refs[s].posting \in Posting \ G
    <2> SUFFICES ASSUME NEW s \in Held \ (F \cup O)
                 PROVE  /\ refs'[s] \in Ref /\ refs'[s].tx = refs[s].tx
                        /\ refs'[s].live <=> refs[s].live
                        /\ refs'[s].posting # NoPosting =>
                             refs'[s] = refs[s] /\ refs[s].posting \in Posting \ G
      OBVIOUS
    <2>1. refs'[s] = Untie(G, s)
      BY DEF Removes, Held
    <2> QED
      BY <1>1, <2>1, UntiedRecord
  <1>8. refs' \in [Slot -> Ref \cup {NoRef}]
    <2>1. \A s \in Slot : refs'[s] \in Ref \cup {NoRef}
      BY <1>6, <1>7 DEF Removes, Held, Untie
    <2> QED
      BY <2>1 DEF Removes
  <1>9. LedgerTypes'
    BY <1>1, <1>4, <1>8 DEF Removes, LedgerTypes
  <1>10. ImportedKeepProvenance' /\ OwnedByOrigin'
    <2> SUFFICES ASSUME NEW p \in Posting, Written(p)', postings'[p].from \in Slot
                 PROVE  /\ postings'[p].from \in Held'
                        /\ refs'[postings'[p].from].posting = p
                        /\ refs'[postings'[p].from].owns
      BY DEF ImportedKeepProvenance, OwnedByOrigin
    <2> DEFINE s == postings[p].from
    <2>1. Written(p) /\ p \notin G /\ postings'[p] = postings[p]
      BY <1>2, <1>3
    <2>2. s \in Held /\ refs[s].posting = p /\ refs[s].owns
      BY <2>1 DEF LedgerInv, ImportedKeepProvenance, OwnedByOrigin
    <2>3. s \notin F \cup O
      BY <2>1, <2>2 DEF MayRemove
    <2>4. refs'[s] = refs[s]
      BY <2>1, <2>2, <2>3 DEF Removes, Untie, Held
    <2> QED
      BY <2>1, <2>2, <2>4 DEF Held
  <1>11. OwnsOrigin'
    <2> SUFFICES ASSUME NEW s \in Held', refs'[s].posting # NoPosting
                 PROVE  /\ refs'[s].owns => postings'[refs'[s].posting].from = s
                        /\ ~refs'[s].owns => postings'[refs'[s].posting].from \notin Slot
      BY DEF OwnsOrigin
    <2>1. s \in Held \ (F \cup O)
      BY <1>5, <1>6
    <2>2. refs'[s] = refs[s] /\ refs[s].posting \in Posting \ G
      BY <2>1, <1>7
    <2> QED
      BY <2>1, <2>2, <1>3 DEF LedgerInv, OwnsOrigin
  <1>12. ReferencesPointHome'
    <2>1. ASSUME NEW s \in Held' PROVE refs'[s].live <=> refs'[s].tx \in txs'
      <3>1. CASE s \in O
        BY <2>1, <3>1, <1>5, <1>6 DEF Removes
      <3>2. CASE s \notin O
        <4>1. s \in Held \ (F \cup O)
          BY <2>1, <3>2, <1>5
        <4>2. refs[s].live <=> refs[s].tx \in txs
          BY <4>1 DEF LedgerInv, ReferencesPointHome
        <4>3. refs[s].live => refs[s].tx \notin X
          BY <4>1 DEF MayRemove, RefsOn
        <4> QED
          BY <4>1, <4>2, <4>3, <1>7 DEF Removes
      <3> QED
        BY <3>1, <3>2
    <2>2. ASSUME NEW s \in Held', refs'[s].posting # NoPosting
          PROVE  /\ refs'[s].live
                 /\ postings'[refs'[s].posting] # NoPosting
                 /\ postings'[refs'[s].posting].tx = refs'[s].tx
      <3>1. s \in Held \ (F \cup O)
        BY <2>2, <1>5, <1>6
      <3>2. refs'[s] = refs[s] /\ refs[s].posting \in Posting \ G
        BY <2>2, <3>1, <1>7
      <3>3. refs[s].live /\ Written(refs[s].posting) /\ postings[refs[s].posting].tx = refs[s].tx
        BY <2>2, <3>1, <3>2 DEF LedgerInv, ReferencesPointHome
      <3>4. postings'[refs[s].posting] = postings[refs[s].posting]
        BY <3>2, <1>3
      <3> QED
        BY <3>2, <3>3, <3>4 DEF Written
    <2> QED
      BY <2>1, <2>2 DEF ReferencesPointHome, Written
  <1>13. NoEmptyTransaction'
    <2>1. ASSUME NEW t \in txs' PROVE PostingsOf(t)' # {}
      <3>1. t \in txs \ X
        BY <2>1 DEF Removes
      <3>2. PICK p \in Posting \ G : postings[p] # NoPosting /\ postings[p].tx = t
        BY <3>1 DEF MayRemove, PostingsOf
      <3> QED
        BY <3>2, <1>3 DEF PostingsOf
    <2>2. ASSUME NEW p \in Posting, Written(p)' PROVE postings'[p].tx \in txs'
      <3>1. Written(p) /\ p \notin G /\ postings'[p] = postings[p]
        BY <2>2, <1>2, <1>3
      <3>2. postings[p].tx \in txs /\ p \in PostingsOf(postings[p].tx)
        BY <3>1 DEF LedgerInv, NoEmptyTransaction, PostingsOf, Written
      <3> QED
        BY <3>1, <3>2 DEF MayRemove, Removes
    <2> QED
      BY <2>1, <2>2 DEF NoEmptyTransaction
  <1> QED
    BY <1>9, <1>10, <1>11, <1>12, <1>13 DEF LedgerInv

LEMMA DropLegKeepsLedger ==
    ASSUME LedgerInv, NEW p \in Posting, DropLeg(p)
    PROVE  LedgerInv'
  <1>1. Removes({p}, {}, {}, {})
    BY DEF DropLeg, Removes
  <1>2. \A t \in txs : PostingsOf(t) \ {p} # {}
    BY DEF DropLeg, PostingsOf, LedgerInv, NoEmptyTransaction
  <1>3. MayRemove({p}, {}, {}, {})
    BY <1>2 DEF MayRemove
  <1> QED
    BY <1>1, <1>3, RemovalKeepsLedger

LEMMA DeleteKeepsLedger ==
    ASSUME LedgerInv, NEW t \in txs, NEW keep \in BOOLEAN, DeleteTransaction(t, keep)
    PROVE  LedgerInv'
  <1> DEFINE G == PostingsOf(t)
             F == IF keep THEN {} ELSE RefsOn(t)
             O == IF keep THEN RefsOn(t) ELSE {}
  <1>1. F \in SUBSET Slot /\ O \in SUBSET Slot /\ F \cup O = RefsOn(t)
    BY DEF RefsOn, Held
  <1>2. ASSUME NEW s \in Held, refs[s].posting # NoPosting
        PROVE  s \in RefsOn(t) <=> refs[s].posting \in G
    <2>1. refs[s].posting \in Posting
      BY <1>2 DEF LedgerInv, LedgerTypes, Held, Ref
    <2> QED
      BY <1>2, <2>1 DEF LedgerInv, ReferencesPointHome, Written, RefsOn, PostingsOf
  <1>3. NoPosting \notin G
    BY LedgerAssumption DEF PostingsOf
  <1>4. \A s \in Slot \ RefsOn(t) : Untie(G, s) = refs[s]
    BY <1>2, <1>3 DEF Untie, Held
  <1>5. Removes(G, {t}, F, O)
    BY <1>1, <1>4 DEF DeleteTransaction, Removes
  <1>6. MayRemove(G, {t}, F, O)
    <2>1. \A s \in RefsOn(t) : s \in Held /\ refs[s].tx = t
      BY DEF RefsOn
    <2>2. \A u \in txs \ {t} : PostingsOf(u) \ G # {}
      BY DEF PostingsOf, LedgerInv, NoEmptyTransaction
    <2> QED
      BY <1>1, <1>2, <2>1, <2>2 DEF MayRemove
  <1> HIDE DEF G, F, O
  <1> QED
    BY <1>1, <1>5, <1>6, RemovalKeepsLedger

\* Slots that name no posting may be freed.
LEMMA FreeSlotsKeepsLedger ==
    ASSUME LedgerInv, NEW S \in SUBSET Held, \A s \in S : refs[s].posting = NoPosting,
           FreeSlots(S), UNCHANGED postings
    PROVE  LedgerInv'
  <1>1. S \in SUBSET Slot
    BY DEF Held
  <1>2. postings = Without({})
    BY DEF Without, LedgerInv, LedgerTypes
  <1>3. Removes({}, {}, S, {})
    BY <1>1, <1>2 DEF FreeSlots, Removes, Untie
  <1>4. MayRemove({}, {}, S, {})
    BY DEF MayRemove, LedgerInv, NoEmptyTransaction
  <1> QED
    BY <1>1, <1>3, <1>4, RemovalKeepsLedger

LEMMA ReleaseTransactionKeepsLedger ==
    ASSUME LedgerInv, NEW t \in Tx, ReleaseTransaction(t)
    PROVE  LedgerInv'
  <1> DEFINE S == {s \in Held : ~refs[s].live /\ refs[s].tx = t}
  <1>1. \A s \in S : refs[s].posting = NoPosting
    BY DEF LedgerInv, ReferencesPointHome
  <1>2. FreeSlots(S) /\ UNCHANGED postings /\ S \in SUBSET Held
    BY DEF ReleaseTransaction
  <1> HIDE DEF S
  <1> QED
    BY <1>1, <1>2, FreeSlotsKeepsLedger

LEMMA DiscardKeepsLedger ==
    ASSUME LedgerInv, NEW r \in Run, Discard(r)
    PROVE  LedgerInv'
  <1> DEFINE G == {refs[s].posting : s \in OwnedLegs(r)}
             X == Emptied(r, G)
             F == WrittenBy(r) \cup {s \in Held : \E t \in X : s \in RefsOn(t)}
  <1>1. F \in SUBSET Slot
    BY DEF WrittenBy, Held
  <1>2. Removes(G, X, F, {})
    <2>1. \A s \in Slot : s \in F <=> s \in WrittenBy(r) \/ \E t \in X : s \in RefsOn(t)
      BY DEF RefsOn
    <2>2. refs' = [s \in Slot |-> IF s \in F THEN NoRef ELSE Untie(G, s)]
      BY <2>1 DEF Discard
    <2>3. txs' = txs \ X /\ postings' = Without(G)
      BY DEF Discard
    <2> HIDE DEF G, X, F
    <2> QED
      BY <1>1, <2>2, <2>3 DEF Removes
  <1>3. \A t \in X : t \in txs /\ PostingsOf(t) \subseteq G
    BY DEF Emptied
  <1>4. \A t \in txs : t \in X \/ PostingsOf(t) \ G # {}
    <2> SUFFICES ASSUME NEW t \in txs, PostingsOf(t) \ G = {} PROVE t \in X
      OBVIOUS
    <2>1. PICK p \in PostingsOf(t) : TRUE
      BY DEF LedgerInv, NoEmptyTransaction
    <2>2. PICK s \in OwnedLegs(r) : p = refs[s].posting
      BY <2>1
    <2>3. s \in WrittenBy(r) /\ s \in Held /\ refs[s].posting # NoPosting
      BY DEF OwnedLegs, WrittenBy
    <2>4. s \in RefsOn(t)
      BY <2>1, <2>2, <2>3 DEF RefsOn, LedgerInv, ReferencesPointHome, PostingsOf
    <2> QED
      BY <2>3, <2>4 DEF Emptied
  <1>5. \A s \in F : s \in Held
    BY DEF WrittenBy
  <1>6. ASSUME NEW s \in F, refs[s].owns, refs[s].posting # NoPosting
        PROVE  refs[s].posting \in G
    <2>1. CASE s \in WrittenBy(r)
      BY <1>6, <2>1 DEF OwnedLegs
    <2>2. CASE \E t \in X : s \in RefsOn(t)
      <3>1. PICK t \in X : s \in RefsOn(t)
        BY <2>2
      <3>2. refs[s].posting \in Posting /\ s \in Held
        BY <1>5, <1>6 DEF LedgerInv, LedgerTypes, Held, Ref
      <3>3. refs[s].posting \in PostingsOf(t)
        BY <1>6, <3>1, <3>2 DEF RefsOn, LedgerInv, ReferencesPointHome, PostingsOf, Written
      <3> QED
        BY <1>3, <3>1, <3>3
    <2> QED
      BY <1>6, <2>1, <2>2
  <1>7. \A t \in X : RefsOn(t) \subseteq F
    BY DEF RefsOn
  <1>8. MayRemove(G, X, F, {})
    <2> HIDE DEF G, X, F
    <2> QED
      BY <1>3, <1>4, <1>6, <1>7 DEF MayRemove
  <1> HIDE DEF G, X, F
  <1> QED
    BY <1>1, <1>2, <1>8, RemovalKeepsLedger

-----------------------------------------------------------------------------
(* What the user adds or changes in place.                                 *)

LEMMA AddLegKeepsLedger ==
    ASSUME LedgerInv, NEW t \in txs, NEW p \in FreshPosting, NEW v \in Value, AddLeg(t, p, v)
    PROVE  LedgerInv'
  <1> USE NullAssumption, LedgerAssumption
  <1>1. p \in Posting /\ ~Written(p) /\ t \in Tx
    BY DEF FreshPosting, Written, LedgerInv, LedgerTypes
  <1>2. postings'[p] = [tx |-> t, value |-> v, from |-> Hand]
    BY <1>1 DEF AddLeg, LedgerInv, LedgerTypes
  <1>3. postings'[p] \in PostingRow /\ postings'[p].tx = t /\ postings'[p].from = Hand
    BY <1>1, <1>2 DEF PostingRow
  <1>4. \A q \in Posting : q # p => postings'[q] = postings[q]
    BY <1>1 DEF AddLeg, LedgerInv, LedgerTypes
  <1>5. \A q \in Posting : Written(q) => q # p /\ postings'[q] = postings[q]
    BY <1>1, <1>4
  <1>6. \A s \in Held : refs[s].posting \in Posting \cup {NoPosting}
    BY DEF LedgerInv, LedgerTypes, Held, Ref
  <1>7. LedgerTypes'
    BY <1>3, <1>4 DEF AddLeg, LedgerInv, LedgerTypes
  <1>8. Held' = Held /\ refs' = refs /\ txs' = txs
    BY DEF AddLeg, Held
  <1>9. ImportedKeepProvenance' /\ OwnedByOrigin'
    BY <1>3, <1>4, <1>8 DEF LedgerInv, ImportedKeepProvenance, OwnedByOrigin, Written
  <1>10. OwnsOrigin' /\ ReferencesPointHome'
    BY <1>5, <1>6, <1>8 DEF LedgerInv, OwnsOrigin, ReferencesPointHome, Written
  <1>11. NoEmptyTransaction'
    BY <1>3, <1>4, <1>5, <1>8 DEF LedgerInv, NoEmptyTransaction, PostingsOf, Written
  <1> QED
    BY <1>7, <1>9, <1>10, <1>11 DEF LedgerInv

LEMMA RevalueKeepsLedger ==
    ASSUME LedgerInv, NEW p \in Posting, NEW v \in Value, Revalue(p, v)
    PROVE  LedgerInv'
  <1> USE NullAssumption, LedgerAssumption
  <1>1. postings[p] \in PostingRow
    BY DEF Revalue, LedgerInv, LedgerTypes
  <1>2. postings'[p] = [postings[p] EXCEPT !.value = v]
    BY DEF Revalue, LedgerInv, LedgerTypes
  <1>3. /\ postings'[p] \in PostingRow
        /\ postings'[p].tx = postings[p].tx /\ postings'[p].from = postings[p].from
    BY <1>1, <1>2 DEF PostingRow
  <1>4. \A q \in Posting : q # p => postings'[q] = postings[q]
    BY DEF Revalue, LedgerInv, LedgerTypes
  <1>5. \A q \in Posting : Written(q)' <=> Written(q)
    BY <1>1, <1>3, <1>4 DEF Written
  <1>6. \A q \in Posting :
          postings'[q].tx = postings[q].tx /\ postings'[q].from = postings[q].from
    BY <1>3, <1>4
  <1>7. \A s \in Held : refs[s].posting \in Posting \cup {NoPosting}
    BY DEF LedgerInv, LedgerTypes, Held, Ref
  <1>8. Held' = Held /\ refs' = refs /\ txs' = txs
    BY DEF Revalue, Held
  <1>9. LedgerTypes'
    BY <1>3, <1>4 DEF Revalue, LedgerInv, LedgerTypes
  <1>10. ImportedKeepProvenance' /\ OwnedByOrigin'
    BY <1>5, <1>6, <1>8 DEF LedgerInv, ImportedKeepProvenance, OwnedByOrigin
  <1>11. OwnsOrigin'
    <2> SUFFICES ASSUME NEW s \in Held, refs[s].posting # NoPosting
                 PROVE  /\ refs[s].owns => postings'[refs[s].posting].from = s
                        /\ ~refs[s].owns => postings'[refs[s].posting].from \notin Slot
      BY <1>8 DEF OwnsOrigin
    <2>1. /\ refs[s].posting \in Posting
          /\ refs[s].owns => postings[refs[s].posting].from = s
          /\ ~refs[s].owns => postings[refs[s].posting].from \notin Slot
      BY <1>7 DEF LedgerInv, OwnsOrigin
    <2> QED
      BY <2>1, <1>6
  <1>12. ReferencesPointHome'
    <2>1. ASSUME NEW s \in Held, refs[s].posting # NoPosting
          PROVE  /\ refs[s].live
                 /\ postings'[refs[s].posting] # NoPosting
                 /\ postings'[refs[s].posting].tx = refs[s].tx
      BY <2>1, <1>5, <1>6, <1>7 DEF LedgerInv, ReferencesPointHome, Written
    <2>2. \A s \in Held : refs[s].live <=> refs[s].tx \in txs
      BY DEF LedgerInv, ReferencesPointHome
    <2> QED
      BY <2>1, <2>2, <1>8 DEF ReferencesPointHome, Written
  <1>13. NoEmptyTransaction'
    BY <1>5, <1>6, <1>8 DEF LedgerInv, NoEmptyTransaction, PostingsOf, Written
  <1> QED
    BY <1>9, <1>10, <1>11, <1>12, <1>13 DEF LedgerInv

\* Only a reference that has adopted the posting may share it: an owner's stays
\* the only one, so the posting loses no one else's provenance.
LEMMA DetachKeepsLedger ==
    ASSUME LedgerInv, NEW s \in Slot, Detach(s)
    PROVE  LedgerInv'
  <1> USE NullAssumption, LedgerAssumption
  <1> DEFINE mine == refs[s].posting
  <1>1. s \in Held /\ refs[s] \in Ref
    BY DEF Detach, LedgerInv, LedgerTypes, Held
  <1>2. mine \in Posting \cup {NoPosting}
    BY <1>1 DEF Ref
  <1>3. \A p \in Posting : p # mine => postings'[p] = postings[p]
    BY DEF Detach
  <1>4. ASSUME NEW p \in Posting, p = mine
        PROVE  /\ Written(p) /\ postings'[p] \in PostingRow /\ postings'[p].from = Hand
               /\ postings'[p].tx = postings[p].tx
    <2>1. Written(p) /\ postings[p] \in PostingRow
      BY <1>1, <1>4 DEF LedgerInv, LedgerTypes, ReferencesPointHome, Written
    <2>2. postings'[p] = [postings[p] EXCEPT !.from = Hand]
      BY <1>4 DEF Detach
    <2> QED
      BY <2>1, <2>2 DEF PostingRow
  <1>5. \A p \in Posting : /\ Written(p)' <=> Written(p)
                           /\ Written(p) => postings'[p].tx = postings[p].tx
    BY <1>3, <1>4 DEF Written
  <1>6. refs' = [refs EXCEPT ![s] = NoRef]
    BY DEF Detach, FreeSlots, LedgerInv, LedgerTypes
  <1>7. /\ Held' = Held \ {s} /\ txs' = txs
        /\ \A d \in Held \ {s} : refs'[d] = refs[d]
    BY <1>6 DEF Detach, FreeSlots, Held, LedgerInv, LedgerTypes
  <1>8. \A d \in Held : refs[d].posting \in Posting \cup {NoPosting}
    BY DEF LedgerInv, LedgerTypes, Held, Ref
  <1>9. LedgerTypes'
    <2>1. postings' \in [Posting -> PostingRow \cup {NoPosting}]
      <3>1. \A p \in Posting : postings'[p] \in PostingRow \cup {NoPosting}
        BY <1>3, <1>4 DEF LedgerInv, LedgerTypes
      <3>2. postings' = [p \in Posting |-> postings'[p]]
        BY DEF Detach
      <3> QED
        BY <3>1, <3>2
    <2> QED
      BY <2>1, <1>6, <1>7 DEF LedgerInv, LedgerTypes
  <1>10. ImportedKeepProvenance' /\ OwnedByOrigin'
    <2> SUFFICES ASSUME NEW p \in Posting, Written(p)', postings'[p].from \in Slot
                 PROVE  /\ postings'[p].from \in Held'
                        /\ refs'[postings'[p].from].posting = p
                        /\ refs'[postings'[p].from].owns
      BY DEF ImportedKeepProvenance, OwnedByOrigin
    <2>1. p # mine /\ Written(p) /\ postings'[p] = postings[p]
      BY <1>3, <1>4, <1>5
    <2>2. /\ postings[p].from \in Held /\ refs[postings[p].from].posting = p
          /\ refs[postings[p].from].owns
      BY <2>1 DEF LedgerInv, ImportedKeepProvenance, OwnedByOrigin
    <2> QED
      BY <2>1, <2>2, <1>7
  <1>11. OwnsOrigin'
    <2> SUFFICES ASSUME NEW d \in Held \ {s}, refs[d].posting # NoPosting
                 PROVE  /\ refs[d].owns => postings'[refs[d].posting].from = d
                        /\ ~refs[d].owns => postings'[refs[d].posting].from \notin Slot
      BY <1>7 DEF OwnsOrigin
    <2>1. /\ refs[d].posting \in Posting
          /\ refs[d].owns => postings[refs[d].posting].from = d
          /\ ~refs[d].owns => postings[refs[d].posting].from \notin Slot
      BY <1>8 DEF LedgerInv, OwnsOrigin
    <2>2. CASE refs[d].posting # mine
      BY <2>1, <2>2, <1>3
    <2>3. CASE refs[d].posting = mine
      <3>1. postings[mine].from = s \/ postings[mine].from \notin Slot
        BY <1>1, <2>1, <2>3 DEF LedgerInv, OwnsOrigin
      <3>2. ~refs[d].owns
        BY <2>1, <2>3, <3>1 DEF Held
      <3> QED
        BY <2>1, <2>3, <3>2, <1>4
    <2> QED
      BY <2>2, <2>3
  <1>12. ReferencesPointHome'
    <2>1. ASSUME NEW d \in Held, refs[d].posting # NoPosting
          PROVE  /\ refs[d].live
                 /\ postings'[refs[d].posting] # NoPosting
                 /\ postings'[refs[d].posting].tx = refs[d].tx
      BY <2>1, <1>5, <1>8 DEF LedgerInv, ReferencesPointHome, Written
    <2>2. \A d \in Held : refs[d].live <=> refs[d].tx \in txs
      BY DEF LedgerInv, ReferencesPointHome
    <2> QED
      BY <2>1, <2>2, <1>7 DEF ReferencesPointHome, Written
  <1>13. NoEmptyTransaction'
    BY <1>5, <1>7 DEF LedgerInv, NoEmptyTransaction, PostingsOf, Written
  <1> QED
    BY <1>9, <1>10, <1>11, <1>12, <1>13 DEF LedgerInv

-----------------------------------------------------------------------------
(* What an edit of the command line writes.                                *)

LEMMA EditedLegs ==
    ASSUME RunInv, NEW e \in Editor, draft[e] # NoDraft, NEW legs \in Edited(draft[e].legs)
    PROVE  /\ draft[e].tx \in Tx /\ DOMAIN draft[e].legs \subseteq Posting
           /\ \A p \in DOMAIN legs : p \in Posting /\ legs[p] \in Value
           /\ \A p \in DOMAIN legs : p \in DOMAIN draft[e].legs \/ p \in FreshPosting
  <1> DEFINE old == draft[e].legs
  <1>1. draft[e] \in Draft
    BY DEF RunInv, RunTypes
  <1>2. draft[e].tx \in Tx /\ DOMAIN old \subseteq Posting /\ \A p \in DOMAIN old : old[p] \in Value
    BY <1>1 DEF Draft
  <1>3. \A p \in FreshPosting : p \in Posting
    BY DEF FreshPosting
  <1>4. CASE legs \in Revalued(old)
    <2>1. PICK p \in DOMAIN old, v \in Value : legs = [old EXCEPT ![p] = v]
      BY <1>4 DEF Revalued
    <2>2. DOMAIN legs = DOMAIN old /\ \A q \in DOMAIN old : legs[q] = IF q = p THEN v ELSE old[q]
      BY <2>1
    <2> QED
      BY <1>2, <2>2
  <1>5. CASE legs \in Shortened(old)
    <2>1. PICK p \in DOMAIN old : legs = [q \in DOMAIN old \ {p} |-> old[q]]
      BY <1>5 DEF Shortened
    <2> QED
      BY <1>2, <2>1
  <1>6. CASE legs \in Lengthened(old)
    <2>1. PICK p \in FreshPosting, v \in Value :
               legs = [q \in DOMAIN old \cup {p} |-> IF q = p THEN v ELSE old[q]]
      BY <1>6 DEF Lengthened
    <2> QED
      BY <1>2, <1>3, <2>1
  <1>7. legs \in Revalued(old) \cup Shortened(old) \cup Lengthened(old)
    BY DEF Edited
  <1> QED
    BY <1>4, <1>5, <1>6, <1>7

\* The transaction's postings are the edit's: those that were there are where
\* they came from, and those put back or added come from no slot.
LEMMA EditedPostings ==
    ASSUME RunInv, LedgerInv, DraftInv, NEW e \in Editor, draft[e] # NoDraft,
           NEW legs \in Edited(draft[e].legs), WriteEdit(e, legs)
    PROVE  LET t == draft[e].tx
           IN  /\ postings' \in [Posting -> PostingRow \cup {NoPosting}]
               /\ \A p \in DOMAIN legs :
                    /\ p \in Posting /\ postings'[p] \in PostingRow /\ postings'[p].tx = t
                    /\ p \in PostingsOf(t) => postings'[p].from = postings[p].from
                    /\ p \notin PostingsOf(t) =>
                         /\ ~Written(p) /\ postings'[p].from \in {Stray, Hand}
                         /\ p \in DOMAIN draft[e].legs => postings'[p].from = Stray
               /\ \A p \in Posting \ DOMAIN legs :
                    postings'[p] = IF p \in PostingsOf(t) THEN NoPosting ELSE postings[p]
  <1> DEFINE t == draft[e].tx
             origin == [p \in DOMAIN legs |-> IF p \in PostingsOf(t) THEN postings[p].from
                                              ELSE IF p \in DOMAIN draft[e].legs THEN Stray ELSE Hand]
             row(p) == [tx |-> t, value |-> legs[p], from |-> origin[p]]
             dropped == PostingsOf(t) \ DOMAIN legs
  <1>1. /\ t \in Tx
        /\ \A p \in DOMAIN legs : p \in Posting /\ legs[p] \in Value
        /\ \A p \in DOMAIN legs : p \in DOMAIN draft[e].legs \/ p \in FreshPosting
    BY EditedLegs
  <1>2. \A p \in DOMAIN legs : p \notin PostingsOf(t) => ~Written(p)
    BY <1>1 DEF DraftInv, PostingsOf, FreshPosting, Written
  <1>3. \A p \in DOMAIN legs : origin[p] \in Slot \cup {Hand, Stray}
    BY <1>1 DEF PostingsOf, LedgerInv, LedgerTypes, PostingRow
  <1>4. postings' = [p \in Posting |-> IF p \in DOMAIN legs THEN row(p) ELSE Without(dropped)[p]]
    BY DEF WriteEdit
  <1>5. \A p \in DOMAIN legs : postings'[p] = row(p)
    BY <1>1, <1>4
  <1>6. \A p \in DOMAIN legs : /\ row(p) \in PostingRow
                               /\ row(p).tx = t /\ row(p).from = origin[p]
    BY <1>1, <1>3 DEF PostingRow
  <1>7. \A p \in Posting \ DOMAIN legs :
          postings'[p] = IF p \in PostingsOf(t) THEN NoPosting ELSE postings[p]
    BY <1>4 DEF Without
  <1>8. postings' \in [Posting -> PostingRow \cup {NoPosting}]
    <2>1. \A p \in Posting : postings'[p] \in PostingRow \cup {NoPosting}
      BY <1>5, <1>6, <1>7 DEF LedgerInv, LedgerTypes
    <2> HIDE DEF row, dropped
    <2> QED
      BY <1>4, <2>1
  <1>9. ASSUME NEW p \in DOMAIN legs
        PROVE  /\ p \in Posting /\ postings'[p] \in PostingRow /\ postings'[p].tx = t
               /\ p \in PostingsOf(t) => postings'[p].from = postings[p].from
               /\ p \notin PostingsOf(t) =>
                    /\ ~Written(p) /\ postings'[p].from \in {Stray, Hand}
                    /\ p \in DOMAIN draft[e].legs => postings'[p].from = Stray
    <2>1. /\ postings'[p] \in PostingRow
          /\ postings'[p].tx = t /\ postings'[p].from = origin[p]
      BY <1>5, <1>6
    <2> QED
      BY <1>1, <1>2, <2>1
  <1> QED
    BY <1>7, <1>8, <1>9

LEMMA WriteEditKeepsLedger ==
    ASSUME RunInv, LedgerInv, DraftInv, NEW e \in Editor, draft[e] # NoDraft,
           NEW legs \in Edited(draft[e].legs), WriteEdit(e, legs)
    PROVE  LedgerInv'
  <1> USE NullAssumption, LedgerAssumption
  <1> DEFINE t == draft[e].tx
             G == PostingsOf(t) \ DOMAIN legs
  <1>1. LedgerTypes
    BY DEF LedgerInv
  <1>2. /\ postings' \in [Posting -> PostingRow \cup {NoPosting}]
        /\ \A p \in DOMAIN legs :
             /\ p \in Posting /\ postings'[p] \in PostingRow /\ postings'[p].tx = t
             /\ p \in PostingsOf(t) => postings'[p].from = postings[p].from
             /\ p \notin PostingsOf(t) => ~Written(p) /\ postings'[p].from \in {Stray, Hand}
        /\ \A p \in Posting \ DOMAIN legs :
             postings'[p] = IF p \in PostingsOf(t) THEN NoPosting ELSE postings[p]
    BY EditedPostings
  <1>3. /\ t \in txs /\ DOMAIN legs # {} /\ txs' = txs
        /\ refs' = [s \in Slot |-> Untie(G, s)]
    BY DEF WriteEdit
  \* What stays written stays with its transaction and its origin.
  <1>4. \A p \in Posting : Written(p) /\ p \notin G =>
          /\ Written(p)' /\ postings'[p].tx = postings[p].tx
          /\ postings'[p].from = postings[p].from
    BY <1>2 DEF Written, PostingsOf
  <1>5. \A p \in Posting : Written(p)' /\ postings'[p].from \in Slot =>
          Written(p) /\ p \notin G /\ postings'[p].from = postings[p].from
    BY <1>2 DEF Written, PostingsOf
  <1>7. \A s \in Held :
          /\ refs'[s] \in Ref /\ refs'[s].tx = refs[s].tx
          /\ refs'[s].live <=> refs[s].live
          /\ refs'[s].posting # NoPosting =>
               refs'[s] = refs[s] /\ refs[s].posting \in Posting \ G
    <2> SUFFICES ASSUME NEW s \in Held
                 PROVE  /\ refs'[s] \in Ref /\ refs'[s].tx = refs[s].tx
                        /\ refs'[s].live <=> refs[s].live
                        /\ refs'[s].posting # NoPosting =>
                             refs'[s] = refs[s] /\ refs[s].posting \in Posting \ G
      OBVIOUS
    <2>1. refs'[s] = Untie(G, s)
      BY <1>3 DEF Held
    <2> HIDE DEF G
    <2> QED
      BY <1>1, <2>1, UntiedRecord
  <1>6. Held' = Held
    BY <1>3, <1>7 DEF Held, Untie
  <1>8. LedgerTypes'
    <2>1. \A s \in Slot : refs'[s] \in Ref \cup {NoRef}
      BY <1>3, <1>7 DEF Held, Untie
    <2> QED
      BY <1>1, <1>2, <1>3, <2>1 DEF LedgerTypes
  <1>9. ImportedKeepProvenance' /\ OwnedByOrigin'
    <2> SUFFICES ASSUME NEW p \in Posting, Written(p)', postings'[p].from \in Slot
                 PROVE  /\ postings'[p].from \in Held'
                        /\ refs'[postings'[p].from].posting = p
                        /\ refs'[postings'[p].from].owns
      BY DEF ImportedKeepProvenance, OwnedByOrigin
    <2> DEFINE s == postings[p].from
    <2>1. Written(p) /\ p \notin G /\ postings'[p].from = s
      BY <1>5
    <2>2. s \in Held /\ refs[s].posting = p /\ refs[s].owns
      BY <2>1 DEF LedgerInv, ImportedKeepProvenance, OwnedByOrigin
    <2>3. refs'[s] = refs[s]
      BY <1>3, <2>1, <2>2 DEF Untie, Held
    <2> QED
      BY <1>6, <2>1, <2>2, <2>3
  <1>10. OwnsOrigin'
    <2> SUFFICES ASSUME NEW s \in Held, refs'[s].posting # NoPosting
                 PROVE  /\ refs'[s].owns => postings'[refs'[s].posting].from = s
                        /\ ~refs'[s].owns => postings'[refs'[s].posting].from \notin Slot
      BY <1>6 DEF OwnsOrigin
    <2>1. refs'[s] = refs[s] /\ refs[s].posting \in Posting \ G /\ refs[s].posting # NoPosting
      BY <1>7
    <2>2. Written(refs[s].posting)
      BY <2>1 DEF LedgerInv, ReferencesPointHome
    <2>3. postings'[refs[s].posting].from = postings[refs[s].posting].from
      BY <1>4, <2>1, <2>2
    <2> QED
      BY <2>1, <2>3 DEF LedgerInv, OwnsOrigin
  <1>11. ReferencesPointHome'
    <2>1. ASSUME NEW s \in Held, refs'[s].posting # NoPosting
          PROVE  /\ refs'[s].live
                 /\ postings'[refs'[s].posting] # NoPosting
                 /\ postings'[refs'[s].posting].tx = refs'[s].tx
      <3>1. refs'[s] = refs[s] /\ refs[s].posting \in Posting \ G /\ refs[s].posting # NoPosting
        BY <1>7, <2>1
      <3>2. refs[s].live /\ Written(refs[s].posting) /\ postings[refs[s].posting].tx = refs[s].tx
        BY <3>1 DEF LedgerInv, ReferencesPointHome
      <3> QED
        BY <1>4, <3>1, <3>2 DEF Written
    <2>2. \A s \in Held : refs'[s].live <=> refs'[s].tx \in txs
      BY <1>7 DEF LedgerInv, ReferencesPointHome
    <2> QED
      BY <2>1, <2>2, <1>3, <1>6 DEF ReferencesPointHome, Written
  <1>12. NoEmptyTransaction'
    <2>1. ASSUME NEW u \in txs PROVE PostingsOf(u)' # {}
      <3>1. CASE u = t
        <4>1. PICK p \in DOMAIN legs : TRUE
          BY <1>3
        <4> QED
          BY <1>2, <3>1, <4>1 DEF PostingsOf
      <3>2. CASE u # t
        <4>1. PICK p \in Posting : Written(p) /\ postings[p].tx = u
          BY DEF LedgerInv, NoEmptyTransaction, PostingsOf, Written
        <4>2. p \notin G
          BY <3>2, <4>1 DEF PostingsOf
        <4> QED
          BY <1>4, <4>1, <4>2 DEF PostingsOf, Written
      <3> QED
        BY <3>1, <3>2
    <2>2. ASSUME NEW p \in Posting, Written(p)' PROVE postings'[p].tx \in txs
      <3>1. CASE p \in DOMAIN legs
        BY <1>2, <1>3, <3>1
      <3>2. CASE p \notin DOMAIN legs
        <4>1. Written(p) /\ postings'[p] = postings[p]
          BY <1>2, <2>2, <3>2 DEF Written
        <4> QED
          BY <4>1 DEF LedgerInv, NoEmptyTransaction
      <3> QED
        BY <3>1, <3>2
    <2> QED
      BY <2>1, <2>2, <1>3 DEF NoEmptyTransaction
  <1> QED
    BY <1>8, <1>9, <1>10, <1>11, <1>12 DEF LedgerInv

-----------------------------------------------------------------------------
(* What a run has read.                                                    *)

\* An id that is in use, or that a reading names, is not given anew: its posting
\* changes hands only to the user's, and comes back only from an edit's reading.
Persists(p) ==
    Written(p)' =>
        \/ /\ Written(p) /\ postings'[p].tx = postings[p].tx
           /\ postings'[p].from \in {postings[p].from, Hand}
        \/ /\ postings'[p].from = Stray
           /\ \E e \in Editor : /\ draft[e] # NoDraft /\ p \in DOMAIN draft[e].legs
                                /\ postings'[p].tx = draft[e].tx

LEMMA InsertedPersist ==
    ASSUME LedgerTypes, NEW S \in SUBSET Slot, NEW post \in NewIds(S), NEW t \in Tx,
           InsertPostings(S, post, t), NEW p \in Posting \ FreshPosting
    PROVE  Persists(p)
  <1>1. \A s \in S : post[s] # p
    BY DEF NewIds
  <1>2. postings'[p] = postings[p]
    BY <1>1, InsertedPostings
  <1> QED
    BY <1>2 DEF Persists, Written

LEMMA RemovedPersist ==
    ASSUME NEW G, postings' = Without(G), NEW p \in Posting
    PROVE  Persists(p)
  BY DEF Without, Persists, Written

LEMMA EditedPersist ==
    ASSUME IInv, NEW e \in Editor, draft[e] # NoDraft, NEW legs \in Edited(draft[e].legs),
           WriteEdit(e, legs), NEW p \in Posting \ FreshPosting
    PROVE  Persists(p)
  <1>1. CASE p \in DOMAIN legs
    <2>1. p \in DOMAIN draft[e].legs
      BY <1>1, EditedLegs DEF IInv
    <2>2. CASE p \in PostingsOf(draft[e].tx)
      BY <1>1, <2>2, EditedPostings DEF IInv, Persists, PostingsOf, Written
    <2>3. CASE p \notin PostingsOf(draft[e].tx)
      BY <1>1, <2>1, <2>3, EditedPostings DEF IInv, Persists
    <2> QED
      BY <2>2, <2>3
  <1>2. CASE p \notin DOMAIN legs
    BY <1>2, EditedPostings DEF IInv, Persists, Written
  <1> QED
    BY <1>1, <1>2

LEMMA UserStepPersists ==
    ASSUME IInv, UserStep, NEW p \in Posting \ FreshPosting
    PROVE  Persists(p)
  <1> USE NullAssumption
  <1>1. CASE UNCHANGED postings
    BY <1>1 DEF Persists, Written
  <1>2. ASSUME NEW t \in txs, NEW q \in FreshPosting, NEW v \in Value, AddLeg(t, q, v)
        PROVE  Persists(p)
    BY <1>2 DEF AddLeg, Persists, Written, IInv, LedgerInv, LedgerTypes, FreshPosting
  <1>3. ASSUME NEW q \in Posting, NEW v \in Value, Revalue(q, v) PROVE Persists(p)
    <2>1. CASE q = p
      <3>1. postings[p] \in PostingRow /\ postings'[p] = [postings[p] EXCEPT !.value = v]
        BY <1>3, <2>1 DEF Revalue, IInv, LedgerInv, LedgerTypes
      <3>2. postings'[p].tx = postings[p].tx /\ postings'[p].from = postings[p].from
        BY <3>1 DEF PostingRow
      <3> QED
        BY <3>1, <3>2 DEF Persists, Written
    <2>2. CASE q # p
      BY <1>3, <2>2 DEF Revalue, Persists, Written, IInv, LedgerInv, LedgerTypes
    <2> QED
      BY <2>1, <2>2
  <1>4. ASSUME NEW q \in Posting, DropLeg(q) PROVE Persists(p)
    BY <1>4, RemovedPersist DEF DropLeg
  <1>5. ASSUME NEW t \in txs, NEW keep \in BOOLEAN, DeleteTransaction(t, keep) PROVE Persists(p)
    BY <1>5, RemovedPersist DEF DeleteTransaction
  <1>7. ASSUME NEW e \in Editor, draft[e] # NoDraft, NEW legs \in Edited(draft[e].legs),
               WriteEdit(e, legs)
        PROVE  Persists(p)
    BY <1>7, EditedPersist
  <1>6. ASSUME NEW s \in Slot, Detach(s) PROVE Persists(p)
    <2>1. CASE refs[s].posting = p
      <3>1. postings[p] \in PostingRow /\ postings'[p] = [postings[p] EXCEPT !.from = Hand]
        BY <1>6, <2>1, LedgerAssumption
           DEF Detach, IInv, LedgerInv, LedgerTypes, ReferencesPointHome, Written
      <3>2. postings'[p].tx = postings[p].tx /\ postings'[p].from = Hand
        BY <3>1 DEF PostingRow
      <3> QED
        BY <3>1, <3>2 DEF Persists, Written
    <2>2. CASE refs[s].posting # p
      BY <1>6, <2>2 DEF Detach, Persists, Written
    <2> QED
      BY <2>1, <2>2
  <1>8. CASE \E e \in Editor : AbandonEdit(e) \/ \E t \in txs : ReadForEdit(e, t)
    BY <1>1, <1>8 DEF AbandonEdit, ReadForEdit, ledger
  <1> QED
    BY <1>1, <1>2, <1>3, <1>4, <1>5, <1>6, <1>7, <1>8
       DEF UserStep, EditStep, OpenAccounts, ledger, ReleaseLeg, ReleaseTransaction

\* A reading stands while what it names persists.
LEMMA ReadingsStand ==
    ASSUME IInv, \A p \in Posting \ FreshPosting : Persists(p),
           \A r \in Run : /\ candidate'[r] \in {candidate[r], NoPlan}
                          /\ plan'[r] \in {plan[r], NoPlan}
    PROVE  ReadingInv'
  <1>1. ASSUME NEW r \in Run, candidate'[r] # NoPlan, NEW p \in DOMAIN candidate'[r].shown,
               Written(p)'
        PROVE  postings'[p].tx = candidate'[r].owner
    <2>1. candidate'[r] = candidate[r] /\ candidate[r] \in Candidate
      BY <1>1 DEF IInv, RunInv, RunTypes
    <2>2. p \in Posting \ FreshPosting
      BY <1>1, <2>1 DEF Candidate, FreshPosting
    <2>3. CASE Written(p) /\ postings'[p].tx = postings[p].tx
      BY <1>1, <2>1, <2>3 DEF IInv, ReadingInv
    <2>4. ASSUME NEW e \in Editor, draft[e] # NoDraft, p \in DOMAIN draft[e].legs,
                 postings'[p].tx = draft[e].tx
          PROVE  postings'[p].tx = candidate'[r].owner
      BY <1>1, <2>1, <2>4 DEF IInv, DraftInv
    <2> QED
      BY <1>1, <2>2, <2>3, <2>4 DEF Persists
  <1>2. ASSUME NEW r \in Run, plan'[r] # NoPlan, NEW p \in DOMAIN plan'[r].adopt, Written(p)'
        PROVE  postings'[p].from \notin Slot
    <2>1. plan'[r] = plan[r] /\ plan[r] \in Plan
      BY <1>2 DEF IInv, RunInv, RunTypes
    <2>2. p \in Posting \ FreshPosting
      BY <1>2, <2>1 DEF Plan, FreshPosting
    <2> QED
      BY <1>2, <2>1, <2>2, LedgerAssumption DEF IInv, ReadingInv, Persists
  <1> QED
    BY <1>1, <1>2 DEF ReadingInv, Written

\* So does an edit's.
LEMMA DraftsStand ==
    ASSUME IInv, \A p \in Posting \ FreshPosting : Persists(p),
           \A r \in Run : candidate'[r] \in {candidate[r], NoPlan},
           \A e \in Editor : draft'[e] \in {draft[e], NoDraft}
    PROVE  DraftInv'
  <1> SUFFICES ASSUME NEW e \in Editor, draft'[e] # NoDraft, NEW p \in DOMAIN draft'[e].legs
               PROVE  /\ Written(p)' => postings'[p].tx = draft'[e].tx
                      /\ \A f \in Editor : draft'[f] # NoDraft /\ p \in DOMAIN draft'[f].legs =>
                            draft'[f].tx = draft'[e].tx
                      /\ \A r \in Run : candidate'[r] # NoPlan /\ p \in DOMAIN candidate'[r].shown =>
                            candidate'[r].owner = draft'[e].tx
    BY DEF DraftInv
  <1>1. draft'[e] = draft[e] /\ draft[e] # NoDraft /\ draft[e] \in Draft
    BY DEF IInv, RunInv, RunTypes
  <1>2. p \in Posting \ FreshPosting
    BY <1>1 DEF Draft, FreshPosting
  <1>3. ASSUME NEW f \in Editor, draft'[f] # NoDraft, p \in DOMAIN draft'[f].legs
        PROVE  draft'[f].tx = draft'[e].tx
    <2>1. draft'[f] = draft[f]
      BY <1>3
    <2> QED
      BY <1>1, <1>3, <2>1 DEF IInv, DraftInv
  <1>4. ASSUME NEW r \in Run, candidate'[r] # NoPlan, p \in DOMAIN candidate'[r].shown
        PROVE  candidate'[r].owner = draft'[e].tx
    <2>1. candidate'[r] = candidate[r]
      BY <1>4
    <2> QED
      BY <1>1, <1>4, <2>1 DEF IInv, DraftInv
  <1>5. ASSUME Written(p)' PROVE postings'[p].tx = draft'[e].tx
    <2>1. CASE Written(p) /\ postings'[p].tx = postings[p].tx
      BY <1>1, <2>1 DEF IInv, DraftInv
    <2>2. ASSUME NEW f \in Editor, draft[f] # NoDraft, p \in DOMAIN draft[f].legs,
                 postings'[p].tx = draft[f].tx
          PROVE  postings'[p].tx = draft'[e].tx
      BY <1>1, <2>2 DEF IInv, DraftInv
    <2> QED
      BY <1>2, <1>5, <2>1, <2>2 DEF Persists
  <1> QED
    BY <1>3, <1>4, <1>5

LEMMA ReadOwnerKeepsReadings ==
    ASSUME IInv, NEW r \in Run, ReadOwner(r)
    PROVE  ReadingInv' /\ DraftInv'
  <1>1. PICK t \in txs : candidate' = [candidate EXCEPT ![r] =
                           [owner |-> t, shown |-> [p \in PostingsOf(t) |-> postings[p].value]]]
    BY DEF ReadOwner
  <1>2. postings' = postings /\ plan' = plan /\ draft' = draft
    BY DEF ReadOwner, ledger
  <1>3. \A q \in Run : candidate'[q] = IF q = r
            THEN [owner |-> t, shown |-> [p \in PostingsOf(t) |-> postings[p].value]]
            ELSE candidate[q]
    BY <1>1 DEF IInv, RunInv, RunTypes
  <1>4. ASSUME NEW q \in Run, candidate'[q] # NoPlan, NEW p \in DOMAIN candidate'[q].shown,
               Written(p)'
        PROVE  postings'[p].tx = candidate'[q].owner
    <2>1. CASE q = r
      <3> DEFINE shown == [u \in PostingsOf(t) |-> postings[u].value]
      <3>1. candidate'[q] = [owner |-> t, shown |-> shown]
        BY <1>3, <2>1
      <3>2. DOMAIN shown = PostingsOf(t)
        OBVIOUS
      <3> HIDE DEF shown
      <3>3. candidate'[q].owner = t /\ candidate'[q].shown = shown
        BY <3>1
      <3>4. p \in PostingsOf(t)
        BY <1>4, <3>2, <3>3
      <3> QED
        BY <1>2, <3>3, <3>4 DEF PostingsOf
    <2>2. CASE q # r
      <3>1. candidate'[q] = candidate[q]
        BY <1>3, <2>2
      <3> QED
        BY <1>2, <1>4, <3>1 DEF IInv, ReadingInv, Written
    <2> QED
      BY <2>1, <2>2
  <1>5. ASSUME NEW e \in Editor, draft[e] # NoDraft, NEW p \in DOMAIN draft[e].legs,
               NEW q \in Run, candidate'[q] # NoPlan, p \in DOMAIN candidate'[q].shown
        PROVE  candidate'[q].owner = draft[e].tx
    <2>1. CASE q = r
      <3> DEFINE shown == [u \in PostingsOf(t) |-> postings[u].value]
      <3>1. candidate'[q] = [owner |-> t, shown |-> shown]
        BY <1>3, <2>1
      <3>2. DOMAIN shown = PostingsOf(t)
        OBVIOUS
      <3> HIDE DEF shown
      <3>3. candidate'[q].owner = t /\ p \in PostingsOf(t)
        BY <1>5, <3>1, <3>2
      <3> QED
        BY <1>5, <3>3 DEF IInv, DraftInv, PostingsOf, Written
    <2>2. CASE q # r
      <3>1. candidate'[q] = candidate[q]
        BY <1>3, <2>2
      <3>2. candidate[q] # NoPlan /\ p \in DOMAIN candidate[q].shown
        BY <1>5, <3>1
      <3>3. candidate[q].owner = draft[e].tx
        BY <1>5, <3>2 DEF IInv, DraftInv
      <3> QED
        BY <3>1, <3>3
    <2> QED
      BY <2>1, <2>2
  <1>6. DraftInv'
    BY <1>2, <1>5 DEF DraftInv, IInv, Written
  <1> QED
    BY <1>2, <1>4, <1>6 DEF ReadingInv, IInv, Written

\* What nothing vouches for among the postings shown is nobody's but the user's.
LEMMA CorroborateKeepsReadings ==
    ASSUME IInv, NEW r \in Run, Corroborate(r)
    PROVE  ReadingInv' /\ DraftInv'
  <1> DEFINE c == candidate[r]
             mine == {q \in DOMAIN c.shown : Provenance(c.owner, q) = {}}
  <1>1. c \in Candidate /\ c # NoPlan
    BY DEF Corroborate, IInv, RunInv, RunTypes
  <1>2. postings' = postings /\ candidate' = [candidate EXCEPT ![r] = NoPlan]
    BY DEF Corroborate, ledger
  <1>3. PICK leg \in Explanations(r, c) :
          plan' = [plan EXCEPT ![r] = [owner |-> c.owner, adopt |-> [p \in mine |-> leg[p]],
                                       insert |-> Unstored(r) \ {leg[p] : p \in DOMAIN c.shown}]]
    BY DEF Corroborate
  <1>4. \A p \in mine : Written(p) => postings[p].from \notin Slot
    <2> SUFFICES ASSUME NEW p \in mine, Written(p), postings[p].from \in Slot PROVE FALSE
      OBVIOUS
    <2>1. p \in Posting /\ postings[p].tx = c.owner
      BY <1>1 DEF Candidate, IInv, ReadingInv
    <2>2. postings[p].from \in Held /\ refs[postings[p].from].posting = p
      BY <2>1 DEF IInv, LedgerInv, ImportedKeepProvenance
    <2>3. refs[postings[p].from].live /\ refs[postings[p].from].tx = c.owner
      BY <2>1, <2>2, LedgerAssumption DEF IInv, LedgerInv, ReferencesPointHome
    <2>4. postings[p].from \in Provenance(c.owner, p)
      BY <2>2, <2>3 DEF Provenance, RefsOn
    <2> QED
      BY <2>4
  <1>5. ASSUME NEW q \in Run, plan'[q] # NoPlan, NEW p \in DOMAIN plan'[q].adopt, Written(p)'
        PROVE  postings'[p].from \notin Slot
    <2>1. Written(p)
      BY <1>2, <1>5 DEF Written
    <2>2. CASE q = r
      <3>1. plan'[q].adopt = [u \in mine |-> leg[u]]
        BY <1>3, <2>2 DEF IInv, RunInv, RunTypes
      <3> QED
        BY <1>2, <1>4, <1>5, <2>1, <3>1
    <2>3. CASE q # r
      <3>1. plan'[q] = plan[q]
        BY <1>3, <2>3 DEF IInv, RunInv, RunTypes
      <3> QED
        BY <1>2, <1>5, <2>1, <3>1 DEF IInv, ReadingInv
    <2> QED
      BY <2>2, <2>3
  <1>6. \A q \in Run : candidate'[q] \in {candidate[q], NoPlan}
    BY <1>2 DEF IInv, RunInv, RunTypes
  <1>7. DraftInv'
    <2>1. draft' = draft /\ \A p \in Posting \ FreshPosting : Persists(p)
      BY <1>2 DEF Corroborate, Persists, Written
    <2> QED
      BY <1>6, <2>1, DraftsStand
  <1> QED
    BY <1>2, <1>5, <1>6, <1>7 DEF ReadingInv, IInv, Written

-----------------------------------------------------------------------------
(* The steps.                                                              *)

\* A step that writes nothing, and whose reading, if it changes any, it drops.
LEMMA QuietStep ==
    ASSUME IInv, UNCHANGED ledger, RunInv',
           \A r \in Run : /\ candidate'[r] \in {candidate[r], NoPlan}
                          /\ plan'[r] \in {plan[r], NoPlan},
           \A e \in Editor : draft'[e] \in {draft[e], NoDraft}
    PROVE  IInv'
  <1>1. \A p \in Posting \ FreshPosting : Persists(p)
    BY DEF ledger, Persists, Written
  <1>2. ReadingInv' /\ DraftInv'
    BY <1>1, ReadingsStand, DraftsStand
  <1>3. LedgerInv'
    BY SameLedger DEF IInv
  <1> QED
    BY <1>2, <1>3 DEF IInv

LEMMA DropsReading ==
    ASSUME RunInv, NEW r \in Run, NEW how, NextRow(r) \/ EndRun(r, how)
    PROVE  /\ \A q \in Run : /\ candidate'[q] \in {candidate[q], NoPlan}
                             /\ plan'[q] \in {plan[q], NoPlan}
           /\ draft' = draft
  BY DEF NextRow, EndRun, RunInv, RunTypes

LEMMA NextRowQuiet ==
    ASSUME IInv, NEW r \in Run, todo[r] # <<>>, NextRow(r), UNCHANGED ledger
    PROVE  IInv'
  <1>1. RunInv /\ RunInv'
    BY NextRowKeepsRuns DEF IInv
  <1> QED
    BY <1>1, DropsReading, QuietStep

LEMMA EndRunQuiet ==
    ASSUME IInv, NEW r \in Run, NEW how \in Phase, EndRun(r, how)
    PROVE  IInv'
  <1>1. RunInv /\ RunInv'
    BY EndRunKeepsRuns DEF IInv
  <1>2. UNCHANGED ledger
    BY DEF EndRun, ledger
  <1> QED
    BY <1>1, <1>2, DropsReading, QuietStep

LEMMA CreateRowKeepsIInv ==
    ASSUME IInv, NEW r \in Run, NEW t \in FreshTx, AtRow(r),
           NEW post \in NewIds(Legs(r)), CreateRow(r, t, post)
    PROVE  IInv'
  <1>1. RunInv /\ LedgerInv /\ LedgerTypes
    BY DEF IInv, LedgerInv
  <1>2. NextRow(r) /\ todo[r] # <<>> /\ InsertPostings(Legs(r), post, t)
    BY DEF AtRow, CreateRow, InsertTransaction
  <1>3. RunInv'
    BY <1>1, <1>2, NextRowKeepsRuns
  <1>4. LedgerInv'
    BY <1>1, CreateRowKeepsLedger
  <1>5. Legs(r) \in SUBSET Slot /\ t \in Tx
    BY <1>1 DEF AtRow, Legs, RunInv, RunTypes, FreshTx
  <1>6. \A p \in Posting \ FreshPosting : Persists(p)
    BY <1>1, <1>2, <1>5, InsertedPersist
  <1>7. ReadingInv' /\ DraftInv'
    BY <1>1, <1>2, <1>6, DropsReading, ReadingsStand, DraftsStand
  <1> QED
    BY <1>3, <1>4, <1>7 DEF IInv

LEMMA AttachRowKeepsIInv ==
    ASSUME IInv, NEW r \in Run, Attaching(r),
           NEW post \in NewIds(plan[r].insert), AttachRow(r, post)
    PROVE  IInv'
  <1>1. RunInv /\ LedgerInv /\ LedgerTypes
    BY DEF IInv, LedgerInv
  <1>2. NextRow(r) /\ todo[r] # <<>> /\ InsertPostings(plan[r].insert, post, plan[r].owner)
    BY <1>1 DEF Attaching, AttachRow, RunInv, PendingHasRow
  <1>3. RunInv'
    BY <1>1, <1>2, NextRowKeepsRuns
  <1>4. LedgerInv'
    BY AttachRowKeepsLedger
  <1>5. plan[r].insert \in SUBSET Slot /\ plan[r].owner \in Tx
    BY <1>1 DEF Attaching, Plan, RunInv, RunTypes
  <1>6. \A p \in Posting \ FreshPosting : Persists(p)
    BY <1>1, <1>2, <1>5, InsertedPersist
  <1>7. ReadingInv' /\ DraftInv'
    BY <1>1, <1>2, <1>6, DropsReading, ReadingsStand, DraftsStand
  <1> QED
    BY <1>3, <1>4, <1>7 DEF IInv

LEMMA RunStepKeepsIInv ==
    ASSUME IInv, NEW r \in Run, RunStep(r)
    PROVE  IInv'
  <1> USE DEF IInv
  <1>1. LedgerTypes
    BY DEF LedgerInv
  <1>2. ASSUME NEW doc \in Documents, Begin(r, doc) PROVE IInv'
    <2>1. RunInv' /\ UNCHANGED ledger /\ candidate' = candidate /\ plan' = plan
          /\ draft' = draft
      BY <1>2, BeginKeepsRuns DEF Begin
    <2> QED
      BY <2>1, QuietStep
  <1>3. ASSUME NEW s \in Slot, ReadExisting(r, ValueOf[s][1]) PROVE IInv'
    <2>1. RunInv' /\ UNCHANGED ledger /\ candidate' = candidate /\ plan' = plan
          /\ draft' = draft
      BY <1>1, <1>3, ReadExistingKeepsRuns DEF ReadExisting
    <2> QED
      BY <2>1, QuietStep
  <1>4. ASSUME NEW t \in FreshTx, AtRow(r), NEW post \in NewIds(Legs(r)), CreateRow(r, t, post)
        PROVE  IInv'
    BY <1>4, CreateRowKeepsIInv
  <1>5. CASE ReadOwner(r)
    <2>1. RunInv' /\ UNCHANGED ledger
      BY <1>1, <1>5, ReadOwnerKeepsRuns DEF ReadOwner
    <2> QED
      BY <1>5, <2>1, SameLedger, ReadOwnerKeepsReadings
  <1>6. CASE Corroborate(r)
    <2>1. RunInv' /\ UNCHANGED ledger
      BY <1>6, CorroborateKeepsRuns DEF Corroborate
    <2> QED
      BY <1>6, <2>1, SameLedger, CorroborateKeepsReadings
  <1>7. CASE FailCorroboration(r)
    <2>1. todo[r] # <<>> /\ NextRow(r) /\ UNCHANGED ledger
      BY <1>7 DEF FailCorroboration, RunInv, PendingHasRow
    <2> QED
      BY <2>1, NextRowQuiet
  <1>8. ASSUME Attaching(r), NEW post \in NewIds(plan[r].insert), AttachRow(r, post)
        PROVE  IInv'
    BY <1>8, AttachRowKeepsIInv
  <1>9. CASE SkipRow(r)
    <2>1. todo[r] # <<>> /\ NextRow(r) /\ UNCHANGED ledger
      BY <1>9 DEF SkipRow, AtRow
    <2> QED
      BY <2>1, NextRowQuiet
  <1>10. CASE SkipAttach(r)
    <2>1. todo[r] # <<>> /\ NextRow(r) /\ UNCHANGED ledger
      BY <1>10 DEF SkipAttach, Attaching, RunInv, PendingHasRow
    <2> QED
      BY <2>1, NextRowQuiet
  <1>11. CASE AbortRun(r) \/ CloseBatch(r) \/ CrashRun(r)
    <2>1. PICK how \in Phase : EndRun(r, how)
      BY <1>11 DEF AbortRun, CloseBatch, CrashRun, Phase
    <2> QED
      BY <2>1, EndRunQuiet
  <1> QED
    BY <1>2, <1>3, <1>4, <1>5, <1>6, <1>7, <1>8, <1>9, <1>10, <1>11 DEF RunStep

LEMMA DiscardKeepsIInv ==
    ASSUME IInv, NEW r \in Run, Discard(r)
    PROVE  IInv'
  <1>1. RunInv'
    BY DEF IInv, Discard, RunInv, RunTypes, PendingHasRow
  <1>2. LedgerInv'
    BY DiscardKeepsLedger DEF IInv
  <1>3. \A p \in Posting \ FreshPosting : Persists(p)
    BY RemovedPersist DEF Discard
  <1>4. candidate' = candidate /\ plan' = plan /\ draft' = draft
    BY DEF Discard
  <1>5. ReadingInv' /\ DraftInv'
    BY <1>3, <1>4, ReadingsStand, DraftsStand
  <1> QED
    BY <1>1, <1>2, <1>5 DEF IInv

LEMMA UserStepKeepsLedger ==
    ASSUME IInv, UserStep
    PROVE  LedgerInv'
  <1> USE DEF IInv
  <1>1. CASE OpenAccounts
    BY <1>1, SameLedger DEF OpenAccounts
  <1>2. ASSUME NEW s \in Slot, ReleaseLeg(s) PROVE LedgerInv'
    <2>1. {s} \in SUBSET Held /\ FreeSlots({s}) /\ UNCHANGED postings
          /\ \A d \in {s} : refs[d].posting = NoPosting
      BY <1>2 DEF ReleaseLeg
    <2> QED
      BY <2>1, FreeSlotsKeepsLedger
  <1>3. ASSUME NEW e \in Editor, EditStep(e) PROVE LedgerInv'
    <2>1. CASE AbandonEdit(e) \/ \E t \in txs : ReadForEdit(e, t)
      BY <2>1, SameLedger DEF AbandonEdit, ReadForEdit
    <2> QED
      BY <1>3, <2>1, WriteEditKeepsLedger DEF EditStep
  <1> QED
    BY <1>1, <1>2, <1>3, AddLegKeepsLedger, RevalueKeepsLedger, DropLegKeepsLedger,
       DeleteKeepsLedger, ReleaseTransactionKeepsLedger, DetachKeepsLedger DEF UserStep

\* What an edit reads of a transaction is what is on it.
LEMMA ReadForEditKeepsDrafts ==
    ASSUME IInv, NEW e \in Editor, NEW t \in txs, ReadForEdit(e, t)
    PROVE  RunInv' /\ DraftInv'
  <1> USE DEF IInv
  <1> DEFINE legs == [p \in PostingsOf(t) |-> postings[p].value]
             mine == [tx |-> t, legs |-> legs]
  <1>1. postings' = postings /\ candidate' = candidate /\ draft' = [draft EXCEPT ![e] = mine]
    BY DEF ReadForEdit, ledger, runs
  <1>2. legs \in [PostingsOf(t) -> Value] /\ PostingsOf(t) \in SUBSET Posting
    BY DEF PostingsOf, LedgerInv, LedgerTypes, PostingRow
  <1>3. mine \in Draft
    BY <1>2 DEF Draft, LedgerInv, LedgerTypes
  <1>4. RunInv'
    BY <1>1, <1>3 DEF ReadForEdit, runs, RunInv, RunTypes, PendingHasRow
  <1>5. mine.tx = t /\ DOMAIN mine.legs = PostingsOf(t)
    OBVIOUS
  <1>6. \A f \in Editor : draft'[f] = IF f = e THEN mine ELSE draft[f]
    BY <1>1 DEF RunInv, RunTypes
  <1> HIDE DEF mine
  <1> SUFFICES ASSUME NEW f \in Editor, draft'[f] # NoDraft, NEW p \in DOMAIN draft'[f].legs
               PROVE  /\ Written(p)' => postings'[p].tx = draft'[f].tx
                      /\ \A g \in Editor : draft'[g] # NoDraft /\ p \in DOMAIN draft'[g].legs =>
                            draft'[g].tx = draft'[f].tx
                      /\ \A r \in Run : candidate'[r] # NoPlan /\ p \in DOMAIN candidate'[r].shown =>
                            candidate'[r].owner = draft'[f].tx
    BY <1>4 DEF DraftInv
  \* Read by another before, it is of the same transaction if it is still there.
  <1>7. ASSUME NEW g \in Editor, draft[g] # NoDraft, NEW q \in DOMAIN draft[g].legs,
               q \in PostingsOf(t)
        PROVE  draft[g].tx = t
    BY <1>7 DEF DraftInv, PostingsOf, Written
  <1>8. ASSUME NEW r \in Run, candidate[r] # NoPlan, NEW q \in DOMAIN candidate[r].shown,
               q \in PostingsOf(t)
        PROVE  candidate[r].owner = t
    BY <1>8 DEF ReadingInv, PostingsOf, Written
  <1>9. CASE f = e
    <2>1. draft'[f].tx = t /\ p \in PostingsOf(t)
      BY <1>5, <1>6, <1>9
    <2> QED
      BY <1>1, <1>5, <1>6, <1>7, <1>8, <2>1 DEF PostingsOf
  <1>10. CASE f # e
    BY <1>1, <1>5, <1>6, <1>7, <1>10 DEF DraftInv, Written
  <1> QED
    BY <1>9, <1>10

LEMMA UserStepDrafts ==
    ASSUME UserStep
    PROVE  /\ reachable' \in {reachable, Slot} /\ UNCHANGED runs
           /\ \/ \E e \in Editor, t \in txs : ReadForEdit(e, t)
              \/ \E e \in Editor : draft' = [draft EXCEPT ![e] = NoDraft]
              \/ draft' = draft
  <1>1. ASSUME NEW e \in Editor, EditStep(e)
        PROVE  /\ UNCHANGED <<reachable, runs>>
               /\ \/ \E t \in txs : ReadForEdit(e, t)
                  \/ draft' = [draft EXCEPT ![e] = NoDraft]
    BY <1>1 DEF EditStep, ReadForEdit, WriteEdit, AbandonEdit
  <1> QED
    BY <1>1 DEF UserStep, OpenAccounts, AddLeg, Revalue, DropLeg, DeleteTransaction, ReleaseLeg,
                ReleaseTransaction, Detach, FreeSlots, Others

LEMMA UserStepKeepsIInv ==
    ASSUME IInv, UserStep
    PROVE  IInv'
  <1>1. /\ reachable' \in {reachable, Slot} /\ UNCHANGED runs
        /\ \/ \E e \in Editor, t \in txs : ReadForEdit(e, t)
           \/ \E e \in Editor : draft' = [draft EXCEPT ![e] = NoDraft]
           \/ draft' = draft
    BY UserStepDrafts
  <1>2. LedgerInv'
    BY UserStepKeepsLedger
  <1>3. \A p \in Posting \ FreshPosting : Persists(p)
    BY UserStepPersists
  <1>4. ReadingInv'
    <2>1. candidate' = candidate /\ plan' = plan
      BY <1>1 DEF runs
    <2> QED
      BY <1>3, <2>1, ReadingsStand
  <1>5. CASE \E e \in Editor, t \in txs : ReadForEdit(e, t)
    BY <1>2, <1>4, <1>5, ReadForEditKeepsDrafts DEF IInv
  <1>6. CASE draft' = draft \/ \E e \in Editor : draft' = [draft EXCEPT ![e] = NoDraft]
    <2>1. draft' \in [Editor -> Draft \cup {NoDraft}]
      BY <1>6 DEF IInv, RunInv, RunTypes
    <2>2. RunInv'
      BY <1>1, <2>1 DEF IInv, runs, RunInv, RunTypes, PendingHasRow
    <2>4. /\ \A e \in Editor : draft'[e] \in {draft[e], NoDraft}
          /\ candidate' = candidate
      BY <1>1, <1>6 DEF runs, IInv, RunInv, RunTypes
    <2>3. DraftInv'
      BY <1>3, <2>4, DraftsStand
    <2> QED
      BY <1>2, <1>4, <2>2, <2>3 DEF IInv
  <1> QED
    BY <1>1, <1>5, <1>6

LEMMA InitIInv == Init => IInv
  <1> SUFFICES ASSUME Init PROVE IInv
    OBVIOUS
  <1>1. RunTypes
    BY LedgerAssumption DEF Init, RunTypes, Phase
  <1>2. PendingHasRow /\ ReadingInv /\ DraftInv
    BY DEF Init, PendingHasRow, ReadingInv, DraftInv
  <1>3. LedgerInv
    BY DEF Init, LedgerInv, LedgerTypes, ImportedKeepProvenance, OwnedByOrigin, OwnsOrigin,
           ReferencesPointHome, NoEmptyTransaction, Written, Held
  <1> QED
    BY <1>1, <1>2, <1>3 DEF IInv, RunInv

LEMMA StepKeepsIInv == IInv /\ [Next]_vars => IInv'
  <1> SUFFICES ASSUME IInv, [Next]_vars PROVE IInv'
    OBVIOUS
  <1>1. CASE UNCHANGED vars
    <2>1. UNCHANGED ledger /\ candidate' = candidate /\ plan' = plan /\ draft' = draft
      BY <1>1 DEF vars, runs, ledger
    <2>2. RunInv'
      BY <1>1 DEF IInv, vars, runs, RunInv, RunTypes, PendingHasRow
    <2> QED
      BY <2>1, <2>2, QuietStep
  <1>2. CASE Next
    BY <1>2, RunStepKeepsIInv, DiscardKeepsIInv, UserStepKeepsIInv DEF Next
  <1> QED
    BY <1>1, <1>2

-----------------------------------------------------------------------------
(* The theorems.                                                           *)

\* Whatever runs, edits, discards and crashes come between each other, the
\* inductive invariant holds.
THEOREM LedgerInvariant == Spec => []IInv
  BY InitIInv, StepKeepsIInv, PTL DEF Spec

\* Every variable keeps its type (the rows of the tables, what a run holds).
THEOREM LedgerTypeCorrect == Spec => []TypeOK
  <1>1. IInv => TypeOK
    BY TypesSplit DEF IInv, RunInv, LedgerInv
  <1> QED
    BY <1>1, LedgerInvariant, PTL

\* No imported posting is ever without the reference that keeps the next import
\* from booking its leg again (transaction_sources and its unique index).
THEOREM ProvenanceKept == Spec => []ImportedKeepProvenance
  <1>1. IInv => ImportedKeepProvenance
    BY DEF IInv, LedgerInv
  <1> QED
    BY <1>1, LedgerInvariant, PTL

\* A reference is on the transaction its posting is on, or a tombstone of it
\* (delete_in_tx, discard and detach leave no reference dangling).
THEOREM ReferencesHome == Spec => []ReferencesPointHome
  <1>1. IInv => ReferencesPointHome
    BY DEF IInv, LedgerInv
  <1> QED
    BY <1>1, LedgerInvariant, PTL

\* No transaction is left without a posting, by an edit, a deletion or the sweep
\* of a discard, and no posting without its transaction.
THEOREM TransactionsNonEmpty == Spec => []NoEmptyTransaction
  <1>1. IInv => NoEmptyTransaction
    BY DEF IInv, LedgerInv
  <1> QED
    BY <1>1, LedgerInvariant, PTL

-----------------------------------------------------------------------------
(* What the user wrote, and what a discard reaches.                        *)

LEMMA WritesLeaveHand ==
    ASSUME IInv, NEW r \in Run, RunStep(r), NEW p \in Posting, Written(p)
    PROVE  postings'[p] = postings[p]
  <1> USE DEF IInv
  <1>1. p \notin FreshPosting
    BY DEF Written, FreshPosting
  <1>2. ASSUME NEW S \in SUBSET Slot, NEW post \in NewIds(S), NEW t \in Tx,
               InsertPostings(S, post, t)
        PROVE  postings'[p] = postings[p]
    <2>1. \A s \in S : post[s] # p
      BY <1>1 DEF NewIds
    <2> QED
      BY <1>2, <2>1, InsertedPostings DEF LedgerInv
  <1>3. ASSUME NEW t \in FreshTx, AtRow(r), NEW post \in NewIds(Legs(r)), CreateRow(r, t, post)
        PROVE  postings'[p] = postings[p]
    <2>1. Legs(r) \in SUBSET Slot /\ t \in Tx
      BY <1>3 DEF AtRow, Legs, RunInv, RunTypes, FreshTx
    <2> QED
      BY <1>2, <1>3, <2>1 DEF CreateRow, InsertTransaction
  <1>4. ASSUME Attaching(r), NEW post \in NewIds(plan[r].insert), AttachRow(r, post)
        PROVE  postings'[p] = postings[p]
    <2>1. plan[r].insert \in SUBSET Slot /\ plan[r].owner \in Tx
      BY <1>4 DEF Attaching, Plan, RunInv, RunTypes
    <2> QED
      BY <1>2, <1>4, <2>1 DEF AttachRow
  <1>5. CASE UNCHANGED ledger
    BY <1>5 DEF ledger
  <1> QED
    BY <1>3, <1>4, <1>5
       DEF RunStep, Begin, ReadExisting, ReadOwner, Corroborate, FailCorroboration, SkipRow,
           SkipAttach, AbortRun, CloseBatch, CrashRun, EndRun

LEMMA DiscardLeavesHand ==
    ASSUME IInv, NEW r \in Run, Discard(r), NEW p \in Posting, Written(p),
           postings[p].from \notin Slot
    PROVE  postings'[p] = postings[p]
  <1>1. ASSUME NEW s \in OwnedLegs(r) PROVE refs[s].posting # p
    <2>1. s \in Held /\ refs[s].owns /\ refs[s].posting # NoPosting
      BY DEF OwnedLegs, WrittenBy
    <2>2. s \in Slot /\ postings[refs[s].posting].from = s
      BY <2>1 DEF IInv, LedgerInv, OwnsOrigin, Held
    <2> QED
      BY <2>2
  <1> QED
    BY <1>1 DEF Discard, Without

\* What the user wrote, adopted by a run or not, no run overwrites and no discard
\* deletes (owns_posting in transaction_sources).
THEOREM HandEntriesSafe == Spec => HandEntriesStand
  <1>1. IInv /\ [Next]_vars =>
          [(discarded' # discarded \/ todo' # todo) =>
             \A p \in Posting : Written(p) /\ postings[p].from \notin Slot =>
               postings'[p] = postings[p]]_vars
    <2> SUFFICES ASSUME IInv, Next, discarded' # discarded \/ todo' # todo,
                        NEW p \in Posting, Written(p), postings[p].from \notin Slot
                 PROVE  postings'[p] = postings[p]
      OBVIOUS
    <2>1. ASSUME UserStep PROVE UNCHANGED <<discarded, todo>>
      BY <2>1, UserStepDrafts DEF runs
    <2> QED
      BY <2>1, WritesLeaveHand, DiscardLeavesHand DEF Next
  <1> QED
    BY <1>1, LedgerInvariant, PTL DEF Spec, HandEntriesStand

\* A reference comes with the batch of the run that is writing it.
LEMMA OnlyWritersStamp ==
    ASSUME IInv, Next, NEW r \in Run
    PROVE  WrittenBy(r)' \subseteq WrittenBy(r) \/ phase'[r] = "writing"
  <1> USE DEF IInv
  <1>1. ASSUME NEW q \in Run, RunStep(q)
        PROVE  WrittenBy(r)' \subseteq WrittenBy(r) \/ phase'[r] = "writing"
    <2>1. ASSUME NEW t \in FreshTx, AtRow(q), NEW post \in NewIds(Legs(q)), CreateRow(q, t, post)
          PROVE  WrittenBy(r)' \subseteq WrittenBy(r) \/ phase'[r] = "writing"
      <3>1. phase'[q] = "writing"
        BY <2>1 DEF AtRow, CreateRow, InsertTransaction, NextRow
      <3>2. \A s \in Slot : refs'[s] = refs[s] \/ refs'[s].batch = q
        BY <2>1 DEF CreateRow, InsertTransaction
      <3> QED
        BY <3>1, <3>2 DEF WrittenBy, Held
    <2>2. ASSUME Attaching(q), NEW post \in NewIds(plan[q].insert), AttachRow(q, post)
          PROVE  WrittenBy(r)' \subseteq WrittenBy(r) \/ phase'[r] = "writing"
      <3>1. phase'[q] = "writing"
        BY <2>2 DEF Attaching, AttachRow, NextRow
      <3>2. \A s \in Slot : refs'[s] = refs[s] \/ refs'[s].batch = q
        BY <2>2 DEF AttachRow
      <3> QED
        BY <3>1, <3>2 DEF WrittenBy, Held
    <2>3. CASE UNCHANGED ledger
      BY <2>3 DEF ledger, WrittenBy, Held
    <2> QED
      BY <1>1, <2>1, <2>2, <2>3
         DEF RunStep, Begin, ReadExisting, ReadOwner, Corroborate, FailCorroboration, SkipRow,
             SkipAttach, AbortRun, CloseBatch, CrashRun, EndRun
  <1>2. ASSUME \A s \in Held' : s \in Held /\ refs'[s].batch = refs[s].batch
        PROVE  WrittenBy(r)' \subseteq WrittenBy(r)
    BY <1>2 DEF WrittenBy
  <1>3. ASSUME NEW G, NEW s \in Held PROVE Untie(G, s).batch = refs[s].batch
    <2>1. refs[s] \in Ref
      BY DEF LedgerInv, LedgerTypes, Held
    <2> QED
      BY <2>1 DEF Untie, Ref
  <1>4. ASSUME NEW q \in Run, Discard(q)
        PROVE  \A s \in Held' : s \in Held /\ refs'[s].batch = refs[s].batch
    BY <1>3, <1>4 DEF Discard, Held, Untie
  <1>5. ASSUME UserStep PROVE \A s \in Held' : s \in Held /\ refs'[s].batch = refs[s].batch
    <2>1. ASSUME NEW p \in Posting, DropLeg(p)
          PROVE  \A s \in Held' : s \in Held /\ refs'[s].batch = refs[s].batch
      BY <1>3, <2>1 DEF DropLeg, Held, Untie
    <2>2. ASSUME NEW t \in txs, NEW keep \in BOOLEAN, DeleteTransaction(t, keep)
          PROVE  \A s \in Held' : s \in Held /\ refs'[s].batch = refs[s].batch
      <3> SUFFICES ASSUME NEW s \in Held' PROVE s \in Held /\ refs'[s].batch = refs[s].batch
        OBVIOUS
      <3>1. CASE s \notin RefsOn(t)
        BY <2>2, <3>1 DEF DeleteTransaction, Held
      <3>2. CASE s \in RefsOn(t)
        <4>1. s \in Held /\ refs[s] \in Ref
          BY <3>2 DEF RefsOn, Held, LedgerInv, LedgerTypes
        <4>2. refs'[s] = [refs[s] EXCEPT !.live = FALSE, !.posting = NoPosting]
          BY <2>2, <3>2 DEF DeleteTransaction, Held
        <4> QED
          BY <4>1, <4>2 DEF Ref
      <3> QED
        BY <3>1, <3>2
    <2>3. ASSUME NEW S, FreeSlots(S)
          PROVE  \A s \in Held' : s \in Held /\ refs'[s].batch = refs[s].batch
      BY <2>3 DEF FreeSlots, Held
    <2>4. ASSUME refs' = refs
          PROVE  \A s \in Held' : s \in Held /\ refs'[s].batch = refs[s].batch
      BY <2>4 DEF Held
    <2>5. ASSUME NEW e \in Editor, EditStep(e)
          PROVE  \A s \in Held' : s \in Held /\ refs'[s].batch = refs[s].batch
      <3>1. ASSUME NEW legs, WriteEdit(e, legs)
            PROVE  \A s \in Held' : s \in Held /\ refs'[s].batch = refs[s].batch
        BY <1>3, <3>1 DEF WriteEdit, Held, Untie
      <3> QED
        BY <2>4, <2>5, <3>1 DEF EditStep, ReadForEdit, AbandonEdit, ledger
    <2> QED
      BY <1>5, <2>1, <2>2, <2>3, <2>4, <2>5
         DEF UserStep, OpenAccounts, ledger, AddLeg, Revalue, ReleaseLeg, ReleaseTransaction, Detach
  <1> QED
    BY <1>1, <1>2, <1>4, <1>5 DEF Next

\* A run closes its batch only while nobody has discarded it.
LEMMA ClosesUndiscarded ==
    ASSUME IInv, Next, NEW r \in Run, phase'[r] = "closed"
    PROVE  phase[r] = "closed" \/ r \notin discarded'
  <1> USE DEF IInv, RunInv, RunTypes
  <1>1. ASSUME NEW q \in Run, RunStep(q) PROVE phase[r] = "closed" \/ r \notin discarded'
    <2>1. ASSUME NEW how, EndRun(q, how), how = "closed" => MayClose(q)
          PROVE  phase[r] = "closed" \/ r \notin discarded'
      BY <2>1 DEF EndRun, MayClose
    <2>2. CASE AbortRun(q) \/ CrashRun(q)
      BY <2>2, <2>1 DEF AbortRun, CrashRun
    <2>3. CASE CloseBatch(q)
      BY <2>3, <2>1 DEF CloseBatch
    <2>4. CASE phase' = phase
      BY <2>4
    <2>5. ASSUME NEW doc \in Documents, Begin(q, doc) PROVE phase[r] = "closed"
      BY <2>5 DEF Begin
    <2>6. ASSUME NEW s \in Slot, ReadExisting(q, ValueOf[s][1]) PROVE phase[r] = "closed"
      BY <2>6 DEF ReadExisting
    <2> QED
      BY <1>1, <2>2, <2>3, <2>4, <2>5, <2>6
         DEF RunStep, CreateRow, InsertTransaction, ReadOwner, Corroborate, FailCorroboration,
             AttachRow, SkipRow, SkipAttach, NextRow
  <1>2. ASSUME UserStep \/ \E q \in Run : Discard(q) PROVE phase' = phase
    BY <1>2, UserStepDrafts DEF runs, Discard
  <1> QED
    BY <1>1, <1>2 DEF Next

\* A discard of a batch whose run then closes leaves nothing behind that only
\* another discard of it could reach.
THEOREM DiscardComplete == Spec => []DiscardReachesAll
  <1>1. Init => DiscardReachesAll
    BY DEF Init, DiscardReachesAll
  <1>2. IInv /\ DiscardReachesAll /\ [Next]_vars => DiscardReachesAll'
    <2> SUFFICES ASSUME IInv, DiscardReachesAll, [Next]_vars,
                        NEW r \in discarded', phase'[r] = "closed"
                 PROVE  WrittenBy(r)' = {}
      BY DEF DiscardReachesAll
    <2>1. CASE UNCHANGED vars
      BY <2>1 DEF vars, runs, ledger, DiscardReachesAll, WrittenBy, Held
    <2>2. CASE Next
      <3>1. r \in Run
        BY <2>2, StepKeepsIInv DEF IInv, RunInv, RunTypes
      <3>2. phase[r] = "closed" /\ WrittenBy(r)' \subseteq WrittenBy(r)
        BY <2>2, <3>1, ClosesUndiscarded, OnlyWritersStamp
      <3>3. CASE r \in discarded
        BY <3>2, <3>3 DEF DiscardReachesAll
      <3>4. CASE r \notin discarded
        <4>1. Discard(r)
          <5>1. ~UserStep
            BY <3>4, UserStepDrafts DEF runs
          <5> QED
            BY <2>2, <3>4, <5>1
               DEF Next, RunStep, Begin, ReadExisting, CreateRow, InsertTransaction, ReadOwner,
                   Corroborate, FailCorroboration, AttachRow, SkipRow, SkipAttach, AbortRun,
                   CloseBatch, CrashRun, EndRun, NextRow, Discard
        <4>2. \A s \in WrittenBy(r) : s \in Slot /\ refs'[s] = NoRef
          BY <4>1 DEF Discard, WrittenBy, Held
        <4>3. \A s \in WrittenBy(r)' : refs'[s] # NoRef
          BY DEF WrittenBy, Held
        <4> QED
          BY <3>2, <4>2, <4>3
      <3> QED
        BY <3>3, <3>4
    <2> QED
      BY <2>1, <2>2
  <1> QED
    BY <1>1, <1>2, LedgerInvariant, PTL DEF Spec

=============================================================================
