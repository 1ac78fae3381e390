---------------------------- MODULE ImportLedger ----------------------------
(***************************************************************************)
(* Import runs writing to a ledger that a user edits at the same time      *)
(* (import_exec.rs, source.rs, transaction.rs, import/batch.rs,            *)
(* import/discard.rs of bc-core).                                          *)
(*                                                                         *)
(* A document is a sequence of rows; a row's legs each name a slot, the    *)
(* (account, fingerprint, occurrence) under which a source reference       *)
(* records that the leg was imported.  A run resolves its rows against the *)
(* accounts, reads once, account by account, what holds every slot, and    *)
(* then decides row by row from that reading: each row it writes is one    *)
(* SQLite transaction, and the unique index on the slot is what a stale    *)
(* reading runs into.  Two runs, the user's edits and deletions, a discard *)
(* and a crash may come between any two steps.                             *)
(*                                                                         *)
(* Ids are never reused by the code.  Here an id that nothing names any    *)
(* more may be, which no step can tell from a new one.                     *)
(***************************************************************************)
EXTENDS Naturals, Sequences, FiniteSets

CONSTANTS
    Tx, Posting,    \* transaction and posting ids
    NoPosting,      \* no posting: a posting id unused, or a reference's tombstone
    Slot,           \* slots of the legs that documents name
    NoRef,          \* nothing holds the slot
    Value,          \* <<account, amount>> pairs a posting may carry
    ValueOf,        \* ValueOf[s]: the pair the document states for slot s
    Documents,      \* documents: sequences of sets of slots
    Early,          \* the slots whose account exists from the start
    MaxRuns,        \* bound: import runs ever started
    AtOnce,         \* bound: runs in flight together
    Editor,         \* command-line edits that may be open together
    Hand,           \* the origin of a posting the user wrote
    Stray,          \* the origin of one that a command-line edit has put back
    Free, Rejected, \* what a reading may find at a slot, instead of a transaction
    Unread,         \* a planned leg's slot, in a reading that has yet to reach it
    NoPlan,         \* a run that has read or decided nothing for its row yet
    NoDraft         \* an editor with no edit open

ASSUME LedgerAssumption ==
    /\ MaxRuns \in Nat /\ AtOnce \in Nat
    /\ ValueOf \in [Slot -> Value]
    /\ Documents \subseteq Seq(SUBSET Slot)
    /\ \A doc \in Documents : \A i, j \in DOMAIN doc : i # j => doc[i] \cap doc[j] = {}
    /\ Early \subseteq Slot
    /\ NoPosting \notin Posting /\ {Hand, Stray} \cap Slot = {}
    /\ Free \notin Tx /\ Rejected \notin Tx /\ Unread \notin Tx
    /\ Free # Rejected /\ Free # Unread /\ Rejected # Unread

VARIABLES
    txs,        \* the transactions that have a row
    postings,   \* postings[p]: its transaction, value and origin; NoPosting: no row
    refs,       \* refs[s]: the source reference holding slot s; NoRef: none
    reachable,  \* the slots whose account exists
    phase,      \* phase[r]: how far run r, and its process, have come
    discarded,  \* the batches discarded
    todo,       \* todo[r]: the planned legs of the rows run r has not settled
    seen,       \* seen[r][s]: what held slot s when run r read existing_legs
    candidate,  \* candidate[r]: the transaction attach has read for run r's row
    plan,       \* plan[r]: what run r decided to append to that transaction
    draft       \* draft[e]: the transaction as editor e has read it

ledger == <<txs, postings, refs>>
runs == <<phase, discarded, todo, seen, candidate, plan>>
vars == <<ledger, reachable, runs, draft>>

Run == 1 .. MaxRuns
Phase == {"idle", "begun", "writing", "closed", "aborted", "crashed"}

\* from records the slot whose leg a run inserted the posting for.
PostingRow == [tx : Tx, value : Value, from : Slot \cup {Hand, Stray}]

\* live: transaction_id names tx; otherwise deleted_transaction_id does.
Ref == [tx : Tx, live : BOOLEAN, posting : Posting \cup {NoPosting}, batch : Run,
        owns : BOOLEAN]

Candidate == [owner : Tx, shown : UNION {[S -> Value] : S \in SUBSET Posting}]

Plan == [owner : Tx, adopt : UNION {[S -> Slot] : S \in SUBSET Posting}, insert : SUBSET Slot]

Draft == [tx : Tx, legs : UNION {[S -> Value] : S \in SUBSET Posting}]

\* What stands for no row is no row.
ASSUME NullAssumption == NoPosting \notin PostingRow /\ NoRef \notin Ref /\ NoDraft \notin Draft

TypeOK ==
    /\ txs \subseteq Tx
    /\ postings \in [Posting -> PostingRow \cup {NoPosting}]
    /\ refs \in [Slot -> Ref \cup {NoRef}]
    /\ reachable \subseteq Slot
    /\ phase \in [Run -> Phase]
    /\ discarded \subseteq Run
    /\ todo \in [Run -> Seq(SUBSET Slot)]
    /\ seen \in [Run -> [Slot -> Tx \cup {Free, Rejected, Unread}]]
    /\ candidate \in [Run -> Candidate \cup {NoPlan}]
    /\ plan \in [Run -> Plan \cup {NoPlan}]
    /\ draft \in [Editor -> Draft \cup {NoDraft}]

-----------------------------------------------------------------------------
(* The ledger.                                                             *)

PostingsOf(t) == {p \in Posting : postings[p] # NoPosting /\ postings[p].tx = t}
Held == {s \in Slot : refs[s] # NoRef}
RefsOn(t) == {s \in Held : refs[s].live /\ refs[s].tx = t}

\* Ids nothing names: what TransactionId::new and PostingId::new may return.
FreshTx == {t \in Tx \ txs : /\ \A s \in Held : refs[s].tx # t
                             /\ \A r \in Run : /\ \A s \in Slot : seen[r][s] # t
                                               /\ candidate[r] # NoPlan => candidate[r].owner # t
                                               /\ plan[r] # NoPlan => plan[r].owner # t
                             /\ \A e \in Editor : draft[e] # NoDraft => draft[e].tx # t}
FreshPosting == {p \in Posting : /\ postings[p] = NoPosting
                                 /\ \A r \in Run :
                                      /\ candidate[r] # NoPlan => p \notin DOMAIN candidate[r].shown
                                      /\ plan[r] # NoPlan => p \notin DOMAIN plan[r].adopt
                                 /\ \A e \in Editor :
                                      draft[e] # NoDraft => p \notin DOMAIN draft[e].legs}

\* SlotHolder, reduced to what write_row asks of it: the transaction to extend
\* (Live and Tombstone), or that the user rejected the row.
Holder(s) ==
    CASE refs[s] = NoRef  -> Free
      [] refs[s] # NoRef /\ refs[s].live -> refs[s].tx
      [] OTHER -> Rejected

\* Deleting postings: a reference to one of them keeps its slot as a tombstone
\* (ON DELETE SET NULL).
UntieNothing(S, s) == refs[s]   \* slip: the reference still names the posting
Untie(S, s) == IF refs[s] # NoRef /\ refs[s].posting \in S
               THEN [refs[s] EXCEPT !.posting = NoPosting] ELSE refs[s]
Without(S) == [p \in Posting |-> IF p \in S THEN NoPosting ELSE postings[p]]

-----------------------------------------------------------------------------
Init ==
    /\ txs = {}
    /\ postings = [p \in Posting |-> NoPosting]
    /\ refs = [s \in Slot |-> NoRef]
    /\ reachable = Early
    /\ phase = [r \in Run |-> "idle"]
    /\ discarded = {}
    /\ todo = [r \in Run |-> <<>>]
    /\ seen = [r \in Run |-> [s \in Slot |-> Free]]
    /\ candidate = [r \in Run |-> NoPlan]
    /\ plan = [r \in Run |-> NoPlan]
    /\ draft = [e \in Editor |-> NoDraft]

-----------------------------------------------------------------------------
(* The run.                                                                *)

InFlight == {r \in Run : phase[r] \in {"begun", "writing"}}

\* slip: the legs already imported are dropped one by one, before the rows are read
BeginUnimported(r, doc) ==
    /\ phase[r] = "idle" /\ \A q \in 1 .. r - 1 : phase[q] # "idle"
    /\ Cardinality(InFlight) < AtOnce
    /\ phase' = [phase EXCEPT ![r] = "writing"]
    /\ todo' = [todo EXCEPT ![r] = [i \in DOMAIN doc |-> (doc[i] \cap reachable) \ Held]]
    /\ UNCHANGED <<ledger, reachable, discarded, seen, candidate, plan, draft>>

\* A run loads the account resolver, drops the legs whose account is missing,
\* and opens its batch.  Runs are numbered in the order they start.
Begin(r, doc) ==
    LET planned == UNION {doc[i] \cap reachable : i \in DOMAIN doc}
    IN  /\ phase[r] = "idle" /\ \A q \in 1 .. r - 1 : phase[q] # "idle"
        /\ Cardinality(InFlight) < AtOnce
        /\ phase' = [phase EXCEPT ![r] = IF planned = {} THEN "writing" ELSE "begun"]
        /\ todo' = [todo EXCEPT ![r] = [i \in DOMAIN doc |-> doc[i] \cap reachable]]
        /\ seen' = [seen EXCEPT ![r] = [s \in Slot |-> IF s \in planned THEN Unread ELSE Free]]
        /\ UNCHANGED <<ledger, reachable, discarded, candidate, plan, draft>>

\* existing_legs: one query for each account the legs touch, once for the run.
OnAccount(a) == {s \in Slot : ValueOf[s][1] = a}

ReadExisting(r, a) ==
    LET unread == {s \in Slot : seen[r][s] = Unread}
    IN  /\ phase[r] = "begun" /\ unread \cap OnAccount(a) # {}
        /\ phase' = [phase EXCEPT ![r] = IF unread \subseteq OnAccount(a) THEN "writing" ELSE "begun"]
        /\ seen' = [seen EXCEPT ![r] = [s \in Slot |->
                        IF s \in unread \cap OnAccount(a) THEN Holder(s) ELSE seen[r][s]]]
        /\ UNCHANGED <<ledger, reachable, discarded, todo, candidate, plan, draft>>

\* The row run r is at, and what write_row makes of it from its reading.
AtRow(r) ==
    /\ phase[r] = "writing" /\ todo[r] # <<>>
    /\ candidate[r] = NoPlan /\ plan[r] = NoPlan
Legs(r) == Head(todo[r])
RowRejected(r) == \E s \in Legs(r) : seen[r][s] = Rejected
Owners(r) == {seen[r][s] : s \in Legs(r)} \ {Free, Rejected}
Unstored(r) == {s \in Legs(r) : seen[r][s] = Free}

NextRow(r) ==
    /\ todo' = [todo EXCEPT ![r] = Tail(todo[r])]
    /\ candidate' = [candidate EXCEPT ![r] = NoPlan]
    /\ plan' = [plan EXCEPT ![r] = NoPlan]
    /\ UNCHANGED <<reachable, phase, discarded, seen, draft>>

\* attach_in_tx: the unique index lets a reference in only at a free slot.
SlotsTrusted(S) == S \subseteq Slot   \* slip: no index, the reading is trusted
SlotsFree(S) == \A s \in S : refs[s] = NoRef

\* Postings for the legs of S, one each under the new ids post, in transaction t.
LegOf(S, post, p) == CHOOSE s \in S : post[s] = p

InsertBareAccounts(S, post, t) ==    \* slip: the amount is left out
    postings' = [p \in Posting |->
                   IF \E s \in S : post[s] = p
                   THEN [tx |-> t, value |-> <<ValueOf[LegOf(S, post, p)][1]>>,
                         from |-> LegOf(S, post, p)]
                   ELSE postings[p]]
InsertPostings(S, post, t) ==
    postings' = [p \in Posting |->
                   IF \E s \in S : post[s] = p
                   THEN [tx |-> t, value |-> ValueOf[LegOf(S, post, p)],
                         from |-> LegOf(S, post, p)]
                   ELSE postings[p]]

\* A new posting id for each leg of S.
NewIds(S) == {post \in [S -> FreshPosting] : \A s, d \in S : post[s] = post[d] => s = d}

\* A transaction for the legs L of the row, and their references.
InsertTransaction(r, t, post, L) ==
    /\ SlotsFree(L)
    /\ txs' = txs \cup {t}
    /\ InsertPostings(L, post, t)
    /\ refs' = [s \in Slot |->
                  IF s \in L THEN [tx |-> t, live |-> TRUE, posting |-> post[s],
                                   batch |-> r, owns |-> TRUE]
                  ELSE refs[s]]
    /\ NextRow(r)

\* Create, when no leg of the row is stored.
CreateFragment(r, t, post) ==    \* slip: whatever is not stored becomes a transaction
    AtRow(r) /\ Unstored(r) # {} /\ InsertTransaction(r, t, post, Unstored(r))
CreateRow(r, t, post) ==
    /\ AtRow(r) /\ Legs(r) # {} /\ ~RowRejected(r) /\ Owners(r) = {}
    /\ InsertTransaction(r, t, post, Legs(r))

\* attach reads the one owner of the row's stored legs (find_by_id), ...
ReadOwner(r) ==
    \E t \in txs :
        /\ AtRow(r) /\ ~RowRejected(r) /\ Owners(r) = {t} /\ Unstored(r) # {}
        /\ candidate' = [candidate EXCEPT ![r] =
                           [owner |-> t, shown |-> [p \in PostingsOf(t) |-> postings[p].value]]]
        /\ UNCHANGED <<ledger, reachable, phase, discarded, todo, seen, plan, draft>>

\* provenance_by_posting: the references that name p on transaction t.
Provenance(t, p) == {s \in RefsOn(t) : refs[s].posting = p}

\* corroborate: every posting the candidate c showed is explained, each by a leg
\* of its own: by its reference's slot, or, without one, by an unstored leg of
\* its value, which it then adopts.
Explains(r, c, leg) ==
    \A p \in DOMAIN c.shown :
        /\ \A q \in DOMAIN c.shown : leg[p] = leg[q] => p = q
        /\ IF Provenance(c.owner, p) # {} THEN leg[p] \in Provenance(c.owner, p)
           ELSE leg[p] \in Unstored(r) /\ ValueOf[leg[p]] = c.shown[p]

Explanations(r, c) == {leg \in [DOMAIN c.shown -> Legs(r)] : Explains(r, c, leg)}

\* ... then, in a reading of its own, what the owner's postings came from, and
\* decides what to adopt and what to insert; the write comes later still.
Corroborate(r) ==
    LET c == candidate[r]
    IN  /\ phase[r] = "writing" /\ c # NoPlan
        /\ \E leg \in Explanations(r, c) :
             plan' = [plan EXCEPT ![r] =
                        [owner |-> c.owner,
                         adopt |-> [p \in {q \in DOMAIN c.shown : Provenance(c.owner, q) = {}}
                                      |-> leg[p]],
                         insert |-> Unstored(r) \ {leg[p] : p \in DOMAIN c.shown}]]
        /\ candidate' = [candidate EXCEPT ![r] = NoPlan]
        /\ UNCHANGED <<ledger, reachable, phase, discarded, todo, seen, draft>>

\* A posting of the user's may take the leg that another posting's reference,
\* stored since the run's reading, names: which comes first decides.
Contested(r, c) ==
    \E p, q \in DOMAIN c.shown : \E s \in Provenance(c.owner, q) \cap Unstored(r) :
        Provenance(c.owner, p) = {} /\ ValueOf[s] = c.shown[p]

\* A posting of the owner is unexplained: the row is skipped.
FailCorroboration(r) ==
    /\ phase[r] = "writing" /\ candidate[r] # NoPlan
    /\ Explanations(r, candidate[r]) = {} \/ Contested(r, candidate[r])
    /\ NextRow(r)
    /\ UNCHANGED ledger

Attaching(r) == phase[r] = "writing" /\ plan[r] # NoPlan

Adopted(pl) == {pl.adopt[p] : p \in DOMAIN pl.adopt}

\* add_postings_in_tx found no posting to append to.
OwnerGone(pl) == pl.insert # {} /\ PostingsOf(pl.owner) = {}

\* attach_in_tx: an adopted posting is no longer the owner's, on that account.
AdoptionLost(pl) ==
    \E p \in DOMAIN pl.adopt :
        \/ postings[p] = NoPosting
        \/ postings[p] # NoPosting /\ (\/ postings[p].tx # pl.owner
                                       \/ postings[p].value[1] # ValueOf[pl.adopt[p]][1])

\* The write of what Corroborate decided: an adopted posting is not the run's.
OwnedWithAdopted(pl) == pl.insert \cup Adopted(pl)   \* slip: adopting is owning
Owned(pl) == pl.insert

AttachRow(r, post) ==
    LET pl == plan[r]
        poster == [s \in Adopted(pl) |-> CHOOSE p \in DOMAIN pl.adopt : pl.adopt[p] = s]
    IN  /\ Attaching(r)
        /\ ~OwnerGone(pl) /\ ~AdoptionLost(pl)
        /\ SlotsFree(pl.insert \cup Adopted(pl))
        /\ InsertPostings(pl.insert, post, pl.owner)
        /\ refs' = [s \in Slot |->
                      IF s \in pl.insert \cup Adopted(pl)
                      THEN [tx |-> pl.owner, live |-> TRUE, batch |-> r,
                            posting |-> IF s \in pl.insert THEN post[s] ELSE poster[s],
                            owns |-> s \in Owned(pl)]
                      ELSE refs[s]]
        /\ NextRow(r)
        /\ UNCHANGED txs

\* Nothing is written for the row: nothing resolved, the user rejected it, it
\* is imported already, its owners conflict, or a slot it would claim is
\* taken, which is row-local.
SkipRow(r) ==
    /\ AtRow(r)
    /\ \/ RowRejected(r)
       \/ Unstored(r) = {}
       \/ Cardinality(Owners(r)) > 1
       \/ Owners(r) = {} /\ ~SlotsFree(Legs(r))
    /\ NextRow(r)
    /\ UNCHANGED ledger

SkipAttach(r) ==
    /\ Attaching(r)
    /\ ~OwnerGone(plan[r])
    /\ ~SlotsFree(plan[r].insert \cup Adopted(plan[r]))
    /\ NextRow(r)
    /\ UNCHANGED ledger

EndRun(r, how) ==
    /\ phase' = [phase EXCEPT ![r] = how]
    /\ todo' = [todo EXCEPT ![r] = <<>>]
    /\ seen' = [seen EXCEPT ![r] = [s \in Slot |-> Free]]
    /\ candidate' = [candidate EXCEPT ![r] = NoPlan]
    /\ plan' = [plan EXCEPT ![r] = NoPlan]
    /\ UNCHANGED <<ledger, reachable, discarded, draft>>

\* find_by_id finds no owner, add_postings_in_tx no posting, attach_in_tx not
\* the posting it adopts: none of these is row-local, and the batch stays open.
AbortRun(r) ==
    /\ \/ /\ AtRow(r) /\ ~RowRejected(r) /\ Unstored(r) # {}
          /\ \E t \in Tx \ txs : Owners(r) = {t}
       \/ /\ Attaching(r)
          /\ \/ OwnerGone(plan[r])
             \/ SlotsFree(plan[r].insert) /\ AdoptionLost(plan[r])
    /\ EndRun(r, "aborted")

\* ImportBatchService::close refuses a batch discarded while its run went on.
MayCloseDiscarded(r) == phase[r] = "writing"   \* slip: discarded_at is not consulted
MayClose(r) == r \notin discarded

CloseBatch(r) ==
    /\ phase[r] = "writing" /\ todo[r] = <<>>
    /\ EndRun(r, IF MayClose(r) THEN "closed" ELSE "aborted")

CrashRun(r) == r \in InFlight /\ EndRun(r, "crashed")

-----------------------------------------------------------------------------
(* The user.  An edit from the desktop app or the server is written only   *)
(* if the transaction still is what the user saw (edit_if_unchanged), and  *)
(* so is one step; one from the command line is a reading and a write.     *)

Others == <<reachable, runs, draft>>

\* The accounts that documents name and nobody had opened.
OpenAccounts ==
    /\ reachable # Slot
    /\ reachable' = Slot
    /\ UNCHANGED <<ledger, runs, draft>>

\* An edit adds a posting, changes one's account or amount, or drops one.
AddLeg(t, p, v) ==
    /\ t \in txs /\ p \in FreshPosting
    /\ postings' = [postings EXCEPT ![p] = [tx |-> t, value |-> v, from |-> Hand]]
    /\ UNCHANGED <<txs, refs, Others>>

Revalue(p, v) ==
    /\ postings[p] # NoPosting /\ postings[p].value # v
    /\ postings' = [postings EXCEPT ![p].value = v]
    /\ UNCHANGED <<txs, refs, Others>>

DropLeg(p) ==
    /\ postings[p] # NoPosting /\ PostingsOf(postings[p].tx) # {p}
    /\ postings' = Without({p})
    /\ refs' = [s \in Slot |-> Untie({p}, s)]
    /\ UNCHANGED <<txs, Others>>

\* transaction edit, of the command line, reads its target ...
ReadForEdit(e, t) ==
    /\ draft[e] = NoDraft /\ t \in txs
    /\ draft' = [draft EXCEPT ![e] = [tx |-> t, legs |-> [p \in PostingsOf(t) |-> postings[p].value]]]
    /\ UNCHANGED <<ledger, reachable, runs>>

\* ... and works out the postings to write: those it read, with the value of one
\* changed, one dropped, or one added.
Revalued(legs) == {[legs EXCEPT ![p] = v] : p \in DOMAIN legs, v \in Value}
Shortened(legs) == {[q \in DOMAIN legs \ {p} |-> legs[q]] : p \in DOMAIN legs}
Lengthened(legs) ==
    {[q \in DOMAIN legs \cup {p} |-> IF q = p THEN v ELSE legs[q]] : p \in FreshPosting, v \in Value}
Edited(legs) == Revalued(legs) \cup Shortened(legs) \cup Lengthened(legs)

\* edit: all of the transaction's postings are replaced, unless it is gone, and
\* what names one that stays is tied to it again.  A posting of the reading that
\* had gone is put back, and nothing names it.
WriteEdit(e, legs) ==
    LET t == draft[e].tx
        dropped == PostingsOf(t) \ DOMAIN legs
        origin == [p \in DOMAIN legs |-> IF p \in PostingsOf(t) THEN postings[p].from
                                         ELSE IF p \in DOMAIN draft[e].legs THEN Stray ELSE Hand]
    IN  /\ t \in txs /\ DOMAIN legs # {}
        /\ postings' = [p \in Posting |->
                          IF p \in DOMAIN legs
                          THEN [tx |-> t, value |-> legs[p], from |-> origin[p]]
                          ELSE Without(dropped)[p]]
        /\ refs' = [s \in Slot |-> Untie(dropped, s)]
        /\ draft' = [draft EXCEPT ![e] = NoDraft]
        /\ UNCHANGED <<txs, reachable, runs>>

\* The edit is refused, its transaction is gone, or its process ends.
AbandonEdit(e) ==
    /\ draft[e] # NoDraft
    /\ draft' = [draft EXCEPT ![e] = NoDraft]
    /\ UNCHANGED <<ledger, reachable, runs>>

\* delete_in_tx: the references are kept as orphans, or go with the row.
DeleteTransaction(t, keep) ==
    /\ t \in txs
    /\ txs' = txs \ {t}
    /\ postings' = Without(PostingsOf(t))
    /\ refs' = [s \in Slot |->
                  IF s \notin RefsOn(t) THEN refs[s]
                  ELSE IF keep THEN [refs[s] EXCEPT !.live = FALSE, !.posting = NoPosting]
                  ELSE NoRef]
    /\ UNCHANGED Others

\* release: one leg's tombstone, or every orphan of a deleted transaction.
FreeSlots(S) ==
    /\ S # {}
    /\ refs' = [s \in Slot |-> IF s \in S THEN NoRef ELSE refs[s]]
    /\ UNCHANGED <<txs, Others>>

ReleaseLeg(s) ==
    /\ s \in Held /\ refs[s].live /\ refs[s].posting = NoPosting
    /\ FreeSlots({s})
    /\ UNCHANGED postings

ReleaseTransaction(t) ==
    /\ FreeSlots({s \in Held : ~refs[s].live /\ refs[s].tx = t})
    /\ UNCHANGED postings

\* detach: the posting, if any, is from now on one the user answers for.
Detach(s) ==
    /\ s \in Held
    /\ FreeSlots({s})
    /\ postings' = [p \in Posting |-> IF refs[s].posting = p
                                      THEN [postings[p] EXCEPT !.from = Hand] ELSE postings[p]]

-----------------------------------------------------------------------------
(* The discard of a batch, whose run may still be going.                   *)

WrittenBy(r) == {s \in Held : refs[s].batch = r}
OwnedLegs(r) == {s \in WrittenBy(r) : refs[s].owns /\ refs[s].posting # NoPosting}

\* The later batches that own a live leg where r owns one.
Dependants(r) ==
    {q \in r + 1 .. MaxRuns : /\ q \notin discarded
                              /\ \E s \in OwnedLegs(r), d \in OwnedLegs(q) : refs[s].tx = refs[d].tx}

\* sweep_empty_transactions: of the transactions the batch touched, those left
\* without postings.
EmptiedUnswept(r, gone) == {t \in txs : PostingsOf(t) = {}}   \* slip: looked up too early
Emptied(r, gone) ==
    {t \in txs : PostingsOf(t) \ gone = {} /\ WrittenBy(r) \cap RefsOn(t) # {}}

Discard(r) ==
    LET gone == {refs[s].posting : s \in OwnedLegs(r)}
        swept == Emptied(r, gone)
    IN  /\ phase[r] # "idle" /\ r \notin discarded
        /\ Dependants(r) = {}
        /\ discarded' = discarded \cup {r}
        /\ txs' = txs \ swept
        /\ postings' = Without(gone)
        /\ refs' = [s \in Slot |->
                      IF s \in WrittenBy(r) \/ \E t \in swept : s \in RefsOn(t)
                      THEN NoRef ELSE Untie(gone, s)]
        /\ UNCHANGED <<reachable, phase, todo, seen, candidate, plan, draft>>

-----------------------------------------------------------------------------
RunStep(r) ==
    \/ \E doc \in Documents : Begin(r, doc)
    \/ \E s \in Slot : ReadExisting(r, ValueOf[s][1])
    \/ \E t \in FreshTx : AtRow(r) /\ \E post \in NewIds(Legs(r)) : CreateRow(r, t, post)
    \/ ReadOwner(r) \/ Corroborate(r) \/ FailCorroboration(r)
    \/ Attaching(r) /\ \E post \in NewIds(plan[r].insert) : AttachRow(r, post)
    \/ SkipRow(r) \/ SkipAttach(r) \/ AbortRun(r) \/ CloseBatch(r) \/ CrashRun(r)

EditStep(e) ==
    \/ \E t \in txs : ReadForEdit(e, t)
    \/ draft[e] # NoDraft /\ \E legs \in Edited(draft[e].legs) : WriteEdit(e, legs)
    \/ AbandonEdit(e)

UserStep ==
    \/ OpenAccounts
    \/ \E t \in txs, p \in FreshPosting, v \in Value : AddLeg(t, p, v)
    \/ \E p \in Posting : (\E v \in Value : Revalue(p, v)) \/ DropLeg(p)
    \/ \E e \in Editor : EditStep(e)
    \/ \E t \in txs, keep \in BOOLEAN : DeleteTransaction(t, keep)
    \/ \E s \in Slot : ReleaseLeg(s) \/ Detach(s)
    \/ \E t \in Tx : ReleaseTransaction(t)

Next == (\E r \in Run : RunStep(r) \/ Discard(r)) \/ UserStep

Spec == Init /\ [][Next]_vars

-----------------------------------------------------------------------------
(* Properties.                                                             *)

Written(p) == postings[p] # NoPosting

\* No imported posting without the reference that stops the next import from
\* booking its leg again, and no leg booked twice: run, re-run, edit, discard.
\* Postings that a stale command-line edit put back (Stray) have none.
ImportedKeepProvenance ==
    \A p \in Posting : Written(p) /\ postings[p].from \in Slot =>
        postings[p].from \in Held /\ refs[postings[p].from].posting = p

\* A reference is where its posting is: on a live transaction, or the tombstone
\* of one.
ReferencesPointHome ==
    \A s \in Held :
        /\ refs[s].live <=> refs[s].tx \in txs
        /\ refs[s].posting # NoPosting =>
             /\ refs[s].live
             /\ Written(refs[s].posting) /\ postings[refs[s].posting].tx = refs[s].tx

\* No transaction is left without a posting, and none without its row.
NoEmptyTransaction ==
    /\ \A t \in txs : PostingsOf(t) # {}
    /\ \A p \in Posting : Written(p) => postings[p].tx \in txs

\* The legs of one row of a document never end up on two transactions, however
\* many runs wrote them.
RowMates(s, d) == \E doc \in Documents : \E i \in DOMAIN doc : {s, d} \subseteq doc[i]
RowWhole ==
    \A s, d \in Held : RowMates(s, d) /\ refs[s].live /\ refs[d].live => refs[s].tx = refs[d].tx

\* A batch that is finished and discarded owns nothing no discard can reach.
DiscardReachesAll ==
    \A r \in discarded : phase[r] = "closed" => WrittenBy(r) = {}

\* What the user wrote or put back, adopted or not, no run and no discard changes.
HandEntriesStand ==
    [][(discarded' # discarded \/ todo' # todo) =>
         \A p \in Posting : Written(p) /\ postings[p].from \notin Slot =>
             postings'[p] = postings[p]]_vars

\* The statement book: what has become of the leg at each slot.
Status(s) ==
    CASE refs[s] = NoRef -> "absent"
      [] refs[s] # NoRef /\ ~refs[s].live -> "rejected"
      [] refs[s] # NoRef /\ refs[s].live /\ refs[s].posting = NoPosting -> "dropped"
      [] OTHER -> "booked"

Book == INSTANCE StatementBook WITH
            status <- [s \in Slot |-> Status(s)],
            Rows <- UNION {{doc[i] : i \in DOMAIN doc} : doc \in Documents}

\* Runs that do not overlap implement StatementBook, whatever the user does
\* meanwhile: a leg is booked once, and what was rejected stays so.
ImplementsBook == Book!Spec
=============================================================================
