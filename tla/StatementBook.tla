---------------------------- MODULE StatementBook ----------------------------
(***************************************************************************)
(* What importing promises of the legs that statements name, whatever the  *)
(* runs and the transactions they write: a leg is booked from a row none   *)
(* of whose legs the user rejected whole, it is booked only while its slot *)
(* is absent, and what the user dropped or rejected comes back only once   *)
(* its slot has been freed.  ImportLedger implements it.                   *)
(***************************************************************************)
EXTENDS Naturals

CONSTANTS
    Slot,   \* the slots of the legs that documents name
    Rows    \* the sets of slots that documents hold as one row

VARIABLE status     \* status[s]: what has become of the leg at slot s

\* booked: a posting stands for it; dropped: the user deleted that posting;
\* rejected: the user deleted its whole transaction.
Status == {"absent", "booked", "dropped", "rejected"}

TypeOK == status \in [Slot -> Status]

Init == status = [s \in Slot |-> "absent"]

Become(S, st) == status' = [s \in Slot |-> IF s \in S THEN st ELSE status[s]]

\* A run books the legs of one row that it finds missing.
Book(row, S) ==
    /\ S # {} /\ \A s \in S : status[s] = "absent"
    /\ \A s \in row : status[s] # "rejected"
    /\ Become(S, "booked")

Drop(S) == (\A s \in S : status[s] = "booked") /\ Become(S, "dropped")

Reject(S) == (\A s \in S : status[s] \in {"booked", "dropped"}) /\ Become(S, "rejected")

\* Slots are freed, by a release, a detachment, a forgetful deletion or a
\* discard; a discard may drop legs that other runs adopted.
Clear(S, dropped) ==
    /\ \A s \in dropped : status[s] = "booked"
    /\ status' = [s \in Slot |-> IF s \in S THEN "absent"
                                 ELSE IF s \in dropped THEN "dropped" ELSE status[s]]

Next ==
    \/ \E row \in Rows : \E S \in SUBSET row : Book(row, S)
    \/ \E S \in SUBSET Slot : Drop(S) \/ Reject(S) \/ \E D \in SUBSET Slot : Clear(S, D)

Spec == Init /\ [][Next]_status
=============================================================================
