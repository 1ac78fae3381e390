----------------------------- MODULE LiveLedger -----------------------------
(***************************************************************************)
(* What a restore promises of the ledger its users see: the book changes   *)
(* by one committed write at a time, or is replaced, at one instant and as *)
(* a whole, by what a saved backup holds.  Files, sidecars, locks, markers *)
(* and crashes do not show.                                                *)
(***************************************************************************)
CONSTANT Write          \* the writes users commit

VARIABLES
    book,               \* the writes the ledger holds
    saved               \* what each backup in the pool holds

Init == book = {} /\ saved = {}

Commit(w) ==
    /\ w \notin book
    /\ book' = book \cup {w}
    /\ UNCHANGED saved

\* A backup of the book is added, or backups are rotated away or deleted.
Save ==
    /\ saved' \subseteq saved \cup {book}
    /\ UNCHANGED book

Restore ==
    /\ book' \in saved
    /\ UNCHANGED saved

Next == Save \/ Restore \/ \E w \in Write : Commit(w)

Spec == Init /\ [][Next]_<<book, saved>>
=============================================================================
