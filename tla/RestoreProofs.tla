---------------------------- MODULE RestoreProofs ----------------------------
(***************************************************************************)
(* Proofs about Restore, for any hosts, commands, files and writes, any    *)
(* retention and any number of crashes and failed steps.                   *)
(*                                                                         *)
(* Everything rests on the lock.  RestoreInv says which processes must     *)
(* hold it, and so that the one that swaps, or the one host that serves,   *)
(* is alone in that; what commands without the lock do to the files is     *)
(* harmless to a host that has them open.                                  *)
(***************************************************************************)
EXTENDS Restore, TLAPS

\* How far a process of each kind may come.
Roles ==
    /\ \A h \in Host : pc[h] \in {"down", "opening", "swapped"} \cup Serving \cup Swapping
    /\ \A r \in Restorer :
           pc[r] \in {"down", "begun", "holding", "snapped", "swapped"} \cup Swapping
    /\ \A c \in Writer : pc[c] \in {"down", "open"}

\* Who may be at work only with the lock.
Locking(p) ==
    \/ p \in Host /\ pc[p] # "down"
    \/ p \in Restorer /\ pc[p] \notin {"down", "begun"}

LockHeld == \A p \in Proc : Locking(p) => lock = p

\* A pool is open from the start of a command, or of a host's service, to its end.
PoolsOpen ==
    \A p \in Proc : conn[p] # None <=> pc[p] \in Serving \cup {"begun", "holding", "snapped"}

CopyReady == \A p \in Proc : pc[p] \in {"copied", "cleared"} => temp \in File

LockRules == Roles /\ LockHeld /\ CopyReady

RestoreInv == TypeOK /\ LockRules /\ PoolsOpen /\ ServedIsLive

-----------------------------------------------------------------------------
(* What the steps do to the files.                                         *)

\* A new file is neither the database's nor open in any process.
LEMMA FreshFiles ==
    ASSUME FreshFile # {}
    PROVE  /\ AnyOf(FreshFile) \in File \ {main}
           /\ \A p \in Connected : conn[p].file # AnyOf(FreshFile)
  BY DEF AnyOf, FreshFile

\* A new -wal file is one.
LEMMA FreshWals ==
    ASSUME FreshWal # {}
    PROVE  AnyOf(FreshWal) \in Wal
  BY DEF AnyOf, FreshWal

\* A connection joins what is at the path.
LEMMA ConnectTypes ==
    ASSUME TypeOK, NEW p \in Proc, Connect(p)
    PROVE  /\ walAt' \in Wal /\ wal' \in [Wal -> SUBSET Write]
           /\ conn' \in [Proc -> Conn \cup {None}]
           /\ conn' = [conn EXCEPT ![p] = [file |-> main, wal |-> walAt']]
           /\ walAt # None => walAt' = walAt /\ wal' = wal
           /\ UNCHANGED <<main, file, temp>>
  <1>1. walAt' \in Wal /\ wal' \in [Wal -> SUBSET Write]
    BY FreshWals DEF TypeOK, Connect
  <1>2. [file |-> main, wal |-> walAt'] \in Conn
    BY <1>1 DEF TypeOK, Conn
  <1> QED
    BY <1>1, <1>2 DEF TypeOK, Connect

\* What a -wal file holds is writes.
LEMMA LoggedTypes ==
    ASSUME TypeOK, NEW l \in Wal \cup {None}
    PROVE  Logged(l) \subseteq Write
  BY DEF TypeOK, Logged

\* What a process with the database open reads is writes.
LEMMA ReadsTypes ==
    ASSUME TypeOK, NEW p \in Proc, conn[p] # None
    PROVE  conn[p].file \in File /\ conn[p].wal \in Wal /\ Reads(p) \subseteq Write
  BY DEF TypeOK, Reads, Conn

\* A checkpoint changes at most the file's content, and removes the -wal file or leaves it.
LEMMA CheckpointTypes ==
    ASSUME TypeOK, NEW others, NEW f \in File, NEW l \in Wal \cup {None},
           Checkpoint(others, f, l)
    PROVE  file' \in [File -> SUBSET Write] /\ walAt' \in {walAt, None}
  BY LoggedTypes DEF TypeOK, Checkpoint

\* A host that is connected keeps the files it has open from being checkpointed away.
LEMMA CheckpointSpares ==
    ASSUME NEW others, NEW f, NEW l, Checkpoint(others, f, l),
           NEW h \in others, conn[h].file = main
    PROVE  file' = file /\ walAt' = walAt
  BY DEF Checkpoint

\* Closing a pool takes one connection away and may run a checkpoint.
LEMMA DisconnectTypes ==
    ASSUME TypeOK, NEW p \in Proc, conn[p] # None, Disconnect(p)
    PROVE  /\ file' \in [File -> SUBSET Write] /\ walAt' \in {walAt, None}
           /\ conn' \in [Proc -> Conn \cup {None}]
           /\ conn' = [conn EXCEPT ![p] = None]
           /\ UNCHANGED <<main, wal, temp>>
  <1>1. file' \in [File -> SUBSET Write] /\ walAt' \in {walAt, None}
    BY ReadsTypes, CheckpointTypes DEF Disconnect
  <1> QED
    BY <1>1 DEF TypeOK, Disconnect

\* A snapshot is a backup with a name not yet given.
LEMMA SnapshotTypes ==
    ASSUME TypeOK, NEW p \in Proc, conn[p] # None, taken < MaxBackups, NEW kind \in Kind
    PROVE  taken + 1 \in Name /\ Snapshot(p, kind) \in Backup
  <1>1. taken + 1 \in Name
    BY RestoreAssumption DEF TypeOK, Name
  <1> QED
    BY <1>1, ReadsTypes DEF Snapshot, Backup

\* Retention only removes.
LEMMA RotatedShrinks ==
    ASSUME NEW B
    PROVE  Rotated(B) \subseteq B
  BY DEF Rotated

\* A name that is listed names a backup.
LEMMA NamedListed ==
    ASSUME TypeOK, NEW n, Listed(n)
    PROVE  Named(n) \in pool /\ Named(n).name = n /\ Named(n).holds \subseteq Write
  <1>1. Named(n) \in pool /\ Named(n).name = n
    BY DEF Listed, Named
  <1> QED
    BY <1>1 DEF TypeOK, Backup

-----------------------------------------------------------------------------
(* The steps.                                                              *)

\* Every step keeps the types.
LEMMA StepTypes ==
    ASSUME RestoreInv, Next
    PROVE  TypeOK'
  <1> USE RestoreAssumption, NullAssumption DEF RestoreInv, LockRules, TypeOK, Roles, PoolsOpen,
      Proc, Name, Serving, Swapping, disk, backups, spent
  <1>0. present' = present /\ present \in SUBSET Proc
    BY DEF Next
  <1>1. ASSUME NEW h \in Host, Start(h) PROVE TypeOK'
    BY <1>1, <1>0 DEF Start
  <1>2. ASSUME NEW p \in Host \cup Restorer, Identify(p) PROVE TypeOK'
    <2>1. file' \in [File -> SUBSET Write] /\ walAt' \in {walAt, None}
      BY <1>2, CheckpointTypes DEF Identify
    <2> QED
      BY <1>2, <1>0, <2>1 DEF Identify
  <1>3. ASSUME NEW p \in Host \cup Restorer, Copy(p) PROVE TypeOK'
    BY <1>3, <1>0, FreshFiles, NamedListed DEF Copy, Backup
  <1>4. ASSUME NEW p \in Host \cup Restorer, RemoveSidecars(p) PROVE TypeOK'
    BY <1>4, <1>0 DEF RemoveSidecars
  <1>5. ASSUME NEW p \in Host \cup Restorer, Rename(p) PROVE TypeOK'
    BY <1>5, <1>0 DEF Rename, CopyReady
  <1>6. ASSUME NEW p \in Host \cup Restorer, SwapFails(p) PROVE TypeOK'
    BY <1>6, <1>0 DEF SwapFails
  <1>7. ASSUME NEW h \in Host, DropMarker(h) PROVE TypeOK'
    BY <1>7, <1>0 DEF DropMarker
  <1>8. ASSUME NEW h \in Host, Open(h) PROVE TypeOK'
    BY <1>8, <1>0, ConnectTypes DEF Open
  <1>9. ASSUME NEW h \in Host, WriteMarker(h) PROVE TypeOK'
    BY <1>9, <1>0 DEF WriteMarker
  <1>10. ASSUME NEW h \in Host, Exit(h) PROVE TypeOK'
    BY <1>10, <1>0, DisconnectTypes DEF Exit
  <1>11. ASSUME NEW h \in Host, NEW b \in pool, AskRestore(h, b) PROVE TypeOK'
    BY <1>11, <1>0, SnapshotTypes DEF AskRestore, Backup, Kind
  <1>12. ASSUME NEW h \in Host, NEW b \in pool, DeleteBackup(h, b) PROVE TypeOK'
    BY <1>12, <1>0 DEF DeleteBackup
  <1>13. ASSUME NEW p \in Host \cup Writer, NEW kind \in Kind, TakeBackup(p, kind)
         PROVE TypeOK'
    BY <1>13, <1>0, SnapshotTypes, RotatedShrinks DEF TakeBackup
  <1>14. ASSUME NEW r \in Restorer, NEW b \in pool, Begin(r, b) PROVE TypeOK'
    BY <1>14, <1>0, ConnectTypes DEF Begin, Backup
  <1>15. ASSUME NEW r \in Restorer, Acquire(r) PROVE TypeOK'
    BY <1>15, <1>0 DEF Acquire
  <1>16. ASSUME NEW r \in Restorer, Refuse(r) PROVE TypeOK'
    BY <1>16, <1>0, DisconnectTypes DEF Refuse
  <1>17. ASSUME NEW r \in Restorer, SafetySnapshot(r) PROVE TypeOK'
    BY <1>17, <1>0, SnapshotTypes DEF SafetySnapshot, Kind
  <1>18. ASSUME NEW r \in Restorer, ClosePool(r) PROVE TypeOK'
    BY <1>18, <1>0, DisconnectTypes DEF ClosePool
  <1>19. ASSUME NEW r \in Restorer, Finish(r) PROVE TypeOK'
    BY <1>19, <1>0 DEF Finish
  <1>20. ASSUME NEW c \in Writer, Run(c) PROVE TypeOK'
    BY <1>20, <1>0, ConnectTypes DEF Run
  <1>21. ASSUME NEW c \in Writer, End(c) PROVE TypeOK'
    BY <1>21, <1>0, DisconnectTypes DEF End
  <1>22. ASSUME NEW p \in Host \cup Writer, NEW w \in Write, Commit(p, w) PROVE TypeOK'
    BY <1>22, <1>0, ReadsTypes DEF Commit
  <1>23. ASSUME NEW p \in Proc, Crash(p) PROVE TypeOK'
    BY <1>23, <1>0 DEF Crash
  <1> QED
    BY <1>0, <1>1, <1>2, <1>3, <1>4, <1>5, <1>6, <1>7, <1>8, <1>9, <1>10, <1>11, <1>12,
       <1>13, <1>14, <1>15, <1>16, <1>17, <1>18, <1>19, <1>20, <1>21, <1>22, <1>23
       DEF Next, HostStep, StartUp, SwapIn, RestorerStep, WriterStep, Kind

\* Nobody does what takes the lock without it.
LEMMA StepLocks ==
    ASSUME RestoreInv, Next
    PROVE  LockRules'
  <1> USE RestoreAssumption, NullAssumption DEF RestoreInv, LockRules, TypeOK, Roles, Locking,
      LockHeld, CopyReady, Proc, Serving, Swapping, disk
  <1>0. present' = present /\ present \in SUBSET Proc
    BY DEF Next
  <1>1. ASSUME NEW h \in Host, Start(h) PROVE LockRules'
    BY <1>1 DEF Start
  <1>2. ASSUME NEW p \in Host \cup Restorer, Identify(p) PROVE LockRules'
    BY <1>2 DEF Identify
  <1>3. ASSUME NEW p \in Host \cup Restorer, Copy(p) PROVE LockRules'
    BY <1>3, FreshFiles DEF Copy
  <1>4. ASSUME NEW p \in Host \cup Restorer, RemoveSidecars(p) PROVE LockRules'
    BY <1>4 DEF RemoveSidecars
  <1>5. ASSUME NEW p \in Host \cup Restorer, Rename(p) PROVE LockRules'
    BY <1>5 DEF Rename
  <1>6. ASSUME NEW p \in Host \cup Restorer, SwapFails(p) PROVE LockRules'
    BY <1>6 DEF SwapFails
  <1>7. ASSUME NEW h \in Host, DropMarker(h) PROVE LockRules'
    BY <1>7 DEF DropMarker
  <1>8. ASSUME NEW h \in Host, Open(h) PROVE LockRules'
    BY <1>8, ConnectTypes DEF Open
  <1>9. ASSUME NEW h \in Host, WriteMarker(h) PROVE LockRules'
    BY <1>9 DEF WriteMarker
  <1>10. ASSUME NEW h \in Host, Exit(h) PROVE LockRules'
    BY <1>10, DisconnectTypes DEF Exit, PoolsOpen
  <1>11. ASSUME NEW h \in Host, NEW b \in pool, AskRestore(h, b) PROVE LockRules'
    BY <1>11 DEF AskRestore
  <1>12. ASSUME NEW h \in Host, NEW b \in pool, DeleteBackup(h, b) PROVE LockRules'
    BY <1>12 DEF DeleteBackup
  <1>13. ASSUME NEW p \in Host \cup Writer, NEW kind \in Kind, TakeBackup(p, kind)
         PROVE LockRules'
    BY <1>13 DEF TakeBackup
  <1>14. ASSUME NEW r \in Restorer, NEW b \in pool, Begin(r, b) PROVE LockRules'
    BY <1>14, ConnectTypes DEF Begin
  <1>15. ASSUME NEW r \in Restorer, Acquire(r) PROVE LockRules'
    BY <1>15 DEF Acquire
  <1>16. ASSUME NEW r \in Restorer, Refuse(r) PROVE LockRules'
    BY <1>16, DisconnectTypes DEF Refuse, PoolsOpen
  <1>17. ASSUME NEW r \in Restorer, SafetySnapshot(r) PROVE LockRules'
    BY <1>17 DEF SafetySnapshot
  <1>18. ASSUME NEW r \in Restorer, ClosePool(r) PROVE LockRules'
    BY <1>18, DisconnectTypes DEF ClosePool, PoolsOpen
  <1>19. ASSUME NEW r \in Restorer, Finish(r) PROVE LockRules'
    BY <1>19 DEF Finish
  <1>20. ASSUME NEW c \in Writer, Run(c) PROVE LockRules'
    BY <1>20, ConnectTypes DEF Run
  <1>21. ASSUME NEW c \in Writer, End(c) PROVE LockRules'
    BY <1>21, DisconnectTypes DEF End, PoolsOpen
  <1>22. ASSUME NEW p \in Host \cup Writer, NEW w \in Write, Commit(p, w) PROVE LockRules'
    BY <1>22 DEF Commit
  <1>23. ASSUME NEW p \in Proc, Crash(p) PROVE LockRules'
    BY <1>23 DEF Crash
  <1> QED
    BY <1>0, <1>1, <1>2, <1>3, <1>4, <1>5, <1>6, <1>7, <1>8, <1>9, <1>10, <1>11, <1>12,
       <1>13, <1>14, <1>15, <1>16, <1>17, <1>18, <1>19, <1>20, <1>21, <1>22, <1>23
       DEF Next, HostStep, StartUp, SwapIn, RestorerStep, WriterStep, Kind

\* A pool opens and closes with its process's work.
LEMMA StepPools ==
    ASSUME RestoreInv, Next
    PROVE  PoolsOpen'
  <1> USE RestoreAssumption, NullAssumption DEF RestoreInv, LockRules, TypeOK, Roles, PoolsOpen,
      Proc, Serving, Swapping
  <1>0. present' = present /\ present \in SUBSET Proc
    BY DEF Next
  <1>1. ASSUME NEW h \in Host, Start(h) PROVE PoolsOpen'
    BY <1>1 DEF Start
  <1>2. ASSUME NEW p \in Host \cup Restorer, Identify(p) PROVE PoolsOpen'
    BY <1>2 DEF Identify
  <1>3. ASSUME NEW p \in Host \cup Restorer, Copy(p) PROVE PoolsOpen'
    BY <1>3 DEF Copy
  <1>4. ASSUME NEW p \in Host \cup Restorer, RemoveSidecars(p) PROVE PoolsOpen'
    BY <1>4 DEF RemoveSidecars
  <1>5. ASSUME NEW p \in Host \cup Restorer, Rename(p) PROVE PoolsOpen'
    BY <1>5 DEF Rename
  <1>6. ASSUME NEW p \in Host \cup Restorer, SwapFails(p) PROVE PoolsOpen'
    BY <1>6 DEF SwapFails
  <1>7. ASSUME NEW h \in Host, DropMarker(h) PROVE PoolsOpen'
    BY <1>7 DEF DropMarker
  <1>8. ASSUME NEW h \in Host, Open(h) PROVE PoolsOpen'
    BY <1>8, ConnectTypes DEF Open, Conn
  <1>9. ASSUME NEW h \in Host, WriteMarker(h) PROVE PoolsOpen'
    BY <1>9 DEF WriteMarker
  <1>10. ASSUME NEW h \in Host, Exit(h) PROVE PoolsOpen'
    BY <1>10, DisconnectTypes DEF Exit
  <1>11. ASSUME NEW h \in Host, NEW b \in pool, AskRestore(h, b) PROVE PoolsOpen'
    BY <1>11 DEF AskRestore
  <1>12. ASSUME NEW h \in Host, NEW b \in pool, DeleteBackup(h, b) PROVE PoolsOpen'
    BY <1>12 DEF DeleteBackup
  <1>13. ASSUME NEW p \in Host \cup Writer, NEW kind \in Kind, TakeBackup(p, kind)
         PROVE PoolsOpen'
    BY <1>13 DEF TakeBackup
  <1>14. ASSUME NEW r \in Restorer, NEW b \in pool, Begin(r, b) PROVE PoolsOpen'
    BY <1>14, ConnectTypes DEF Begin, Conn
  <1>15. ASSUME NEW r \in Restorer, Acquire(r) PROVE PoolsOpen'
    BY <1>15 DEF Acquire
  <1>16. ASSUME NEW r \in Restorer, Refuse(r) PROVE PoolsOpen'
    BY <1>16, DisconnectTypes DEF Refuse
  <1>17. ASSUME NEW r \in Restorer, SafetySnapshot(r) PROVE PoolsOpen'
    BY <1>17 DEF SafetySnapshot
  <1>18. ASSUME NEW r \in Restorer, ClosePool(r) PROVE PoolsOpen'
    BY <1>18, DisconnectTypes DEF ClosePool
  <1>19. ASSUME NEW r \in Restorer, Finish(r) PROVE PoolsOpen'
    BY <1>19 DEF Finish
  <1>20. ASSUME NEW c \in Writer, Run(c) PROVE PoolsOpen'
    BY <1>20, ConnectTypes DEF Run, Conn
  <1>21. ASSUME NEW c \in Writer, End(c) PROVE PoolsOpen'
    BY <1>21, DisconnectTypes DEF End
  <1>22. ASSUME NEW p \in Host \cup Writer, NEW w \in Write, Commit(p, w) PROVE PoolsOpen'
    BY <1>22 DEF Commit
  <1>23. ASSUME NEW p \in Proc, Crash(p) PROVE PoolsOpen'
    BY <1>23 DEF Crash
  <1> QED
    BY <1>0, <1>1, <1>2, <1>3, <1>4, <1>5, <1>6, <1>7, <1>8, <1>9, <1>10, <1>11, <1>12,
       <1>13, <1>14, <1>15, <1>16, <1>17, <1>18, <1>19, <1>20, <1>21, <1>22, <1>23
       DEF Next, HostStep, StartUp, SwapIn, RestorerStep, WriterStep, Kind

\* Nobody takes the database away from a host that serves it.
LEMMA StepServes ==
    ASSUME RestoreInv, Next
    PROVE  ServedIsLive'
  <1> USE RestoreAssumption, NullAssumption DEF RestoreInv, LockRules, TypeOK, Roles, Locking,
      LockHeld, PoolsOpen, ServedIsLive, Proc, Serving, Swapping, disk
  <1>0. present' = present /\ present \in SUBSET Proc
    BY DEF Next
  <1>1. ASSUME NEW h \in Host, Start(h) PROVE ServedIsLive'
    BY <1>1 DEF Start
  <1>2. ASSUME NEW p \in Host \cup Restorer, Identify(p) PROVE ServedIsLive'
    BY <1>2 DEF Identify
  <1>3. ASSUME NEW p \in Host \cup Restorer, Copy(p) PROVE ServedIsLive'
    BY <1>3 DEF Copy
  <1>4. ASSUME NEW p \in Host \cup Restorer, RemoveSidecars(p) PROVE ServedIsLive'
    BY <1>4 DEF RemoveSidecars
  <1>5. ASSUME NEW p \in Host \cup Restorer, Rename(p) PROVE ServedIsLive'
    BY <1>5 DEF Rename
  <1>6. ASSUME NEW p \in Host \cup Restorer, SwapFails(p) PROVE ServedIsLive'
    BY <1>6 DEF SwapFails
  <1>7. ASSUME NEW h \in Host, DropMarker(h) PROVE ServedIsLive'
    BY <1>7 DEF DropMarker
  <1>8. ASSUME NEW h \in Host, Open(h) PROVE ServedIsLive'
    BY <1>8, ConnectTypes DEF Open, Conn
  <1>9. ASSUME NEW h \in Host, WriteMarker(h) PROVE ServedIsLive'
    BY <1>9 DEF WriteMarker
  <1>10. ASSUME NEW h \in Host, Exit(h) PROVE ServedIsLive'
    BY <1>10, DisconnectTypes, CheckpointSpares DEF Exit, Disconnect, Connected
  <1>11. ASSUME NEW h \in Host, NEW b \in pool, AskRestore(h, b) PROVE ServedIsLive'
    BY <1>11 DEF AskRestore
  <1>12. ASSUME NEW h \in Host, NEW b \in pool, DeleteBackup(h, b) PROVE ServedIsLive'
    BY <1>12 DEF DeleteBackup
  <1>13. ASSUME NEW p \in Host \cup Writer, NEW kind \in Kind, TakeBackup(p, kind)
         PROVE ServedIsLive'
    BY <1>13 DEF TakeBackup
  <1>14. ASSUME NEW r \in Restorer, NEW b \in pool, Begin(r, b) PROVE ServedIsLive'
    BY <1>14, ConnectTypes DEF Begin, Conn
  <1>15. ASSUME NEW r \in Restorer, Acquire(r) PROVE ServedIsLive'
    BY <1>15 DEF Acquire
  <1>16. ASSUME NEW r \in Restorer, Refuse(r) PROVE ServedIsLive'
    BY <1>16, DisconnectTypes, CheckpointSpares DEF Refuse, Disconnect, Connected
  <1>17. ASSUME NEW r \in Restorer, SafetySnapshot(r) PROVE ServedIsLive'
    BY <1>17 DEF SafetySnapshot
  <1>18. ASSUME NEW r \in Restorer, ClosePool(r) PROVE ServedIsLive'
    BY <1>18, DisconnectTypes, CheckpointSpares DEF ClosePool, Disconnect, Connected
  <1>19. ASSUME NEW r \in Restorer, Finish(r) PROVE ServedIsLive'
    BY <1>19 DEF Finish
  <1>20. ASSUME NEW c \in Writer, Run(c) PROVE ServedIsLive'
    BY <1>20, ConnectTypes DEF Run, Conn
  <1>21. ASSUME NEW c \in Writer, End(c) PROVE ServedIsLive'
    BY <1>21, DisconnectTypes, CheckpointSpares DEF End, Disconnect, Connected
  <1>22. ASSUME NEW p \in Host \cup Writer, NEW w \in Write, Commit(p, w)
         PROVE ServedIsLive'
    BY <1>22 DEF Commit
  <1>23. ASSUME NEW p \in Proc, Crash(p) PROVE ServedIsLive'
    BY <1>23 DEF Crash
  <1> QED
    BY <1>0, <1>1, <1>2, <1>3, <1>4, <1>5, <1>6, <1>7, <1>8, <1>9, <1>10, <1>11, <1>12,
       <1>13, <1>14, <1>15, <1>16, <1>17, <1>18, <1>19, <1>20, <1>21, <1>22, <1>23
       DEF Next, HostStep, StartUp, SwapIn, RestorerStep, WriterStep, Kind

\* The inductive invariant: what each process may be doing, with the lock or
\* without it, and which files it then has open.
THEOREM RestoreInvariant == Spec => []RestoreInv
  <1>1. Init => RestoreInv
    BY RestoreAssumption
       DEF Init, RestoreInv, LockRules, TypeOK, Roles, Locking, LockHeld, PoolsOpen,
           CopyReady, ServedIsLive, AnyOf, Serving, Swapping, Proc
  <1>2. RestoreInv /\ [Next]_vars => RestoreInv'
    <2>1. CASE Next
      BY <2>1, StepTypes, StepLocks, StepPools, StepServes DEF RestoreInv
    <2>2. CASE UNCHANGED vars
      BY <2>2 DEF vars, RestoreInv, LockRules, TypeOK, Roles, Locking, LockHeld, PoolsOpen, CopyReady,
                  ServedIsLive
    <2> QED
      BY <2>1, <2>2
  <1> QED
    BY <1>1, <1>2, PTL DEF Spec

\* Type correctness.
THEOREM RestoreTypes == Spec => []TypeOK
  <1>1. RestoreInv => TypeOK
    BY DEF RestoreInv
  <1> QED
    BY <1>1, RestoreInvariant, PTL

\* db_lock.rs: a host that serves has open what is at the path, whatever commands,
\* restores and crashes there are.
THEOREM ServingHoldsLive == Spec => []ServedIsLive
  <1>1. RestoreInv => ServedIsLive
    BY DEF RestoreInv
  <1> QED
    BY <1>1, RestoreInvariant, PTL

-----------------------------------------------------------------------------
(* What the database holds.                                                *)

\* The last close of a database moves what its -wal file holds into it.
LEMMA CheckpointKeepsLive ==
    ASSUME TypeOK, NEW others, NEW l, l = walAt,
           Checkpoint(others, main, l), UNCHANGED <<main, wal>>
    PROVE  Live' = Live
  BY DEF TypeOK, Checkpoint, Live, Logged

\* While host s serves, no step loses what the database holds.
LEMMA StepStays ==
    ASSUME RestoreInv, Next, NEW s \in Host, pc[s] \in Serving
    PROVE  Live \subseteq Live'
  <1> USE RestoreAssumption, NullAssumption DEF RestoreInv, LockRules, TypeOK, Roles, Locking,
      LockHeld, PoolsOpen, ServedIsLive, Proc, Serving, Swapping, disk, Live, Logged
  <1>0. present' = present /\ present \in SUBSET Proc
    BY DEF Next
  <1>1. ASSUME NEW h \in Host, Start(h) PROVE Live \subseteq Live'
    BY <1>1 DEF Start
  <1>2. ASSUME NEW p \in Host \cup Restorer, Identify(p) PROVE Live \subseteq Live'
    BY <1>2 DEF Identify
  <1>3. ASSUME NEW p \in Host \cup Restorer, Copy(p) PROVE Live \subseteq Live'
    BY <1>3 DEF Copy
  <1>4. ASSUME NEW p \in Host \cup Restorer, RemoveSidecars(p) PROVE Live \subseteq Live'
    BY <1>4 DEF RemoveSidecars
  <1>5. ASSUME NEW p \in Host \cup Restorer, Rename(p) PROVE Live \subseteq Live'
    BY <1>5 DEF Rename
  <1>6. ASSUME NEW p \in Host \cup Restorer, SwapFails(p) PROVE Live \subseteq Live'
    BY <1>6 DEF SwapFails
  <1>7. ASSUME NEW h \in Host, DropMarker(h) PROVE Live \subseteq Live'
    BY <1>7 DEF DropMarker
  <1>8. ASSUME NEW h \in Host, Open(h) PROVE Live \subseteq Live'
    BY <1>8, ConnectTypes DEF Open, Conn
  <1>9. ASSUME NEW h \in Host, WriteMarker(h) PROVE Live \subseteq Live'
    BY <1>9 DEF WriteMarker
  <1>10. ASSUME NEW h \in Host, Exit(h) PROVE Live \subseteq Live'
    BY <1>10, DisconnectTypes, CheckpointSpares, CheckpointKeepsLive DEF Exit,
       Disconnect, Connected
  <1>11. ASSUME NEW h \in Host, NEW b \in pool, AskRestore(h, b)
         PROVE Live \subseteq Live'
    BY <1>11 DEF AskRestore
  <1>12. ASSUME NEW h \in Host, NEW b \in pool, DeleteBackup(h, b)
         PROVE Live \subseteq Live'
    BY <1>12 DEF DeleteBackup
  <1>13. ASSUME NEW p \in Host \cup Writer, NEW kind \in Kind, TakeBackup(p, kind)
         PROVE Live \subseteq Live'
    BY <1>13 DEF TakeBackup
  <1>14. ASSUME NEW r \in Restorer, NEW b \in pool, Begin(r, b) PROVE Live \subseteq Live'
    BY <1>14, ConnectTypes DEF Begin, Conn
  <1>15. ASSUME NEW r \in Restorer, Acquire(r) PROVE Live \subseteq Live'
    BY <1>15 DEF Acquire
  <1>16. ASSUME NEW r \in Restorer, Refuse(r) PROVE Live \subseteq Live'
    BY <1>16, DisconnectTypes, CheckpointSpares DEF Refuse, Disconnect, Connected
  <1>17. ASSUME NEW r \in Restorer, SafetySnapshot(r) PROVE Live \subseteq Live'
    BY <1>17 DEF SafetySnapshot
  <1>18. ASSUME NEW r \in Restorer, ClosePool(r) PROVE Live \subseteq Live'
    BY <1>18, DisconnectTypes, CheckpointSpares DEF ClosePool, Disconnect, Connected
  <1>19. ASSUME NEW r \in Restorer, Finish(r) PROVE Live \subseteq Live'
    BY <1>19 DEF Finish
  <1>20. ASSUME NEW c \in Writer, Run(c) PROVE Live \subseteq Live'
    BY <1>20, ConnectTypes DEF Run, Conn
  <1>21. ASSUME NEW c \in Writer, End(c) PROVE Live \subseteq Live'
    BY <1>21, DisconnectTypes, CheckpointSpares DEF End, Disconnect, Connected
  <1>22. ASSUME NEW p \in Host \cup Writer, NEW w \in Write, Commit(p, w)
         PROVE Live \subseteq Live'
    BY <1>22 DEF Commit
  <1>23. ASSUME NEW p \in Proc, Crash(p) PROVE Live \subseteq Live'
    BY <1>23 DEF Crash
  <1> QED
    BY <1>0, <1>1, <1>2, <1>3, <1>4, <1>5, <1>6, <1>7, <1>8, <1>9, <1>10, <1>11, <1>12,
       <1>13, <1>14, <1>15, <1>16, <1>17, <1>18, <1>19, <1>20, <1>21, <1>22, <1>23
       DEF Next, HostStep, StartUp, SwapIn, RestorerStep, WriterStep, Kind

\* backup.rs, close_pool: while a host serves, the live database only grows.
THEOREM ServingKeepsWrites == Spec => ServedStays
  <1>1. RestoreInv /\ [Next]_vars =>
            [\A h \in Host : pc[h] \in Serving => Live \subseteq Live']_vars
    BY StepStays
  <1> QED
    BY <1>1, RestoreInvariant, PTL DEF Spec, ServedStays

-----------------------------------------------------------------------------
(* Hosts alone: the refinement of LiveLedger.                              *)

Saved == {b.holds : b \in pool}

\* Where there are only hosts, nothing else is at work; from the look at the ledger
\* id on, a swap finds no -wal file beside the database; and once the candidate is
\* copied, the temp file holds what a backup holds.
AloneInv ==
    Alone =>
        /\ \A p \in Restorer \cup Writer : pc[p] = "down"
        /\ \A h \in Host : pc[h] \in {"identified", "copied", "cleared"} => walAt = None
        /\ \A h \in Host : pc[h] \in {"copied", "cleared"} => file[temp] \in Saved

\* Hosts alone do nothing of this to one another.
LEMMA AloneStep ==
    ASSUME RestoreInv, AloneInv, Next, Alone
    PROVE  AloneInv'
  <1> USE RestoreAssumption, NullAssumption DEF RestoreInv, LockRules, TypeOK, Roles, Locking,
      LockHeld, PoolsOpen, CopyReady, Proc, Serving, Swapping, disk, Alone, AloneInv,
      Saved
  <1>0. present' = present /\ present \in SUBSET Proc
    BY DEF Next
  <1>1. ASSUME NEW h \in Host, Start(h) PROVE AloneInv'
    BY <1>1 DEF Start
  <1>2. ASSUME NEW p \in Host, Identify(p) PROVE AloneInv'
    BY <1>2, CheckpointTypes DEF Identify, Checkpoint, Connected
  <1>3. ASSUME NEW p \in Host, Copy(p) PROVE AloneInv'
    <2>1. temp' \in File /\ file'[temp'] = Named(Candidate(p)).holds
      BY <1>3, FreshFiles DEF Copy
    <2>2. Named(Candidate(p)) \in pool
      BY <1>3, NamedListed DEF Copy
    <2>3. \A q \in Proc : Locking(q)' => q = p
      BY <1>3 DEF Copy
    <2> QED
      BY <1>3, <2>1, <2>2, <2>3 DEF Copy, backups
  <1>4. ASSUME NEW p \in Host, RemoveSidecars(p) PROVE AloneInv'
    BY <1>4 DEF RemoveSidecars, backups
  <1>5. ASSUME NEW p \in Host, Rename(p) PROVE AloneInv'
    BY <1>5 DEF Rename
  <1>6. ASSUME NEW p \in Host, SwapFails(p) PROVE AloneInv'
    BY <1>6 DEF SwapFails
  <1>7. ASSUME NEW h \in Host, DropMarker(h) PROVE AloneInv'
    BY <1>7 DEF DropMarker
  <1>8. ASSUME NEW h \in Host, Open(h) PROVE AloneInv'
    BY <1>8, ConnectTypes DEF Open
  <1>9. ASSUME NEW h \in Host, WriteMarker(h) PROVE AloneInv'
    BY <1>9 DEF WriteMarker
  <1>10. ASSUME NEW h \in Host, Exit(h) PROVE AloneInv'
    BY <1>10, DisconnectTypes DEF Exit
  <1>11. ASSUME NEW h \in Host, NEW b \in pool, AskRestore(h, b) PROVE AloneInv'
    BY <1>11 DEF AskRestore
  <1>12. ASSUME NEW h \in Host, NEW b \in pool, DeleteBackup(h, b) PROVE AloneInv'
    BY <1>12 DEF DeleteBackup
  <1>13. ASSUME NEW p \in Host, NEW kind \in Kind, TakeBackup(p, kind) PROVE AloneInv'
    BY <1>13 DEF TakeBackup
  <1>14. ASSUME NEW p \in Host, NEW w \in Write, Commit(p, w) PROVE AloneInv'
    BY <1>14 DEF Commit
  <1>15. ASSUME NEW p \in Host, Crash(p) PROVE AloneInv'
    BY <1>15 DEF Crash
  <1> QED
    BY <1>0, <1>1, <1>2, <1>3, <1>4, <1>5, <1>6, <1>7, <1>8, <1>9, <1>10, <1>11, <1>12,
       <1>13, <1>14, <1>15
       DEF Next, HostStep, StartUp, SwapIn, RestorerStep, WriterStep, Kind, Alone

\* Of hosts alone at most one is up.
LEMMA AloneUp ==
    ASSUME RestoreInv, AloneInv, Alone, NEW h \in Host, pc[h] # "down"
    PROVE  Connected \ {h} = {}
  BY RestoreAssumption
     DEF RestoreInv, LockRules, Roles, LockHeld, Locking, PoolsOpen, AloneInv, Connected, Proc, Serving

\* What a step looks like in the book and the saved backups.
BookCommit == \E w \in Write : w \notin Live /\ Live' = Live \cup {w} /\ Saved' = Saved
BookSave == Saved' \subseteq Saved \cup {Live} /\ Live' = Live
BookRestore == Live' \in Saved /\ Saved' = Saved
BookStep == BookCommit \/ BookSave \/ BookRestore

\* Opening the database changes nothing in it: a -wal file made for it is empty.
LEMMA OpenKeepsLive ==
    ASSUME TypeOK, NEW p \in Proc, Connect(p)
    PROVE  Live' = Live
  <1>1. CASE walAt # None
    BY <1>1 DEF Connect, Live, Logged
  <1>2. CASE walAt = None
    <2>1. walAt' \in Wal /\ wal' = [wal EXCEPT ![walAt'] = {}]
      BY <1>2, FreshWals DEF Connect
    <2>2. wal'[walAt'] = {}
      BY <2>1 DEF TypeOK
    <2> QED
      BY <1>2, <2>1, <2>2, RestoreAssumption DEF Connect, Live, Logged
  <1> QED
    BY <1>1, <1>2

\* What a host that serves puts into a backup is what the database holds.
LEMMA SnapshotIsLive ==
    ASSUME RestoreInv, NEW h \in Host, pc[h] \in Serving, NEW kind
    PROVE  Reads(h) = Live /\ Snapshot(h, kind).holds = Live
  <1>1. conn[h] = [file |-> main, wal |-> walAt] /\ conn[h] \in Conn
    BY DEF RestoreInv, ServedIsLive, PoolsOpen, TypeOK, Proc
  <1>2. walAt # None
    BY <1>1, RestoreAssumption DEF Conn
  <1>3. Reads(h) = Live
    BY <1>1, <1>2 DEF Reads, Live, Logged
  <1> QED
    BY <1>3 DEF Snapshot

\* A step of hosts alone commits, saves or restores, or does not show.
LEMMA AloneRefines ==
    ASSUME RestoreInv, AloneInv, Next, Alone
    PROVE  BookStep
  <1> USE RestoreAssumption, NullAssumption DEF RestoreInv, LockRules, TypeOK, Roles, PoolsOpen,
      CopyReady, Proc, Serving, Swapping, disk, Alone, AloneInv
  <1>0. present' = present /\ present \in SUBSET Proc
    BY DEF Next
  <1>1. ASSUME NEW h \in Host, Start(h) PROVE BookStep
    BY <1>1 DEF Start, BookStep, BookSave, Saved, Live, Logged, backups
  <1>2. ASSUME NEW p \in Host, Identify(p) PROVE BookStep
    <2>1. Live' = Live
      BY <1>2, CheckpointKeepsLive DEF Identify
    <2> QED
      BY <1>2, <2>1 DEF Identify, BookStep, BookSave, Saved, backups
  <1>3. ASSUME NEW p \in Host, Copy(p) PROVE BookStep
    <2>1. file'[main] = file[main]
      BY <1>3, FreshFiles DEF Copy
    <2> QED
      BY <1>3, <2>1 DEF Copy, BookStep, BookSave, Saved, Live, Logged, backups
  <1>4. ASSUME NEW p \in Host, RemoveSidecars(p) PROVE BookStep
    BY <1>4 DEF RemoveSidecars, BookStep, BookSave, Saved, Live, Logged, backups
  <1>5. ASSUME NEW p \in Host, Rename(p) PROVE BookStep
    <2>1. Live' = file[temp]
      BY <1>5 DEF Rename, Live, Logged
    <2> QED
      BY <1>5, <2>1 DEF Rename, BookStep, BookRestore, Saved, backups
  <1>6. ASSUME NEW p \in Host, SwapFails(p) PROVE BookStep
    BY <1>6 DEF SwapFails, BookStep, BookSave, Saved, Live, Logged, backups
  <1>7. ASSUME NEW h \in Host, DropMarker(h) PROVE BookStep
    BY <1>7 DEF DropMarker, BookStep, BookSave, Saved, Live, Logged, backups
  <1>8. ASSUME NEW h \in Host, Open(h) PROVE BookStep
    <2>1. Live' = Live
      BY <1>8, OpenKeepsLive DEF Open
    <2> QED
      BY <1>8, <2>1 DEF Open, BookStep, BookSave, Saved, backups
  <1>9. ASSUME NEW h \in Host, WriteMarker(h) PROVE BookStep
    BY <1>9 DEF WriteMarker, BookStep, BookSave, Saved, Live, Logged, backups
  <1>10. ASSUME NEW h \in Host, Exit(h) PROVE BookStep
    <2>1. conn[h].file = main /\ conn[h].wal = walAt
      BY <1>10 DEF Exit, ServedIsLive
    <2>2. Live' = Live
      BY <1>10, <2>1, CheckpointKeepsLive DEF Exit, Disconnect
    <2> QED
      BY <1>10, <2>2 DEF Exit, BookStep, BookSave, Saved, backups
  <1>11. ASSUME NEW h \in Host, NEW b \in pool, AskRestore(h, b) PROVE BookStep
    <2>1. Live' = Live
      BY <1>11 DEF AskRestore, Live, Logged
    <2>2. Snapshot(h, "pre-restore").holds = Live
      BY <1>11, SnapshotIsLive DEF AskRestore
    <2> QED
      BY <1>11, <2>1, <2>2 DEF AskRestore, BookStep, BookSave, Saved
  <1>12. ASSUME NEW h \in Host, NEW b \in pool, DeleteBackup(h, b) PROVE BookStep
    BY <1>12 DEF DeleteBackup, BookStep, BookSave, Saved, Live, Logged, backups
  <1>13. ASSUME NEW p \in Host, NEW kind \in Kind, TakeBackup(p, kind) PROVE BookStep
    <2>1. Live' = Live
      BY <1>13 DEF TakeBackup, Live, Logged
    <2>2. Snapshot(p, kind).holds = Live
      BY <1>13, SnapshotIsLive DEF TakeBackup
    <2>3. pool' \subseteq pool \cup {Snapshot(p, kind)}
      BY <1>13, RotatedShrinks DEF TakeBackup
    <2> QED
      BY <2>1, <2>2, <2>3 DEF BookStep, BookSave, Saved
  <1>14. ASSUME NEW p \in Host, NEW w \in Write, Commit(p, w) PROVE BookStep
    <2>1. w \notin Live /\ conn[p].wal = walAt /\ walAt \in Wal
      BY <1>14, SnapshotIsLive DEF Commit, ServedIsLive, Conn
    <2>2. Live' = Live \cup {w}
      BY <1>14, <2>1, RestoreAssumption DEF Commit, Live, Logged
    <2> QED
      BY <1>14, <2>1, <2>2 DEF Commit, BookStep, BookCommit, Saved, backups
  <1>15. ASSUME NEW p \in Host, Crash(p) PROVE BookStep
    BY <1>15 DEF Crash, BookStep, BookSave, Saved, Live, Logged, backups
  <1> QED
    BY <1>0, <1>1, <1>2, <1>3, <1>4, <1>5, <1>6, <1>7, <1>8, <1>9, <1>10, <1>11, <1>12,
       <1>13, <1>14, <1>15
       DEF Next, HostStep, StartUp, SwapIn, RestorerStep, WriterStep, Kind, Alone

\* backup.rs, swap_in: hosts alone implement LiveLedger. The book changes by whole
\* writes and whole restores, though a swap takes several steps and may be cut short.
THEOREM RestoresWhole == Spec => WholeRestores
  <1>1. Init => Promise!Init /\ AloneInv
    BY RestoreAssumption
       DEF Init, Promise!Init, Alone, AloneInv, Live, Logged, AnyOf, Proc
  <1>2. RestoreInv /\ AloneInv /\ [Next]_vars => AloneInv'
    <2>1. CASE Next /\ Alone
      BY <2>1, AloneStep
    <2>2. CASE Next /\ ~Alone
      BY <2>2 DEF Next, AloneInv, Alone
    <2>3. CASE UNCHANGED vars
      BY <2>3 DEF vars, AloneInv, Alone, Saved
    <2> QED
      BY <2>1, <2>2, <2>3
  <1>3. RestoreInv /\ AloneInv /\ [Next]_vars =>
            [Promise!Next]_<<IF Alone THEN Live ELSE {},
                             IF Alone THEN {b.holds : b \in pool} ELSE {}>>
    <2> USE DEF Promise!Next
    <2>1. CASE Next /\ Alone
      BY <2>1, AloneRefines
         DEF BookStep, BookCommit, BookSave, BookRestore, Next, Alone, Saved,
             Promise!Commit, Promise!Save, Promise!Restore
    <2>2. CASE Next /\ ~Alone
      BY <2>2 DEF Next, Alone
    <2>3. CASE UNCHANGED vars
      BY <2>3 DEF vars, Alone, Live, Logged
    <2> QED
      BY <2>1, <2>2, <2>3
  <1> QED
    BY <1>1, <1>2, <1>3, RestoreInvariant, PTL DEF Spec, WholeRestores, Promise!Spec

=============================================================================
