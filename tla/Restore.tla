------------------------------ MODULE Restore -------------------------------
(***************************************************************************)
(* Restoring a backup over the live database (backup.rs and db_lock.rs of  *)
(* bc-core; state.rs and commands/backup.rs of bc-service; restore.rs of   *)
(* bc-cli; the desktop and server hosts).                                  *)
(*                                                                         *)
(* A host takes the database lock when it starts, applies the restore that *)
(* a marker beside the database names, and only then opens its pool.  Its  *)
(* restore request writes that marker and ends the process.  The restore   *)
(* command takes the same lock around a swap of its own.  Every other      *)
(* command opens the database without the lock.                            *)
(*                                                                         *)
(* The database is the file at one path, replaced by renaming another over *)
(* it, and SQLite keeps what is committed but not yet in that file in a    *)
(* -wal file beside it, which the next to open the database replays,       *)
(* whatever file it was written for.  A process that has either file open  *)
(* keeps it when its name is removed or renamed over.                      *)
(***************************************************************************)
EXTENDS Naturals, FiniteSets

CONSTANTS
    Host,           \* desktop app and server processes
    Restorer,       \* processes of the restore command
    Writer,         \* processes of any other command that writes
    Casts,          \* the sets of these that there may be
    Nobody,         \* no process holds the lock
    File,           \* database files, at the path or unlinked
    Wal,            \* -wal files, at the path or unlinked
    None,           \* no file, no connection, no backup
    Write,          \* writes a user may commit
    Retain,         \* retain_count of the backup policy
    MaxBackups,     \* bound: backups ever taken
    MaxFaults       \* bound: crashes and filesystem steps that fail

Proc == Host \cup Restorer \cup Writer
Name == 1 .. MaxBackups
Kind == {"manual", "pre-restore", "pre-import"}

ASSUME RestoreAssumption ==
    /\ Casts \subseteq SUBSET Proc
    /\ File # {} /\ Nobody \notin Proc /\ None \notin File \cup Wal \cup Name
    /\ Retain \in Nat /\ MaxBackups \in Nat /\ MaxFaults \in Nat
    /\ Host \cap Restorer = {} /\ Host \cap Writer = {} /\ Restorer \cap Writer = {}

VARIABLES
    present,    \* the processes there are, rigid
    main,       \* the database file at the path
    file,       \* file[i]: the writes checkpointed into database file i
    walAt,      \* the -wal file beside the database, or None
    wal,        \* wal[l]: the writes in -wal file l
    temp,       \* the file at the .restore-tmp path, or None
    conn,       \* conn[p]: the files process p's pool has open, or None
    lock,       \* who holds the database lock
    marker,     \* the backup the .restore-pending marker names, or None
    pool,       \* the managed backups; a greater name is newer
    taken,      \* the name of the last backup taken
    pc,         \* pc[p]: how far process p has come
    asked,      \* asked[p]: the backup p's restore request names, or None
    crashes,    \* crashes so far
    failures    \* failed steps so far

vars == <<present, main, file, walAt, wal, temp, conn, lock, marker, pool, taken, pc, asked, crashes, failures>>
disk == <<main, file, walAt, wal, temp>>
backups == <<pool, taken>>
spent == <<crashes, failures>>

Conn == [file : File, wal : Wal]
Backup == [name : Name, kind : Kind, holds : SUBSET Write]
Serving == {"open", "asked", "restarting"}
Swapping == {"locked", "identified", "copied", "cleared"}

\* No connection is no pair of files.
ASSUME NullAssumption == None \notin Conn

TypeOK ==
    /\ present \in Casts
    /\ main \in File /\ file \in [File -> SUBSET Write]
    /\ walAt \in Wal \cup {None} /\ wal \in [Wal -> SUBSET Write]
    /\ temp \in File \cup {None}
    /\ conn \in [Proc -> Conn \cup {None}]
    /\ lock \in Proc \cup {Nobody}
    /\ marker \in Name \cup {None}
    /\ pool \subseteq Backup /\ taken \in 0 .. MaxBackups
    /\ pc \in [Proc -> {"down", "opening", "begun", "holding", "snapped", "swapped"}
                          \cup Serving \cup Swapping]
    /\ asked \in [Proc -> Name \cup {None}]
    /\ crashes \in 0 .. MaxFaults /\ failures \in 0 .. MaxFaults

-----------------------------------------------------------------------------
(* SQLite and the file system.                                             *)

Logged(l) == IF l = None THEN {} ELSE wal[l]

\* What a process that opened the database now would read.
Live == file[main] \cup Logged(walAt)

Reads(p) == file[conn[p].file] \cup wal[conn[p].wal]
Connected == {p \in Proc : conn[p] # None}
\* One file nobody has open is as good as another.
AnyOf(S) == CHOOSE i \in S : TRUE
FreshFile == File \ ({main} \cup {conn[p].file : p \in Connected})
FreshWal == Wal \ ({walAt} \cup {conn[p].wal : p \in Connected})

\* p opens the database in WAL mode, joining the -wal file or creating it.
Connect(p) ==
    /\ IF walAt # None
       THEN UNCHANGED <<walAt, wal>>
       ELSE FreshWal # {} /\ walAt' = AnyOf(FreshWal) /\ wal' = [wal EXCEPT ![AnyOf(FreshWal)] = {}]
    /\ conn' = [conn EXCEPT ![p] = [file |-> main, wal |-> walAt']]
    /\ UNCHANGED <<main, file, temp>>

\* The last connection to a database still at its path checkpoints its -wal
\* file and removes it; any other close leaves the files alone.
Checkpoint(others, f, l) ==
    IF f = main /\ \A q \in others : conn[q].file # f
    THEN file' = [file EXCEPT ![f] = @ \cup Logged(l)] /\ walAt' = None
    ELSE UNCHANGED <<file, walAt>>

Disconnect(p) ==
    /\ Checkpoint(Connected \ {p}, conn[p].file, conn[p].wal)
    /\ conn' = [conn EXCEPT ![p] = None]
    /\ UNCHANGED <<main, wal, temp>>

-----------------------------------------------------------------------------
(* The pool of managed backups.                                            *)

\* rotate: manual backups stay, and of each other kind the Retain newest.
Newer(b, B) == {n \in B : n.kind = b.kind /\ n.name > b.name}
Rotated(B) == {b \in B : b.kind = "manual" \/ Cardinality(Newer(b, B)) < Retain}

Snapshot(p, kind) == [name |-> taken + 1, kind |-> kind, holds |-> Reads(p)]
Named(n) == CHOOSE b \in pool : b.name = n
Listed(n) == \E b \in pool : b.name = n

\* backup: a managed snapshot, then the rotation.
TakeBackup(p, kind) ==
    /\ pc[p] \in Serving /\ taken < MaxBackups
    /\ taken' = taken + 1
    /\ pool' = Rotated(pool \cup {Snapshot(p, kind)})
    /\ UNCHANGED <<disk, conn, lock, marker, pc, asked, spent>>

\* delete removes one backup of any kind.
DeleteBackup(h, b) ==
    /\ pc[h] \in Serving /\ b \in pool
    /\ pool' = pool \ {b}
    /\ UNCHANGED <<disk, conn, lock, marker, taken, pc, asked, spent>>

-----------------------------------------------------------------------------
(* swap_in, which a host runs for its marker and the restore command for    *)
(* its argument.                                                            *)

Candidate(p) == IF p \in Host THEN marker ELSE asked[p]

IdentifyUnopened(p) ==     \* slip: the id is read off the file, its -wal file unread
    /\ pc[p] = "locked"
    /\ pc' = [pc EXCEPT ![p] = "identified"]
    /\ UNCHANGED <<disk, conn, lock, marker, backups, asked, spent>>

\* read_file_ledger_id opens the live database and closes it again.
Identify(p) ==
    /\ pc[p] = "locked"
    /\ Checkpoint(Connected, main, walAt)
    /\ pc' = [pc EXCEPT ![p] = "identified"]
    /\ UNCHANGED <<main, wal, temp, conn, lock, marker, backups, asked, spent>>

\* The temp file an earlier swap left is removed, the candidate copied there and
\* stamped with the live id.
Copy(p) ==
    /\ pc[p] = "identified" /\ Listed(Candidate(p))
    /\ FreshFile # {} /\ temp' = AnyOf(FreshFile)
    /\ file' = [file EXCEPT ![AnyOf(FreshFile)] = Named(Candidate(p)).holds]
    /\ pc' = [pc EXCEPT ![p] = "copied"]
    /\ UNCHANGED <<main, walAt, wal, conn, lock, marker, backups, asked, spent>>

RemoveSidecars(p) ==
    /\ pc[p] = "copied"
    /\ walAt' = None
    /\ pc' = [pc EXCEPT ![p] = "cleared"]
    /\ UNCHANGED <<main, file, wal, temp, conn, lock, marker, backups, asked, spent>>

RenameCleaned(p) ==     \* slip: the temp file is cleaned up before the rename
    /\ pc[p] = "cleared"
    /\ main' = None /\ temp' = None
    /\ pc' = [pc EXCEPT ![p] = "swapped"]
    /\ UNCHANGED <<file, walAt, wal, conn, lock, marker, backups, asked, spent>>

Rename(p) ==
    /\ pc[p] = "cleared"
    /\ main' = temp /\ temp' = None
    /\ pc' = [pc EXCEPT ![p] = "swapped"]
    /\ UNCHANGED <<file, walAt, wal, conn, lock, marker, backups, asked, spent>>

\* A step of the swap fails.  The host goes on with the database it finds and
\* keeps its marker; the command ends.
SwapFails(p) ==
    /\ pc[p] \in {"identified", "copied", "cleared"}
    /\ \/ pc[p] = "identified" /\ ~Listed(Candidate(p)) /\ UNCHANGED failures
       \/ crashes + failures < MaxFaults /\ failures' = failures + 1
    /\ IF p \in Host
       THEN pc' = [pc EXCEPT ![p] = "opening"] /\ UNCHANGED <<lock, asked>>
       ELSE /\ pc' = [pc EXCEPT ![p] = "down"]
            /\ lock' = Nobody
            /\ asked' = [asked EXCEPT ![p] = None]
    /\ UNCHANGED <<disk, conn, marker, backups, crashes>>

-----------------------------------------------------------------------------
(* A host.                                                                 *)

StartUnlocked(h) ==     \* slip: a host goes on without the lock
    /\ pc[h] = "down"
    /\ lock' = h
    /\ pc' = [pc EXCEPT ![h] = IF marker = None THEN "opening" ELSE "locked"]
    /\ UNCHANGED <<disk, conn, marker, backups, asked, spent>>

\* acquire_lock, then the look at the marker.  A lock still held when
\* LOCK_WAIT has passed ends the process, as if it had not started.
Start(h) ==
    /\ pc[h] = "down" /\ lock = Nobody
    /\ lock' = h
    /\ pc' = [pc EXCEPT ![h] = IF marker = None THEN "opening" ELSE "locked"]
    /\ UNCHANGED <<disk, conn, marker, backups, asked, spent>>

DropNothing(h) ==     \* slip: the marker outlives the restore it asked for
    /\ pc[h] = "swapped"
    /\ pc' = [pc EXCEPT ![h] = "opening"]
    /\ UNCHANGED <<disk, conn, lock, marker, backups, asked, spent>>

\* apply_pending_restore drops the marker once the swap is done; should that
\* fail it only warns.
DropMarker(h) ==
    /\ pc[h] = "swapped"
    /\ \/ marker' = None /\ UNCHANGED failures
       \/ crashes + failures < MaxFaults /\ failures' = failures + 1 /\ UNCHANGED marker
    /\ pc' = [pc EXCEPT ![h] = "opening"]
    /\ UNCHANGED <<disk, conn, lock, backups, asked, crashes>>

Open(h) ==
    /\ pc[h] = "opening"
    /\ Connect(h)
    /\ pc' = [pc EXCEPT ![h] = "open"]
    /\ UNCHANGED <<lock, marker, backups, asked, spent>>

\* restore_database validates the candidate and takes the safety snapshot ...
AskRestore(h, b) ==
    /\ pc[h] = "open" /\ b \in pool /\ taken < MaxBackups
    /\ taken' = taken + 1
    /\ pool' = pool \cup {Snapshot(h, "pre-restore")}
    /\ asked' = [asked EXCEPT ![h] = b.name]
    /\ pc' = [pc EXCEPT ![h] = "asked"]
    /\ UNCHANGED <<disk, conn, lock, marker, spent>>

\* ... then writes the marker, and the host begins to shut down.
WriteMarker(h) ==
    /\ pc[h] = "asked"
    /\ marker' = asked[h]
    /\ asked' = [asked EXCEPT ![h] = None]
    /\ pc' = [pc EXCEPT ![h] = "restarting"]
    /\ UNCHANGED <<disk, conn, lock, backups, spent>>

\* The pool is closed and the process exits: after a restore request, or
\* because the user quits.
Exit(h) ==
    /\ pc[h] \in {"open", "restarting"}
    /\ Disconnect(h)
    /\ lock' = Nobody
    /\ pc' = [pc EXCEPT ![h] = "down"]
    /\ UNCHANGED <<marker, backups, asked, spent>>

-----------------------------------------------------------------------------
(* The restore command, whose context opens the database before it asks    *)
(* for the lock.                                                           *)

Begin(r, b) ==
    /\ pc[r] = "down" /\ b \in pool
    /\ Connect(r)
    /\ asked' = [asked EXCEPT ![r] = b.name]
    /\ pc' = [pc EXCEPT ![r] = "begun"]
    /\ UNCHANGED <<lock, marker, backups, spent>>

AcquireNothing(r) ==     \* slip: the command swaps without the lock
    /\ pc[r] = "begun"
    /\ pc' = [pc EXCEPT ![r] = "holding"]
    /\ UNCHANGED <<disk, conn, lock, marker, backups, asked, spent>>

Acquire(r) ==
    /\ pc[r] = "begun" /\ lock = Nobody
    /\ lock' = r
    /\ pc' = [pc EXCEPT ![r] = "holding"]
    /\ UNCHANGED <<disk, conn, marker, backups, asked, spent>>

Refuse(r) ==
    /\ pc[r] = "begun" /\ lock # Nobody
    /\ Disconnect(r)
    /\ asked' = [asked EXCEPT ![r] = None]
    /\ pc' = [pc EXCEPT ![r] = "down"]
    /\ UNCHANGED <<lock, marker, backups, spent>>

SafetySnapshot(r) ==
    /\ pc[r] = "holding" /\ taken < MaxBackups
    /\ taken' = taken + 1
    /\ pool' = pool \cup {Snapshot(r, "pre-restore")}
    /\ pc' = [pc EXCEPT ![r] = "snapped"]
    /\ UNCHANGED <<disk, conn, lock, marker, asked, spent>>

ClosePool(r) ==
    /\ pc[r] = "snapped"
    /\ Disconnect(r)
    /\ pc' = [pc EXCEPT ![r] = "locked"]
    /\ UNCHANGED <<lock, marker, backups, asked, spent>>

Finish(r) ==
    /\ r \in Restorer /\ pc[r] = "swapped"
    /\ lock' = Nobody
    /\ asked' = [asked EXCEPT ![r] = None]
    /\ pc' = [pc EXCEPT ![r] = "down"]
    /\ UNCHANGED <<disk, conn, marker, backups, spent>>

-----------------------------------------------------------------------------
(* Any other command.                                                      *)

Run(c) ==
    /\ pc[c] = "down"
    /\ Connect(c)
    /\ pc' = [pc EXCEPT ![c] = "open"]
    /\ UNCHANGED <<lock, marker, backups, asked, spent>>

End(c) ==
    /\ pc[c] = "open"
    /\ Disconnect(c)
    /\ pc' = [pc EXCEPT ![c] = "down"]
    /\ UNCHANGED <<lock, marker, backups, asked, spent>>

-----------------------------------------------------------------------------
\* One committed write of an open host or command.  A host that is shutting
\* down still serves the requests it has accepted.
Commit(p, w) ==
    /\ pc[p] \in Serving /\ w \notin Reads(p)
    /\ wal' = [wal EXCEPT ![conn[p].wal] = @ \cup {w}]
    /\ UNCHANGED <<main, file, walAt, temp, conn, lock, marker, backups, pc, asked, spent>>

\* A process dies: its lock and its files are released, the disk stays.
Crash(p) ==
    /\ pc[p] # "down" /\ crashes + failures < MaxFaults
    /\ crashes' = crashes + 1
    /\ conn' = [conn EXCEPT ![p] = None]
    /\ lock' = IF lock = p THEN Nobody ELSE lock
    /\ asked' = [asked EXCEPT ![p] = None]
    /\ pc' = [pc EXCEPT ![p] = "down"]
    /\ UNCHANGED <<disk, marker, backups, failures>>

Init ==
    /\ present \in Casts
    /\ main = AnyOf(File) /\ file = [i \in File |-> {}]
    /\ walAt = None /\ wal = [l \in Wal |-> {}]
    /\ temp = None
    /\ conn = [p \in Proc |-> None]
    /\ lock = Nobody
    /\ marker = None
    /\ pool = {} /\ taken = 0
    /\ pc = [p \in Proc |-> "down"]
    /\ asked = [p \in Proc |-> None]
    /\ crashes = 0 /\ failures = 0

SwapIn(p) == Identify(p) \/ Copy(p) \/ RemoveSidecars(p) \/ Rename(p) \/ SwapFails(p)
StartUp(h) == Start(h) \/ SwapIn(h) \/ DropMarker(h) \/ Open(h)

HostStep(h) ==
    \/ StartUp(h) \/ WriteMarker(h) \/ Exit(h)
    \/ \E b \in pool : AskRestore(h, b) \/ DeleteBackup(h, b)
    \/ \E kind \in {"manual", "pre-import"} : TakeBackup(h, kind)

RestorerStep(r) ==
    \/ \E b \in pool : Begin(r, b)
    \/ Acquire(r) \/ Refuse(r) \/ SafetySnapshot(r) \/ ClosePool(r)
    \/ SwapIn(r) \/ Finish(r)

WriterStep(c) == Run(c) \/ End(c) \/ TakeBackup(c, "pre-import")

Next ==
    /\ \/ \E h \in Host \cap present : HostStep(h)
       \/ \E r \in Restorer \cap present : RestorerStep(r)
       \/ \E c \in Writer \cap present : WriterStep(c)
       \/ \E p \in present \ Restorer, w \in Write : Commit(p, w)
       \/ \E p \in present : Crash(p)
    /\ UNCHANGED present

Spec == Init /\ [][Next]_vars

\* docs/deploy/server.md runs the server under systemd with Restart=always, and
\* the desktop app relaunches itself: a host that exits is started again, and a
\* started host runs on.  What users ask for carries no fairness.
FairSpec == Spec /\ WF_vars((\E h \in Host : StartUp(h)) /\ UNCHANGED present)
                 /\ \A h \in Host : WF_vars(pc[h] = "restarting" /\ Exit(h) /\ UNCHANGED present)

-----------------------------------------------------------------------------
\* db_lock.rs: the lock keeps a swap away from a serving host.  While a host
\* serves it holds the lock, and what it has open is the file at the path and
\* the -wal file beside it, whatever the commands do.
ServedIsLive ==
    \A h \in Host : pc[h] \in Serving =>
        lock = h /\ conn[h] = [file |-> main, wal |-> walAt]

\* backup.rs, close_pool: no connection left behind by a command takes back what
\* the database holds.  While a host serves, the live database only grows.
ServedStays ==
    [][\A h \in Host : pc[h] \in Serving => Live \subseteq Live']_vars

\* backup.rs, swap_in: the live database is untouched until the rename, which
\* replaces all of it.  Where there are only hosts, what they do to files, sidecars
\* and the marker shows as commits, saves and whole restores.
Alone == present \subseteq Host
Promise == INSTANCE LiveLedger WITH
    book <- IF Alone THEN Live ELSE {},
    saved <- IF Alone THEN {b.holds : b \in pool} ELSE {}
WholeRestores == Promise!Spec

\* state.rs: a restore that was asked for is applied by the next start, also
\* when hosts crash on the way, unless its backup is gone or a step
\* of the swap fails.  Where there are commands one may hold the lock for as long
\* as it likes.
RestoreApplied ==
    \A n \in Name : (Alone /\ marker = n /\ Listed(n)) ~> (marker # n \/ ~Listed(n) \/ failures > 0)
=============================================================================
