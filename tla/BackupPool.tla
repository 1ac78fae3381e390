----------------------------- MODULE BackupPool -----------------------------
(***************************************************************************)
(* Managed backups: their pools, retention and ledger ids (backup.rs and   *)
(* ledger.rs of bc-core, the backup commands of bc-cli and bc-service).    *)
(*                                                                         *)
(* Every database carries a ledger id, and its backups live in the pool    *)
(* that id names.  A process reads the id and the policy when it opens the *)
(* database and keeps both.  Backups are ordered and dated by the local    *)
(* time in their file name, which a clock change may set back.             *)
(***************************************************************************)
EXTENDS Integers, FiniteSets, Functions

CONSTANTS
    Db,             \* database files
    Holder,         \* processes that hold the database lock: app, server
    Command,        \* processes that do not
    Id,             \* ledger ids
    None,           \* no database open; an unset limit
    Policy,         \* [count, days] settings as loaded: a count of 0 is no limit
    Day,            \* ticks in a day
    Fold, Shift,    \* at tick Fold local clocks go back by Shift
    Horizon,        \* bound: the last tick
    MaxTaken        \* bound: backups ever taken

Proc == Holder \cup Command
Kind == {"manual", "pre-import"}    \* one that is not rotated, one that is
Tick == 0 .. Horizon

ASSUME PoolAssumption ==
    /\ Day \in Nat \ {0} /\ Fold \in Nat /\ Shift \in Nat
    /\ Horizon \in Nat /\ MaxTaken \in Nat
    /\ None \notin Db \cup Nat
    /\ Policy \subseteq [count : (Nat \ {0}) \cup {None}, days : Nat \cup {None}]

VARIABLES
    now,            \* the time
    pools,          \* the backup files
    taken,          \* backups taken so far
    idOf,           \* idOf[d]: the ledger id in database d
    opened,         \* opened[p]: the database process p has open, or None
    cached,         \* cached[p]: the ledger id p's service names its pool by
    policy,         \* policy[p]: the policy p's service applies
    settings        \* the policy on disk

vars == <<now, pools, taken, idOf, opened, cached, policy, settings>>

\* at is when the file was written, stamp what its name says.
Backup == [id : Id, kind : Kind, stamp : 0 .. Horizon + Shift, at : Tick]

TypeOK ==
    /\ now \in Tick /\ pools \subseteq Backup /\ taken \in 0 .. MaxTaken
    /\ idOf \in [Db -> Id]
    /\ opened \in [Proc -> Db \cup {None}]
    /\ cached \in [Proc -> Id]
    /\ policy \in [Proc -> Policy] /\ settings \in Policy

-----------------------------------------------------------------------------
(* Retention.                                                              *)

\* The local time at tick t, and the instant a local time is read back as: the
\* earlier one when the clock showed it twice.
Stamp(t) == IF t < Fold THEN t + Shift ELSE t
Instant(s) == IF s < Fold + Shift THEN s - Shift ELSE s

\* age_days: whole days, toward zero.
AgeDays(s) == IF now >= Instant(s) THEN (now - Instant(s)) \div Day
              ELSE -((Instant(s) - now) \div Day)

\* prune_indices over ages that are sorted newest first.
PruneEither(ages, limits) ==   \* slip: a backup must satisfy both limits to stay
    {i \in DOMAIN ages : ~ (/\ limits.count # None /\ i <= limits.count
                            /\ limits.days # None /\ ages[i] < limits.days)}
PruneIndices(ages, limits) ==
    {i \in DOMAIN ages :
        /\ limits.count # None \/ limits.days # None
        /\ ~ (limits.count # None /\ i <= limits.count)
        /\ ~ (limits.days # None /\ ages[i] < limits.days)}

\* rotate: each rotated kind of one pool against its own backups, by stamp.
PoolOf(B, id, kind) == {b \in B : b.id = id /\ b.kind = kind}
ListedOldestFirst(B, id, kind) ==   \* slip: the sort runs the other way
    LET S == PoolOf(B, id, kind) IN
    CHOOSE list \in Injection(1 .. Cardinality(S), S) :
        \A i, j \in DOMAIN list : i < j => list[i].stamp < list[j].stamp
Listed(B, id, kind) ==
    LET S == PoolOf(B, id, kind) IN
    CHOOSE list \in Injection(1 .. Cardinality(S), S) :
        \A i, j \in DOMAIN list : i < j => list[i].stamp > list[j].stamp
Pruned(B, id, limits) ==
    LET group == Listed(B, id, "pre-import")
        ages == [i \in DOMAIN group |-> AgeDays(group[i].stamp)]
    IN  {group[i] : i \in PruneIndices(ages, limits)}

-----------------------------------------------------------------------------
Init ==
    /\ now = 0 /\ pools = {} /\ taken = 0
    /\ idOf \in [Db -> Id] /\ \A d, e \in Db : d # e => idOf[d] # idOf[e]
    /\ opened = [p \in Proc |-> None]
    /\ settings \in Policy
    /\ \E i \in Id : cached = [p \in Proc |-> i]
    /\ policy = [p \in Proc |-> settings]

\* A holder opens a database no other holder has open; a command opens any.
Open(p, d) ==
    /\ opened[p] = None
    /\ p \in Holder => \A q \in Holder : opened[q] # d
    /\ opened' = [opened EXCEPT ![p] = d]
    /\ cached' = [cached EXCEPT ![p] = idOf[d]]
    /\ policy' = [policy EXCEPT ![p] = settings]
    /\ UNCHANGED <<now, pools, taken, idOf, settings>>

Close(p) ==
    /\ opened[p] # None
    /\ opened' = [opened EXCEPT ![p] = None]
    /\ UNCHANGED <<now, pools, taken, idOf, cached, policy, settings>>

\* backup: the snapshot is written under a name of its own, then the pool is
\* rotated.
TakeBackup(p, kind) ==
    LET new == [id |-> cached[p], kind |-> kind, stamp |-> Stamp(now), at |-> now]
        all == pools \cup {new}
    IN  /\ opened[p] # None /\ taken < MaxTaken
        /\ \A b \in pools : b.id # new.id \/ b.kind # kind \/ b.stamp # new.stamp
        /\ taken' = taken + 1
        /\ pools' = all \ Pruned(all, cached[p], policy[p])
        /\ UNCHANGED <<now, idOf, opened, cached, policy, settings>>

\* delete takes a file name in the process's own pool.
Delete(p, b) ==
    /\ opened[p] # None /\ b \in pools /\ b.id = cached[p]
    /\ pools' = pools \ {b}
    /\ UNCHANGED <<now, taken, idOf, opened, cached, policy, settings>>

\* update_backup_settings saves the policy and reloads it in the open service.
UpdateSettings(p, limits) ==
    /\ p \in Holder /\ opened[p] # None
    /\ settings' = limits
    /\ policy' = [policy EXCEPT ![p] = limits]
    /\ UNCHANGED <<now, pools, taken, idOf, opened, cached>>

\* A fresh id: one that no database, pool or process has.
Fresh(id) ==
    /\ \A d \in Db : idOf[d] # id
    /\ \A b \in pools : b.id # id
    /\ \A p \in Proc : cached[p] # id

RekeyUnlocked(p, id) ==     \* slip: rekey does not take the database lock
    /\ p \in Command /\ opened[p] # None /\ Fresh(id)
    /\ idOf' = [idOf EXCEPT ![opened[p]] = id]
    /\ cached' = [cached EXCEPT ![p] = id]
    /\ UNCHANGED <<now, pools, taken, opened, policy, settings>>

\* rekey: refused while a holder has the database open.
Rekey(p, id) ==
    /\ p \in Command /\ opened[p] # None /\ Fresh(id)
    /\ \A q \in Holder : opened[q] # opened[p]
    /\ idOf' = [idOf EXCEPT ![opened[p]] = id]
    /\ cached' = [cached EXCEPT ![p] = id]
    /\ UNCHANGED <<now, pools, taken, opened, policy, settings>>

\* A user copies one closed database file over another: its id comes along.
CopyByHand(d, e) ==
    /\ d # e /\ \A p \in Proc : opened[p] \notin {d, e}
    /\ idOf' = [idOf EXCEPT ![e] = idOf[d]]
    /\ UNCHANGED <<now, pools, taken, opened, cached, policy, settings>>

Pass == /\ now < Horizon
        /\ now' = now + 1
        /\ UNCHANGED <<pools, taken, idOf, opened, cached, policy, settings>>

Next ==
    \/ \E p \in Proc : \/ \E d \in Db : Open(p, d)
                       \/ Close(p)
                       \/ \E kind \in Kind : TakeBackup(p, kind)
                       \/ \E b \in pools : Delete(p, b)
                       \/ \E limits \in Policy : UpdateSettings(p, limits)
                       \/ \E id \in Id : Rekey(p, id)
    \/ \E d, e \in Db : CopyByHand(d, e)
    \/ Pass

Spec == Init /\ [][Next]_vars

-----------------------------------------------------------------------------
\* Every name reads back as the time it was written: none is of the hour the
\* clock shows twice.
Dated(B) == \A b \in B : Instant(b.stamp) = b.at

\* A limit of 0 days and no count would keep no backup at all.
KeepsSome == \A limits \in Policy : limits.count # None \/ limits.days # 0

\* docs/DESIGN.md:388, the other way round: b is of a rotated kind, and of its
\* pool's backups of that kind, by when they were taken, it is neither among the
\* retain-count newest nor newer than retain-days.
Expendable(b, B, limits) ==
    /\ b.kind # "manual"
    /\ limits.count # None \/ limits.days # None
    /\ limits.count # None =>
          Cardinality({n \in B : n.id = b.id /\ n.kind = b.kind /\ n.at > b.at})
              >= limits.count
    /\ limits.days # None => (now - b.at) \div Day >= limits.days

\* backup and rotate: taking a backup removes only expendable ones of the pool
\* it goes to, as long as every name is dated right.
UnionPolicy ==
    [][taken' # taken /\ Dated(pools \cup pools') =>
        \A b \in pools \ pools' : \E p \in Proc :
            /\ opened[p] # None /\ cached[p] = b.id
            /\ Expendable(b, pools \cup pools', policy[p])]_vars

\* backup and rotate: the backup just taken stays, on the same condition, when
\* no policy keeps nothing.
JustTakenStays ==
    [][taken' # taken /\ Dated(pools) /\ Instant(Stamp(now)) = now
        => \E b \in pools' \ pools : b.at = now]_vars

\* backup.rs list and rotate, bc-cli rekey: the app and the server back up into
\* the pool their database's id names, and no other, whatever commands run.
HoldersKeepTheirPool ==
    \A h \in Holder : opened[h] # None => cached[h] = idOf[opened[h]]
=============================================================================
