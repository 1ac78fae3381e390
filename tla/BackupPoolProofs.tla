-------------------------- MODULE BackupPoolProofs --------------------------
(***************************************************************************)
(* Proofs about BackupPool: that a holder backs up into the pool its       *)
(* database's id names, that rotation removes only what both limits give   *)
(* up, and that the backup just taken stays.                               *)
(*                                                                         *)
(* BackupInv is inductive: pools are finite, no two backups of a pool and  *)
(* kind have one name, and none is from the future.  The rest is the order *)
(* rotation lists a pool in: names are unique, so a listing exists and is  *)
(* strictly newest first (ListedNewestFirst); names that read back right   *)
(* order backups as the times they were taken do.                          *)
(***************************************************************************)
EXTENDS BackupPool, FiniteSetTheorems, TLAPS

\* A pool's backups of one kind have names of their own.
Distinct(B) ==
    \A b, c \in B : b.id = c.id /\ b.kind = c.kind /\ b.stamp = c.stamp => b = c

BackupInv ==
    /\ TypeOK
    /\ IsFiniteSet(pools) /\ Distinct(pools)
    /\ \A b \in pools : b.at <= now
    /\ HoldersKeepTheirPool

-----------------------------------------------------------------------------
(* Listing a pool newest first.                                            *)

\* Backups with stamps of their own can be listed newest first: each at one
\* more than the number of newer ones.
LEMMA NewestFirst ==
    ASSUME NEW S, IsFiniteSet(S), \A x \in S : x.stamp \in Nat,
           \A x, y \in S : x.stamp = y.stamp => x = y
    PROVE  \E list \in Injection(1 .. Cardinality(S), S) :
               \A i, j \in DOMAIN list : i < j => list[i].stamp > list[j].stamp
  <1> DEFINE n == Cardinality(S)
             Newer(x) == {y \in S : y.stamp > x.stamp}
             rank == [x \in S |-> Cardinality(Newer(x)) + 1]
             list == [i \in 1 .. n |-> CHOOSE x \in S : rank[x] = i]
  <1>1. n \in Nat
    BY FS_CardinalityType
  <1>2. ASSUME NEW x \in S
        PROVE  IsFiniteSet(Newer(x)) /\ Cardinality(Newer(x)) \in Nat /\ rank[x] \in 1 .. n
    <2>1. IsFiniteSet(Newer(x))
      <3>1. Newer(x) \in SUBSET S
        OBVIOUS
      <3> QED
        BY <3>1, FS_Subset
    <2>2. x \notin Newer(x)
      OBVIOUS
    <2>3. Cardinality(Newer(x) \cup {x}) = Cardinality(Newer(x)) + 1
      BY <2>1, <2>2, FS_AddElement
    <2>4. Newer(x) \cup {x} \in SUBSET S
      OBVIOUS
    <2>5. Cardinality(Newer(x) \cup {x}) <= n
      BY <2>4, FS_Subset
    <2>6. Cardinality(Newer(x)) \in Nat
      BY <2>1, FS_CardinalityType
    <2> HIDE DEF Newer, n
    <2> QED
      BY <1>1, <2>1, <2>3, <2>5, <2>6
  <1>3. ASSUME NEW x \in S, NEW y \in S, x.stamp > y.stamp
        PROVE  rank[x] < rank[y]
    <2>1. Newer(x) \cup {x} \in SUBSET Newer(y)
      <3>1. x.stamp \in Nat /\ y.stamp \in Nat
        OBVIOUS
      <3>2. ASSUME NEW z \in S, z.stamp > x.stamp
            PROVE  z.stamp > y.stamp
        <4>1. z.stamp \in Nat
          OBVIOUS
        <4> QED
          BY <1>3, <3>1, <3>2, <4>1
      <3> QED
        BY <1>3, <3>2
    <2>2. x \notin Newer(x)
      OBVIOUS
    <2>3. Cardinality(Newer(x) \cup {x}) = Cardinality(Newer(x)) + 1
      BY <1>2, <2>2, FS_AddElement
    <2>4. Cardinality(Newer(x) \cup {x}) <= Cardinality(Newer(y))
      BY <1>2, <2>1, FS_Subset
    <2>5. rank[x] = Cardinality(Newer(x)) + 1 /\ rank[y] = Cardinality(Newer(y)) + 1
      OBVIOUS
    <2> HIDE DEF Newer, rank
    <2> QED
      BY <1>2, <2>3, <2>4, <2>5
  <1> HIDE DEF Newer, n
  <1>4. rank \in Injection(S, 1 .. n)
    <2>1. rank \in [S -> 1 .. n]
      BY <1>2
    <2>2. ASSUME NEW x \in S, NEW y \in S, rank[x] = rank[y]
          PROVE  x = y
      <3>1. x.stamp \in Nat /\ y.stamp \in Nat /\ rank[x] \in Nat /\ rank[y] \in Nat
        BY <1>1, <1>2
      <3>2. ~ (x.stamp > y.stamp) /\ ~ (y.stamp > x.stamp)
        BY <1>3, <2>2, <3>1
      <3> QED
        BY <3>1, <3>2
    <2> HIDE DEF rank
    <2> QED
      BY <2>1, <2>2 DEF Injection, IsInjective
  <1> HIDE DEF rank
  <1>5. \A i \in 1 .. n : \E x \in S : rank[x] = i
    <2>1. IsFiniteSet(1 .. n) /\ Cardinality(1 .. n) = n
      BY <1>1, FS_Interval
    <2>2. Cardinality(S) = Cardinality(1 .. n)
      BY <2>1 DEF n
    <2>3. rank \in Surjection(S, 1 .. n)
      BY <1>4, <2>1, <2>2, FS_Injection
    <2> QED
      BY <2>3 DEF Surjection
  <1>6. \A i \in 1 .. n : list[i] \in S /\ rank[list[i]] = i
    BY <1>5
  <1>7. DOMAIN list = 1 .. n
    OBVIOUS
  <1>8. list \in [1 .. n -> S]
    BY <1>6
  <1> HIDE DEF list
  <1>9. list \in Injection(1 .. n, S)
    BY <1>6, <1>7, <1>8 DEF Injection, IsInjective
  <1>10. \A i, j \in DOMAIN list : i < j => list[i].stamp > list[j].stamp
    <2> SUFFICES ASSUME NEW i \in 1 .. n, NEW j \in 1 .. n, i < j
                 PROVE  list[i].stamp > list[j].stamp
      BY <1>7
    <2> DEFINE x == list[i]
               y == list[j]
    <2>1. x \in S /\ y \in S /\ rank[x] = i /\ rank[y] = j
      BY <1>6
    <2> HIDE DEF x, y
    <2>2. x.stamp \in Nat /\ y.stamp \in Nat /\ i \in Nat /\ j \in Nat
      BY <1>1, <2>1
    <2>3. x.stamp # y.stamp
      BY <2>1, <2>2
    <2>4. ~ (y.stamp > x.stamp)
      BY <1>1, <1>3, <2>1
    <2> QED
      BY <2>2, <2>3, <2>4 DEF x, y
  <1> QED
    BY <1>9, <1>10 DEF n

\* list: a pool of distinct names is listed without repeats, newest name first.
LEMMA ListedNewestFirst ==
    ASSUME NEW B, IsFiniteSet(B), B \subseteq Backup, Distinct(B), NEW id, NEW kind,
           PoolAssumption
    PROVE  /\ PoolOf(B, id, kind) \subseteq B /\ IsFiniteSet(PoolOf(B, id, kind))
           /\ Listed(B, id, kind)
                \in Injection(1 .. Cardinality(PoolOf(B, id, kind)), PoolOf(B, id, kind))
           /\ \A i, j \in DOMAIN Listed(B, id, kind) :
                i < j => Listed(B, id, kind)[i].stamp > Listed(B, id, kind)[j].stamp
  <1> DEFINE S == PoolOf(B, id, kind)
  <1>1. S \in SUBSET B /\ \A b \in S : b.id = id /\ b.kind = kind
    BY DEF PoolOf
  <1>2. IsFiniteSet(S)
    BY <1>1, FS_Subset
  <1>3. \A b \in S : b.stamp \in Nat
    BY <1>1 DEF Backup, PoolAssumption
  <1>4. \A b, c \in S : b.stamp = c.stamp => b = c
    BY <1>1 DEF Distinct
  <1> HIDE DEF S
  <1>5. \E list \in Injection(1 .. Cardinality(S), S) :
            \A i, j \in DOMAIN list : i < j => list[i].stamp > list[j].stamp
    BY <1>2, <1>3, <1>4, NewestFirst
  <1>6. Listed(B, id, kind) =
            CHOOSE list \in Injection(1 .. Cardinality(S), S) :
                \A i, j \in DOMAIN list : i < j => list[i].stamp > list[j].stamp
    BY DEF Listed, S
  <1> QED
    BY <1>1, <1>2, <1>5, <1>6 DEF S

-----------------------------------------------------------------------------
(* Taking a backup.                                                        *)

\* What TakeBackup adds: the new backup beside the pools.
New(p, kind) == [id |-> cached[p], kind |-> kind, stamp |-> Stamp(now), at |-> now]
With(p, kind) == pools \cup {New(p, kind)}

LEMMA StampTypes ==
    ASSUME PoolAssumption, now \in Tick
    PROVE  Stamp(now) \in 0 .. Horizon + Shift
  BY DEF PoolAssumption, Stamp, Tick

\* The pools with the new backup are as the pools were: finite, typed, each
\* name its own, and none from the future.
LEMMA WithNew ==
    ASSUME PoolAssumption, BackupInv, NEW p \in Proc, NEW kind \in Kind, TakeBackup(p, kind)
    PROVE  /\ New(p, kind) \in Backup /\ New(p, kind) \notin pools
           /\ With(p, kind) \subseteq Backup /\ IsFiniteSet(With(p, kind))
           /\ Distinct(With(p, kind))
           /\ \A b \in With(p, kind) : b.at <= now
           /\ pools' = With(p, kind) \ Pruned(With(p, kind), cached[p], policy[p])
           /\ taken' \in 0 .. MaxTaken
           /\ UNCHANGED <<now, idOf, opened, cached, policy, settings>>
  <1> DEFINE new == New(p, kind)
  <1>1. /\ new.id = cached[p] /\ new.kind = kind /\ new.stamp = Stamp(now) /\ new.at = now
        /\ new = [id |-> cached[p], kind |-> kind, stamp |-> Stamp(now), at |-> now]
    BY DEF New
  <1>2. new \in Backup
    <2>1. cached[p] \in Id /\ now \in Tick
      BY DEF BackupInv, TypeOK
    <2> HIDE DEF new
    <2> QED
      BY <1>1, <2>1, StampTypes DEF Backup
  <1>3. \A b \in pools : b.id # new.id \/ b.kind # new.kind \/ b.stamp # new.stamp
    BY <1>1 DEF TakeBackup
  <1>4. new \notin pools
    BY <1>3
  <1>5. now \in Int
    BY DEF BackupInv, TypeOK, Tick, PoolAssumption
  <1>6. With(p, kind) = pools \cup {new}
    BY DEF With
  <1>7. taken' \in 0 .. MaxTaken
    BY DEF TakeBackup, BackupInv, TypeOK, PoolAssumption
  <1>8. /\ pools' = With(p, kind) \ Pruned(With(p, kind), cached[p], policy[p])
        /\ UNCHANGED <<now, idOf, opened, cached, policy, settings>>
    BY DEF TakeBackup, With, New
  <1> HIDE DEF new
  <1>9. IsFiniteSet(With(p, kind)) /\ With(p, kind) \subseteq Backup
    BY <1>2, <1>6, FS_AddElement DEF BackupInv, TypeOK
  <1>10. Distinct(With(p, kind))
    BY <1>3, <1>6 DEF BackupInv, Distinct
  <1>11. \A b \in With(p, kind) : b.at <= now
    BY <1>1, <1>5, <1>6 DEF BackupInv
  <1> QED
    BY <1>2, <1>4, <1>7, <1>8, <1>9, <1>10, <1>11 DEF new

\* Fewer backups keep what the pools promise.
LEMMA FewerStayDistinct ==
    ASSUME NEW B, IsFiniteSet(B), Distinct(B), NEW C \in SUBSET B
    PROVE  IsFiniteSet(C) /\ Distinct(C)
  BY FS_Subset DEF Distinct

-----------------------------------------------------------------------------
(* The invariant.                                                          *)

LEMMA InitBackup ==
    ASSUME PoolAssumption, Init
    PROVE  BackupInv
  <1>1. TypeOK
    BY DEF Init, TypeOK, Tick, PoolAssumption, Proc
  <1>2. IsFiniteSet(pools) /\ Distinct(pools) /\ \A b \in pools : b.at <= now
    BY FS_EmptySet DEF Init, Distinct
  <1>3. HoldersKeepTheirPool
    BY DEF Init, HoldersKeepTheirPool, Proc
  <1> QED
    BY <1>1, <1>2, <1>3 DEF BackupInv

LEMMA StepBackup ==
    ASSUME PoolAssumption, BackupInv, [Next]_vars
    PROVE  BackupInv'
  <1> DEFINE Files == IsFiniteSet(pools) /\ Distinct(pools) /\ \A b \in pools : b.at <= now
  <1>0. Files /\ TypeOK /\ HoldersKeepTheirPool
    BY DEF BackupInv
  <1>1. ASSUME UNCHANGED <<now, pools>>
        PROVE  Files'
    BY <1>0, <1>1 DEF Distinct
  <1>2. \A h \in Holder : opened[h] # None => opened[h] \in Db /\ cached[h] = idOf[opened[h]]
    BY <1>0 DEF HoldersKeepTheirPool, TypeOK, Proc
  <1>3. ASSUME NEW p \in Proc, NEW d \in Db, Open(p, d)
        PROVE  BackupInv'
    <2>1. TypeOK'
      BY <1>0, <1>3 DEF Open, TypeOK
    <2>2. HoldersKeepTheirPool'
      BY <1>0, <1>2, <1>3 DEF Open, HoldersKeepTheirPool, TypeOK, Proc
    <2> QED
      BY <1>1, <1>3, <2>1, <2>2 DEF Open, BackupInv
  <1>4. ASSUME NEW p \in Proc, Close(p)
        PROVE  BackupInv'
    <2>1. TypeOK'
      BY <1>0, <1>4 DEF Close, TypeOK
    <2>2. HoldersKeepTheirPool'
      BY <1>0, <1>2, <1>4 DEF Close, HoldersKeepTheirPool, TypeOK, Proc
    <2> QED
      BY <1>1, <1>4, <2>1, <2>2 DEF Close, BackupInv
  <1>5. ASSUME NEW p \in Proc, NEW kind \in Kind, TakeBackup(p, kind)
        PROVE  BackupInv'
    <2>1. pools' \in SUBSET With(p, kind)
      BY <1>5, WithNew
    <2>2. IsFiniteSet(pools') /\ Distinct(pools')
      BY <1>5, <2>1, WithNew, FewerStayDistinct
    <2>3. \A b \in pools' : b.at <= now'
      BY <1>5, <2>1, WithNew
    <2>4. pools' \subseteq Backup /\ taken' \in 0 .. MaxTaken
      BY <1>5, <2>1, WithNew
    <2>5. UNCHANGED <<now, idOf, opened, cached, policy, settings>>
      BY <1>5, WithNew
    <2>6. TypeOK'
      BY <1>0, <2>4, <2>5 DEF TypeOK
    <2>7. HoldersKeepTheirPool'
      BY <1>0, <2>5 DEF HoldersKeepTheirPool
    <2>8. Distinct(pools)'
      BY <2>2 DEF Distinct
    <2> QED
      BY <2>2, <2>3, <2>6, <2>7, <2>8 DEF BackupInv
  <1>6. ASSUME NEW p \in Proc, NEW b \in pools, Delete(p, b)
        PROVE  BackupInv'
    <2>1. pools' \in SUBSET pools
      BY <1>6 DEF Delete
    <2>2. IsFiniteSet(pools') /\ Distinct(pools')
      BY <1>0, <2>1, FewerStayDistinct
    <2>3. UNCHANGED <<now, taken, idOf, opened, cached, policy, settings>>
      BY <1>6 DEF Delete
    <2>4. TypeOK'
      BY <1>0, <2>1, <2>3 DEF TypeOK
    <2>5. HoldersKeepTheirPool' /\ \A c \in pools' : c.at <= now'
      BY <1>0, <2>1, <2>3 DEF HoldersKeepTheirPool
    <2>6. Distinct(pools)'
      BY <2>2 DEF Distinct
    <2> QED
      BY <2>2, <2>4, <2>5, <2>6 DEF BackupInv
  <1>7. ASSUME NEW p \in Proc, NEW limits \in Policy, UpdateSettings(p, limits)
        PROVE  BackupInv'
    <2>1. TypeOK'
      BY <1>0, <1>7 DEF UpdateSettings, TypeOK
    <2>2. HoldersKeepTheirPool'
      BY <1>0, <1>7 DEF UpdateSettings, HoldersKeepTheirPool
    <2> QED
      BY <1>1, <1>7, <2>1, <2>2 DEF UpdateSettings, BackupInv
  <1>8. ASSUME NEW p \in Proc, NEW id \in Id, Rekey(p, id)
        PROVE  BackupInv'
    <2>1. TypeOK'
      BY <1>0, <1>8 DEF Rekey, TypeOK
    <2>2. HoldersKeepTheirPool'
      <3>1. \A h \in Holder : h # p /\ opened[h] # opened[p]
        BY <1>8 DEF Rekey
      <3>2. \A h \in Holder : opened'[h] = opened[h] /\ cached'[h] = cached[h]
        BY <1>0, <1>8, <3>1 DEF Rekey, TypeOK, Proc
      <3>3. \A d \in Db : d # opened[p] => idOf'[d] = idOf[d]
        BY <1>0, <1>8 DEF Rekey, TypeOK
      <3> QED
        BY <1>2, <3>1, <3>2, <3>3 DEF HoldersKeepTheirPool
    <2> QED
      BY <1>1, <1>8, <2>1, <2>2 DEF Rekey, BackupInv
  <1>9. ASSUME NEW d \in Db, NEW e \in Db, CopyByHand(d, e)
        PROVE  BackupInv'
    <2>1. TypeOK'
      BY <1>0, <1>9 DEF CopyByHand, TypeOK
    <2>2. HoldersKeepTheirPool'
      BY <1>0, <1>2, <1>9 DEF CopyByHand, HoldersKeepTheirPool, TypeOK, Proc
    <2> QED
      BY <1>1, <1>9, <2>1, <2>2 DEF CopyByHand, BackupInv
  <1>10. ASSUME Pass
         PROVE  BackupInv'
    <2>1. now \in 0 .. Horizon /\ now < Horizon /\ now' = now + 1 /\ Horizon \in Nat
      BY <1>0, <1>10 DEF Pass, TypeOK, Tick, PoolAssumption
    <2>2. UNCHANGED <<pools, taken, idOf, opened, cached, policy, settings>>
      BY <1>10 DEF Pass
    <2>3. now' \in Tick
      BY <2>1 DEF Tick
    <2>4. TypeOK'
      BY <1>0, <2>2, <2>3 DEF TypeOK
    <2>5. \A b \in pools' : b.at <= now'
      <3>1. \A b \in pools : b.at \in Int
        BY <1>0, <2>1 DEF TypeOK, Backup, Tick
      <3> QED
        BY <1>0, <2>1, <2>2, <3>1
    <2>6. HoldersKeepTheirPool' /\ IsFiniteSet(pools)' /\ Distinct(pools)'
      BY <1>0, <2>2 DEF HoldersKeepTheirPool, Distinct
    <2> QED
      BY <2>4, <2>5, <2>6 DEF BackupInv
  <1>11. CASE UNCHANGED vars
    <2>1. TypeOK' /\ HoldersKeepTheirPool'
      BY <1>0, <1>11 DEF vars, TypeOK, HoldersKeepTheirPool
    <2> QED
      BY <1>1, <1>11, <2>1 DEF vars, BackupInv
  <1> HIDE DEF Files
  <1> QED
    BY <1>3, <1>4, <1>5, <1>6, <1>7, <1>8, <1>9, <1>10, <1>11 DEF Next

\* Every reachable state has the invariant's parts.
THEOREM BackupInvariant ==
    Spec => []BackupInv
  <1> USE PoolAssumption
  <1> QED
    BY InitBackup, StepBackup, PTL DEF Spec

\* Every reachable state is typed: pools hold backups only, and every process
\* has a ledger id and a policy.
THEOREM BackupTypes ==
    Spec => []TypeOK
  <1>1. BackupInv => TypeOK
    BY DEF BackupInv
  <1> QED
    BY <1>1, BackupInvariant, PTL

\* A process that holds the database lock backs up into the pool its database's
\* id names, whatever rekeys, copies and commands run beside it.
THEOREM HoldersPoolsStand ==
    Spec => []HoldersKeepTheirPool
  <1>1. BackupInv => HoldersKeepTheirPool
    BY DEF BackupInv
  <1> QED
    BY <1>1, BackupInvariant, PTL

-----------------------------------------------------------------------------
(* Rotation.                                                               *)

\* Only taking a backup counts one taken.
LEMMA OnlyTaking ==
    ASSUME [Next]_vars, taken' # taken
    PROVE  \E p \in Proc, kind \in Kind : TakeBackup(p, kind)
  BY DEF Next, vars, Open, Close, Delete, UpdateSettings, Rekey, CopyByHand, Pass

\* Local times read back in the order they were written.
LEMMA InstantsAscend ==
    ASSUME PoolAssumption, NEW r \in Nat, NEW s \in Nat, r > s
    PROVE  Instant(r) > Instant(s)
  BY DEF PoolAssumption, Instant

\* What rotation removes from a listing: a backup past the count, and past the
\* age, of a rotated kind.
LEMMA PrunedIs ==
    ASSUME NEW B, NEW id, NEW limits, NEW b \in Pruned(B, id, limits)
    PROVE  \E i \in DOMAIN Listed(B, id, "pre-import") :
             /\ b = Listed(B, id, "pre-import")[i]
             /\ limits.count # None \/ limits.days # None
             /\ limits.count # None => ~ (i <= limits.count)
             /\ limits.days # None => ~ (AgeDays(b.stamp) < limits.days)
  <1> DEFINE group == Listed(B, id, "pre-import")
             ages == [i \in DOMAIN group |-> AgeDays(group[i].stamp)]
  <1>1. PICK i \in PruneIndices(ages, limits) : b = group[i]
    BY DEF Pruned
  <1>2. i \in DOMAIN group /\ ages[i] = AgeDays(b.stamp)
    BY <1>1 DEF PruneIndices
  <1> HIDE DEF group, ages
  <1>3. /\ limits.count # None \/ limits.days # None
        /\ ~ (limits.count # None /\ i <= limits.count)
        /\ ~ (limits.days # None /\ ages[i] < limits.days)
    BY <1>1 DEF PruneIndices
  <1> QED
    BY <1>1, <1>2, <1>3 DEF group

\* And it removes nothing among the first count of the listing.
LEMMA FirstStay ==
    ASSUME NEW B, NEW id, NEW limits, limits.count # None,
           NEW k \in DOMAIN Listed(B, id, "pre-import"), k <= limits.count,
           IsInjective(Listed(B, id, "pre-import"))
    PROVE  Listed(B, id, "pre-import")[k] \notin Pruned(B, id, limits)
  <1> DEFINE group == Listed(B, id, "pre-import")
  <1>1. SUFFICES ASSUME group[k] \in Pruned(B, id, limits)
                 PROVE  FALSE
    OBVIOUS
  <1>2. PICK i \in DOMAIN group : group[k] = group[i] /\ ~ (i <= limits.count)
    BY <1>1, PrunedIs
  <1> QED
    BY <1>2 DEF IsInjective

\* n backups first in a listing are n backups.
LEMMA FirstCount ==
    ASSUME NEW n \in Nat, NEW m \in Nat, n <= m, NEW S, IsFiniteSet(S),
           NEW list \in Injection(1 .. m, S), NEW N, IsFiniteSet(N),
           \A k \in 1 .. n : list[k] \in N
    PROVE  Cardinality(N) >= n
  <1> DEFINE first == [k \in 1 .. n |-> list[k]]
  <1>1. first \in [1 .. n -> N]
    OBVIOUS
  <1>2. \A j, k \in 1 .. n : first[j] = first[k] => j = k
    <2>1. 1 .. n \subseteq 1 .. m /\ DOMAIN list = 1 .. m
      BY DEF Injection
    <2>2. \A j, k \in DOMAIN list : list[j] = list[k] => j = k
      BY DEF Injection, IsInjective
    <2> QED
      BY <2>1, <2>2
  <1>3. DOMAIN first = 1 .. n
    OBVIOUS
  <1> HIDE DEF first
  <1>4. first \in Injection(1 .. n, N)
    BY <1>1, <1>2, <1>3 DEF Injection, IsInjective
  <1>5. Cardinality(1 .. n) <= Cardinality(N) /\ IsFiniteSet(1 .. n)
    BY <1>4, FS_Injection
  <1>6. Cardinality(1 .. n) = n /\ Cardinality(N) \in Nat
    BY FS_Interval, FS_CardinalityType
  <1> QED
    BY <1>5, <1>6

\* A backup that taking one removes is expendable.
LEMMA RemovedIsExpendable ==
    ASSUME PoolAssumption, BackupInv, NEW p \in Proc, NEW kind \in Kind, TakeBackup(p, kind),
           Dated(pools \cup pools'), NEW b \in pools \ pools'
    PROVE  b.id = cached[p] /\ Expendable(b, pools \cup pools', policy[p])
  <1> DEFINE all == With(p, kind)
             id == cached[p]
             limits == policy[p]
             S == PoolOf(all, id, "pre-import")
             group == Listed(all, id, "pre-import")
             N == {n \in pools \cup pools' : n.id = b.id /\ n.kind = b.kind /\ n.at > b.at}
  <1>1. /\ all \subseteq Backup /\ IsFiniteSet(all) /\ Distinct(all)
        /\ \A c \in all : c.at <= now
        /\ pools' = all \ Pruned(all, id, limits)
    BY WithNew
  <1>2. pools \subseteq all
    BY DEF With
  <1>3. b \in Pruned(all, id, limits)
    BY <1>1, <1>2
  <1>4. limits \in [count : (Nat \ {0}) \cup {None}, days : Nat \cup {None}]
    BY DEF BackupInv, TypeOK, PoolAssumption
  <1>5. now \in Nat
    BY DEF BackupInv, TypeOK, Tick, PoolAssumption
  <1> HIDE DEF all, id, limits
  <1>6. PICK i \in DOMAIN group :
             /\ b = group[i]
             /\ limits.count # None \/ limits.days # None
             /\ limits.count # None => ~ (i <= limits.count)
             /\ limits.days # None => ~ (AgeDays(b.stamp) < limits.days)
    BY <1>3, PrunedIs
  <1>7. /\ S \subseteq all /\ IsFiniteSet(S)
        /\ group \in Injection(1 .. Cardinality(S), S)
        /\ \A j, k \in DOMAIN group : j < k => group[j].stamp > group[k].stamp
    BY <1>1, ListedNewestFirst
  <1>8. \A c \in S : c.id = id /\ c.kind = "pre-import"
    BY DEF PoolOf
  <1> HIDE DEF S, group
  <1>9. DOMAIN group = 1 .. Cardinality(S) /\ IsInjective(group) /\ \A k \in DOMAIN group : group[k] \in S
    BY <1>7 DEF Injection
  <1>10. b \in S /\ b.id = id /\ b.kind = "pre-import"
    BY <1>6, <1>8, <1>9
  <1>11. \A c \in all : c.stamp \in Nat /\ c.at \in Nat
    BY <1>1 DEF Backup, Tick, PoolAssumption
  <1>12. limits.count # None => Cardinality(N) >= limits.count
    <2> SUFFICES ASSUME limits.count # None
                 PROVE  Cardinality(N) >= limits.count
      OBVIOUS
    <2>1. limits.count \in Nat /\ Cardinality(S) \in Nat
      BY <1>4, <1>7, FS_CardinalityType
    <2>2. i \in 1 .. Cardinality(S) /\ i > limits.count /\ limits.count <= Cardinality(S)
      BY <1>6, <1>9, <2>1
    <2>3. ASSUME NEW k \in 1 .. limits.count
          PROVE  group[k] \in N
      <3>1. k \in DOMAIN group /\ k <= limits.count /\ k < i
        BY <1>9, <2>1, <2>2
      <3>2. group[k] \notin Pruned(all, id, limits)
        BY <1>9, <3>1, FirstStay DEF group
      <3>3. group[k] \in S /\ group[k] \in pools'
        BY <1>1, <1>7, <1>9, <3>1, <3>2
      <3>4. group[k].stamp > b.stamp
        BY <1>6, <1>7, <3>1
      <3>5. Instant(group[k].stamp) > Instant(b.stamp)
        BY <1>7, <1>10, <1>11, <3>3, <3>4, InstantsAscend
      <3>6. Instant(group[k].stamp) = group[k].at /\ Instant(b.stamp) = b.at
        BY <3>3 DEF Dated
      <3> QED
        BY <1>8, <1>10, <3>3, <3>5, <3>6
    <2>4. IsFiniteSet(N)
      <3>1. N \in SUBSET all
        BY <1>1, <1>2
      <3> QED
        BY <1>1, <3>1, FS_Subset
    <2> HIDE DEF N
    <2> QED
      BY <1>7, <2>1, <2>2, <2>3, <2>4, FirstCount
  <1>13. limits.days # None => (now - b.at) \div Day >= limits.days
    <2> SUFFICES ASSUME limits.days # None
                 PROVE  (now - b.at) \div Day >= limits.days
      OBVIOUS
    <2>1. b \in all /\ Instant(b.stamp) = b.at /\ b.at <= now /\ b.at \in Nat
      BY <1>1, <1>2, <1>11 DEF Dated
    <2>2. AgeDays(b.stamp) = (now - b.at) \div Day
      BY <1>5, <2>1 DEF AgeDays
    <2>3. (now - b.at) \div Day \in Int /\ limits.days \in Int
      BY <1>4, <1>5, <2>1 DEF PoolAssumption
    <2> QED
      BY <1>6, <2>2, <2>3
  <1>14. Expendable(b, pools \cup pools', limits)
    BY <1>6, <1>10, <1>12, <1>13 DEF Expendable
  <1> QED
    BY <1>10, <1>14 DEF id, limits

\* Taking a backup removes from its pool only what is neither among the count
\* newest of its kind nor newer than the days: rotation keeps the union.
THEOREM RotationKeepsUnion ==
    Spec => UnionPolicy
  <1>1. ASSUME BackupInv, [Next]_vars
        PROVE  [taken' # taken /\ Dated(pools \cup pools') =>
                  \A b \in pools \ pools' : \E p \in Proc :
                      /\ opened[p] # None /\ cached[p] = b.id
                      /\ Expendable(b, pools \cup pools', policy[p])]_vars
    <2> SUFFICES ASSUME taken' # taken, Dated(pools \cup pools'), NEW b \in pools \ pools'
                 PROVE  \E p \in Proc :
                            /\ opened[p] # None /\ cached[p] = b.id
                            /\ Expendable(b, pools \cup pools', policy[p])
      OBVIOUS
    <2>1. PICK p \in Proc, kind \in Kind : TakeBackup(p, kind)
      BY <1>1, OnlyTaking
    <2>2. opened[p] # None
      BY <2>1 DEF TakeBackup
    <2>3. cached[p] = b.id /\ Expendable(b, pools \cup pools', policy[p])
      BY <1>1, <2>1, PoolAssumption, RemovedIsExpendable
    <2> QED
      BY <2>2, <2>3
  <1> QED
    BY <1>1, BackupInvariant, PTL DEF Spec, UnionPolicy

\* The backup just taken is never the one removed, unless a policy keeps none.
LEMMA NewStays ==
    ASSUME PoolAssumption, KeepsSome, BackupInv, NEW p \in Proc, NEW kind \in Kind,
           TakeBackup(p, kind), Dated(pools), Instant(Stamp(now)) = now
    PROVE  New(p, kind) \notin Pruned(With(p, kind), cached[p], policy[p])
  <1> DEFINE all == With(p, kind)
             new == New(p, kind)
             id == cached[p]
             limits == policy[p]
             S == PoolOf(all, id, "pre-import")
             group == Listed(all, id, "pre-import")
  <1>1. /\ all \subseteq Backup /\ IsFiniteSet(all) /\ Distinct(all)
        /\ \A c \in all : c.at <= now
    BY WithNew
  <1>2. all = pools \cup {new} /\ new.stamp = Stamp(now)
    BY DEF With, New
  <1>3. /\ limits \in [count : (Nat \ {0}) \cup {None}, days : Nat \cup {None}]
        /\ limits.count # None \/ limits.days # 0
    BY DEF BackupInv, TypeOK, PoolAssumption, KeepsSome
  <1>4. now \in Nat
    BY DEF BackupInv, TypeOK, Tick, PoolAssumption
  <1> HIDE DEF all, new, id, limits
  <1>5. SUFFICES ASSUME new \in Pruned(all, id, limits)
                 PROVE  FALSE
    BY DEF all, new, id, limits
  <1>6. PICK i \in DOMAIN group :
             /\ new = group[i]
             /\ limits.count # None \/ limits.days # None
             /\ limits.count # None => ~ (i <= limits.count)
             /\ limits.days # None => ~ (AgeDays(new.stamp) < limits.days)
    BY <1>5, PrunedIs
  <1>7. /\ S \subseteq all /\ IsFiniteSet(S)
        /\ group \in Injection(1 .. Cardinality(S), S)
        /\ \A j, k \in DOMAIN group : j < k => group[j].stamp > group[k].stamp
    BY <1>1, ListedNewestFirst
  <1> HIDE DEF S, group
  <1>8. DOMAIN group = 1 .. Cardinality(S) /\ \A k \in DOMAIN group : group[k] \in S
    BY <1>7 DEF Injection
  <1>9. Cardinality(S) \in Nat
    BY <1>7, FS_CardinalityType
  <1>10. i = 1
    <2> SUFFICES ASSUME i # 1
                 PROVE  FALSE
      OBVIOUS
    <2>1. 1 \in DOMAIN group /\ 1 < i
      BY <1>8, <1>9
    <2>2. group[1] \in all /\ group[1].stamp > new.stamp
      BY <1>6, <1>7, <1>8, <2>1
    <2>3. \A c \in all : c.stamp \in Nat /\ c.at \in Nat
      BY <1>1 DEF Backup, Tick, PoolAssumption
    <2>4. new \in all /\ group[1] \in pools
      BY <1>2, <2>2, <2>3
    <2>5. Instant(group[1].stamp) > Instant(new.stamp)
      BY <2>2, <2>3, <2>4, InstantsAscend
    <2>6. Instant(group[1].stamp) = group[1].at /\ Instant(new.stamp) = now
      BY <1>2, <2>4 DEF Dated
    <2> QED
      BY <1>1, <1>4, <2>2, <2>3, <2>5, <2>6
  <1>11. limits.count = None
    BY <1>3, <1>6, <1>10
  <1>12. limits.days \in Nat \ {0} /\ limits.days # None
    BY <1>3, <1>6, <1>11
  <1>13. AgeDays(new.stamp) = 0
    BY <1>2, <1>4 DEF AgeDays, PoolAssumption
  <1> QED
    BY <1>6, <1>12, <1>13

\* The backup just taken is in its pool afterwards: rotation never removes it,
\* as long as no policy is one of 0 days and no count.
THEOREM NewBackupsStay ==
    ASSUME KeepsSome
    PROVE  Spec => JustTakenStays
  <1>1. ASSUME BackupInv, [Next]_vars
        PROVE  [taken' # taken /\ Dated(pools) /\ Instant(Stamp(now)) = now
                  => \E b \in pools' \ pools : b.at = now]_vars
    <2> SUFFICES ASSUME taken' # taken, Dated(pools), Instant(Stamp(now)) = now
                 PROVE  \E b \in pools' \ pools : b.at = now
      OBVIOUS
    <2>1. PICK p \in Proc, kind \in Kind : TakeBackup(p, kind)
      BY <1>1, OnlyTaking
    <2>2. /\ New(p, kind) \notin pools
          /\ pools' = With(p, kind) \ Pruned(With(p, kind), cached[p], policy[p])
      BY <1>1, <2>1, PoolAssumption, WithNew
    <2>3. New(p, kind) \notin Pruned(With(p, kind), cached[p], policy[p])
      BY <1>1, <2>1, PoolAssumption, NewStays
    <2>4. New(p, kind) \in With(p, kind) /\ New(p, kind).at = now
      BY DEF With, New
    <2> QED
      BY <2>2, <2>3, <2>4
  <1> QED
    BY <1>1, BackupInvariant, PTL DEF Spec, JustTakenStays
=============================================================================
