--------------------------- MODULE RoundTripProofs --------------------------
(***************************************************************************)
(* Proofs about RoundTrip: that batches peel off, in whatever order they   *)
(* are discarded, and that a file adds nothing twice.                      *)
(*                                                                         *)
(* References and legs come first, and with them LegsComeBack: a leg and   *)
(* the references on it belong to one transaction for good, and a run's    *)
(* own references are never on a leg its record would bring back.  Then    *)
(* stories: each entry of a run is bracketed by the two versions its       *)
(* record holds, and the runs of a story began in the order it tells.      *)
(* Slots come last: each transaction a file added has a place of its own   *)
(* among the new ones of the file, and every run of the file knows it.     *)
(***************************************************************************)
EXTENDS RoundTrip, FunctionTheorems, FiniteSetTheorems, SequenceTheorems, TLAPS

-----------------------------------------------------------------------------
(* The invariants.                                                         *)

\* The legs of t, those that its records or an edit from a reading would bring back
\* included.
Recorded(t) == UNION {Ids(e.before.legs) : e \in EditsOf(t)}
LegsRead(t) == UNION {Ids(d.legs) : d \in Readings(t)}
Names(t) == Ids(stored[t].legs) \cup Recorded(t) \cup LegsRead(t)

Fields == {"importer", "key", "occurrence", "owner", "leg", "live", "batch"}

\* Rows have all fields; apply's are of a run's batch.
RowsWhole ==
    \A x \in Rows :
        /\ DOMAIN refs[x] = Fields /\ refs[x].importer \in {"bank", "bc-apply"}
        /\ x \in ApplyRefs => refs[x].batch \in Run
        /\ ~refs[x].live => stored[refs[x].owner] = Gone

\* What is stored and what is recorded has legs, or does not exist.
VersionsWhole ==
    /\ \A t \in Transaction : stored[t].legs = <<>> => stored[t] = Gone
    /\ \A b \in Run, t \in Transaction : edits[b][t] # None =>
        /\ edits[b][t].before.legs # <<>>
        /\ edits[b][t].op = "edit" => edits[b][t].after.legs # <<>>
        /\ edits[b][t].op = "delete" => edits[b][t].after = Gone

\* A reference names a leg of the transaction it belongs to, and a leg has one owner.
LegsHome ==
    /\ \A x \in Rows : refs[x].leg # None => refs[x].leg \in Ids(stored[refs[x].owner].legs)
    /\ \A t, u \in Transaction : t # u => Names(t) \cap Names(u) = {}
    /\ \A b \in Run, t \in Transaction : edits[b][t] # None =>
        \A l \in edits[b][t].links :
            /\ l[2] \in Ids(edits[b][t].before.legs)
            /\ l[1] \in Rows => refs[l[1]].owner = t

\* What r still has to write, it has not written.
Pending(r, a) ==
    /\ a.op \in {"edit", "delete", "create"}
    /\ a.op # "create" =>
        /\ file[r] # None /\ a.txn \in DOMAIN file[r].snap /\ edits[r][a.txn] = None
        /\ \A c \in todo[r] : c.op # "create" /\ c.txn = a.txn => c = a
    /\ a.op = "edit" =>
        /\ a.legs \in Seq([id : Posting \cup {None}, value : Value]) \ {<<>>}
        /\ Ids(a.legs) \subseteq Ids(file[r].snap[a.txn].legs) \cup {None}

Reads(r, t) == file[r] # None /\ t \in DOMAIN file[r].snap

\* What r has read and written, beside what others had made.
RunRight(r) ==
    /\ phase[r] \in {"idle", "drafted", "planned"} => r \notin ToSet(begun)
    /\ phase[r] \in {"idle", "drafted", "over"} => todo[r] = {}
    /\ \A a \in todo[r] : Pending(r, a)
    /\ \A t \in Transaction :
        /\ edits[r][t] # None => r \in ToSet(begun) /\ Reads(r, t)
        /\ made[t] # None /\ Reads(r, t) =>
            /\ made[t].run # r
            /\ r \in ToSet(begun) => Later(made[t].run, r)

\* Whoever made a transaction or put a reference on it has written.
RunsWrite ==
    /\ \A r \in Run : RunRight(r)
    /\ \A t \in Transaction : made[t] # None => made[t].run \in ToSet(begun)
    /\ \A b \in Run : \A x \in BatchRefs(b) :
        \/ edits[b][refs[x].owner] # None
        \/ made[refs[x].owner] # None /\ made[refs[x].owner].run = b

\* What b put on t is on no leg that the record of b would bring back.
OwnAside ==
    \A b \in Run : \A x \in BatchRefs(b) : edits[b][refs[x].owner] # None =>
        LET back == Ids(edits[b][refs[x].owner].before.legs) IN
        /\ refs[x].leg \notin back
        /\ \A c \in Run, u \in Transaction : edits[c][u] # None =>
            \A l \in edits[c][u].links : l[1] = x => l[2] \notin back

LegInv == RowsWhole /\ VersionsWhole /\ LegsHome /\ RunsWrite /\ OwnAside /\ LegsComeBack

\* Stories, in terms of what they are told of: S is a story, v the version it has led to,
\* E[b] the record of run b or None, m who made the transaction or None, A the runs whose
\* batches stand and L the pairs of runs of which the first began before the second.
Made(m, b) == m # None /\ m.run = b

\* The i-th entry, when a run wrote it: the maker's comes first, another is bracketed by the
\* versions of its record; later ones are of runs that began later, or undo it no more.
Told(S, i, E, m, A, L) ==
    LET b == S[i].by IN
    /\ b \in A
    /\ IF Made(m, b) THEN i = 1
       ELSE i > 1 /\ E[b] # None /\ E[b].before = S[i - 1].v /\ E[b].after = S[i].v
    /\ \A j \in DOMAIN S : j > i =>
        IF S[j].by = None THEN E[b] # None => S[j].v # E[b].after ELSE <<b, S[j].by>> \in L

\* Records that stand are told of, a deletion last; of a forgotten story edits alone do.
Tells(S, v, E, m, A, L) ==
    /\ v = IF S = <<>> THEN Gone ELSE Last(S).v
    /\ \A i \in DOMAIN S : S[i].by # None => Told(S, i, E, m, A, L)
    /\ \A b \in A : E[b] # None =>
        IF S = <<>> THEN E[b].op = "edit"
        ELSE /\ \E i \in DOMAIN S : S[i].by = b
             /\ E[b].op = "delete" => Last(S).by = b

Records(t) == [b \in Run |-> edits[b][t]]
Standing == ToSet(begun) \ discarded
Order == {p \in Run \X Run : Later(p[1], p[2])}

StoryInv ==
    \A t \in Transaction \ echoed :
        Tells(story[t], stored[t], Records(t), made[t], Standing, Order)

-----------------------------------------------------------------------------
(* Numbers in their order, and picking from a sequence.                    *)

LEMMA Counting == \A n \in Nat : IsFiniteSet(1 .. n) /\ Cardinality(1 .. n) = n
  BY FS_Interval

LEMMA RankGrows ==
    ASSUME NEW S, S \subseteq Nat, IsFiniteSet(S)
    PROVE  /\ Cardinality(S) \in Nat
           /\ \A i \in S : Rank(S, i) \in Nat /\ Rank(S, i) \in 1 .. Cardinality(S)
           /\ \A i, j \in S : i < j => Rank(S, i) < Rank(S, j)
  <1> DEFINE Up(i) == {k \in S : k <= i}
  <1>1. Cardinality(S) \in Nat
    BY FS_CardinalityType
  <1>2. \A i \in S : /\ IsFiniteSet(Up(i)) /\ Cardinality(Up(i)) \in Nat
                     /\ Cardinality(Up(i)) <= Cardinality(S) /\ Cardinality(Up(i)) # 0
    <2>1. TAKE i \in S
    <2>2. Up(i) \in SUBSET S /\ i \in Up(i)
      OBVIOUS
    <2> HIDE DEF Up
    <2>3. IsFiniteSet(Up(i)) /\ Cardinality(Up(i)) <= Cardinality(S)
      BY <2>2, FS_Subset
    <2> QED
      BY <2>2, <2>3, FS_CardinalityType, FS_EmptySet
  <1>3. ASSUME NEW i \in S, NEW j \in S, i < j
        PROVE  Cardinality(Up(i)) < Cardinality(Up(j))
    <2>0. i \in Nat /\ j \in Nat /\ \A k \in S : k \in Nat
      OBVIOUS
    <2>a. j <= j /\ ~(j <= i) /\ \A k \in S : k <= i => k <= j
      BY <1>3, <2>0
    <2>1. Up(i) \in SUBSET Up(j) /\ j \in Up(j) /\ j \notin Up(i)
      BY <2>a
    <2> HIDE DEF Up
    <2>2. /\ Cardinality(Up(i)) <= Cardinality(Up(j))
          /\ Cardinality(Up(j)) = Cardinality(Up(i)) => Up(j) = Up(i)
      BY <1>2, <2>1, FS_Subset
    <2> QED
      BY <1>2, <2>1, <2>2
  <1>4. \A i \in S : Rank(S, i) = Cardinality(Up(i))
    BY DEF Rank
  <1> HIDE DEF Up
  <1> QED
    BY <1>1, <1>2, <1>3, <1>4

\* The n-th is the member of rank n.
LEMMA NthIs ==
    ASSUME NEW S, S \subseteq Nat, IsFiniteSet(S), NEW n \in 1 .. Cardinality(S)
    PROVE  Nth(S, n) \in S /\ Rank(S, Nth(S, n)) = n
  <1> DEFINE f == [i \in S |-> Rank(S, i)]
             T == 1 .. Cardinality(S)
  <1>1. f \in [S -> T]
    BY RankGrows
  <1>2. \A i, j \in S : f[i] = f[j] => i = j
    <2>1. \A i, j \in S : i < j \/ i = j \/ j < i
      OBVIOUS
    <2>2. \A i, j \in S : i < j => f[i] < f[j]
      BY RankGrows
    <2> QED
      BY <1>1, <2>1, <2>2, RankGrows
  <1> HIDE DEF f
  <1>3. f \in Injection(S, T)
    BY <1>1, <1>2, Fun_IsInj
  <1>4. IsFiniteSet(T) /\ Cardinality(T) = Cardinality(S)
    <2>1. Cardinality(S) \in Nat
      BY FS_CardinalityType
    <2> QED
      BY <2>1, Counting
  <1>5. f \in Surjection(S, T)
    BY <1>3, <1>4, FS_Injection
  <1>6. \E i \in S : f[i] = n
    BY <1>5 DEF Surjection
  <1>7. \E i \in S : Rank(S, i) = n
    BY <1>6 DEF f
  <1> QED
    BY <1>7 DEF Nth

LEMMA RankOnto ==
    ASSUME NEW S, S \subseteq Nat, IsFiniteSet(S), NEW i \in S
    PROVE  Nth(S, Rank(S, i)) = i
  <1>1. Rank(S, i) \in 1 .. Cardinality(S)
    BY RankGrows
  <1>2. Nth(S, Rank(S, i)) \in S /\ Rank(S, Nth(S, Rank(S, i))) = Rank(S, i)
    BY <1>1, NthIs
  <1>3. \A j \in S : Rank(S, j) = Rank(S, i) => j = i
    <2>1. \A j \in S : i < j \/ i = j \/ j < i
      OBVIOUS
    <2>2. \A j \in S : i < j => Rank(S, i) < Rank(S, j)
      BY RankGrows
    <2>3. \A j \in S : j < i => Rank(S, j) < Rank(S, i)
      BY RankGrows
    <2>4. \A j \in S : Rank(S, j) \in Nat
      BY RankGrows
    <2>5. \A j \in S : Rank(S, j) # Rank(S, i) \/ ~(j < i \/ i < j)
      BY <2>2, <2>3, <2>4
    <2> QED
      BY <2>1, <2>5
  <1> QED
    BY <1>2, <1>3

\* Picking places K of q gives members of q from K, all of them.
LEMMA Picked ==
    ASSUME NEW L, NEW q \in Seq(L), NEW K, K \subseteq DOMAIN q
    PROVE  /\ Pick(q, K) \in Seq(L) /\ Cardinality(K) \in Nat
           /\ DOMAIN Pick(q, K) = 1 .. Cardinality(K)
           /\ \A n \in DOMAIN Pick(q, K) :
                Nth(K, n) \in K /\ Rank(K, Nth(K, n)) = n /\ Pick(q, K)[n] = q[Nth(K, n)]
           /\ K = {} => Pick(q, K) = <<>>
           /\ K = DOMAIN q => Pick(q, K) = q
  <1>1. DOMAIN q = 1 .. Len(q) /\ Len(q) \in Nat /\ \A i \in DOMAIN q : q[i] \in L
    OBVIOUS
  <1>a. IsFiniteSet(DOMAIN q) /\ Cardinality(DOMAIN q) = Len(q)
    BY <1>1, Counting
  <1>2. K \subseteq Nat /\ IsFiniteSet(K)
    BY <1>1, <1>a, FS_Subset
  <1>3. Cardinality(K) \in Nat
    BY <1>2, FS_CardinalityType
  <1>4. DOMAIN Pick(q, K) = 1 .. Cardinality(K)
        /\ \A n \in 1 .. Cardinality(K) : Pick(q, K)[n] = q[Nth(K, n)]
    BY DEF Pick
  <1>5. \A n \in 1 .. Cardinality(K) : Nth(K, n) \in K /\ Rank(K, Nth(K, n)) = n
    BY <1>2, NthIs
  <1>6. Pick(q, K) \in Seq(L)
    <2>1. \A n \in 1 .. Cardinality(K) : q[Nth(K, n)] \in L
      BY <1>1, <1>5
    <2> QED
      BY <1>3, <2>1 DEF Pick
  <1>7. ASSUME K = {}
        PROVE  Pick(q, K) = <<>>
    <2>1. Cardinality(K) = 0
      BY <1>7, FS_EmptySet
    <2>2. Pick(q, K) \in Seq(L) /\ Len(Pick(q, K)) = 0
      BY <1>4, <1>6, <2>1
    <2> QED
      BY <2>2, EmptySeq
  <1>8. ASSUME K = DOMAIN q
        PROVE  Pick(q, K) = q
    <2>1. Cardinality(K) = Len(q)
      BY <1>1, <1>8, <1>a
    <2>2. \A i \in K : Rank(K, i) = i
      <3>1. TAKE i \in K
      <3>2. {k \in K : k <= i} = 1 .. i /\ i \in Nat /\ i > 0
        BY <1>1, <1>8
      <3>3. Cardinality(1 .. i) = i
        BY <3>2, Counting
      <3> QED
        BY <3>2, <3>3 DEF Rank
    <2>3. \A i \in K : Nth(K, i) = i
      BY <1>2, <2>2, RankOnto
    <2>4. \A n \in 1 .. Len(q) : Pick(q, K)[n] = q[n]
      BY <1>1, <1>4, <1>8, <2>1, <2>3
    <2>5. Pick(q, K) \in Seq(L) /\ Len(Pick(q, K)) = Len(q)
      BY <1>1, <1>3, <1>4, <1>6, <2>1
    <2> QED
      BY <2>4, <2>5, SeqEqual
  <1> QED
    BY <1>3, <1>4, <1>5, <1>6, <1>7, <1>8

-----------------------------------------------------------------------------
(* Rows, and what is minted.                                               *)

\* Row n is row m, but for its leg and whether it is live.
Same(n, m) ==
    /\ DOMAIN n = Fields /\ n.importer = m.importer /\ n.key = m.key
    /\ n.occurrence = m.occurrence /\ n.owner = m.owner /\ n.batch = m.batch

LEMMA Unnamed ==
    ASSUME NEW row, DOMAIN row = Fields, NEW leg, NEW live
    PROVE  /\ Same([row EXCEPT !.leg = leg], row)
           /\ [row EXCEPT !.leg = leg].leg = leg
           /\ [row EXCEPT !.leg = leg].live = row.live
           /\ Same([row EXCEPT !.leg = leg, !.live = live], row)
           /\ [row EXCEPT !.leg = leg, !.live = live].leg = leg
           /\ [row EXCEPT !.leg = leg, !.live = live].live = live
  BY DEF Same, Fields

LEMMA RowIs ==
    ASSUME NEW row
    PROVE  row.importer \in {"bank", "bc-apply"} => row # NoRef
  BY DEF NoRef

LEMMA IdsType ==
    ASSUME NEW v \in Version
    PROVE  Ids(v.legs) \subseteq Posting /\ None \notin Ids(v.legs)
  <1>1. v.legs \in Seq(Leg)
    BY DEF Version
  <1>2. \A i \in DOMAIN v.legs : v.legs[i] \in Leg
    BY <1>1
  <1> QED
    BY <1>2, RoundTripAssumption DEF Ids, Leg, RoundTripAssumption

LEMMA NamesAre ==
    ASSUME NEW t \in Transaction, NEW p
    PROVE  p \in Names(t) <=>
             \/ p \in Ids(stored[t].legs)
             \/ \E b \in Run : edits[b][t] # None /\ p \in Ids(edits[b][t].before.legs)
             \/ \E e \in Editor : reading[e] # None /\ reading[e].txn = t /\ p \in Ids(reading[e].legs)
  <1>1. p \in Recorded(t) <=>
          \E b \in Run : edits[b][t] # None /\ p \in Ids(edits[b][t].before.legs)
    BY DEF Recorded, EditsOf
  <1>2. p \in LegsRead(t) <=>
          \E e \in Editor : reading[e] # None /\ reading[e].txn = t /\ p \in Ids(reading[e].legs)
    BY DEF LegsRead, Readings
  <1> QED
    BY <1>1, <1>2 DEF Names

LEMMA NamesNext ==
    ASSUME NEW t \in Transaction, NEW p, p \in Names(t)'
    PROVE  \/ p \in Ids(stored'[t].legs)
           \/ \E b \in Run : edits'[b][t] # None /\ p \in Ids(edits'[b][t].before.legs)
           \/ \E e \in Editor : /\ reading'[e] # None /\ reading'[e].txn = t
                                /\ p \in Ids(reading'[e].legs)
  <1>1. \/ p \in Ids(stored'[t].legs) \/ p \in Recorded(t)' \/ p \in LegsRead(t)'
    BY DEF Names
  <1>2. p \in Recorded(t)' =>
          \E b \in Run : edits'[b][t] # None /\ p \in Ids(edits'[b][t].before.legs)
    BY DEF Recorded, EditsOf
  <1>3. p \in LegsRead(t)' =>
          \E e \in Editor : /\ reading'[e] # None /\ reading'[e].txn = t
                             /\ p \in Ids(reading'[e].legs)
    BY DEF LegsRead, Readings
  <1> QED
    BY <1>1, <1>2, <1>3

LEMMA FreshIs ==
    /\ \A p \in FreshPostings : p \in Posting /\ \A t \in Transaction : p \notin Names(t)
    /\ \A x \in FreshRefs : x \in Ref /\ x \notin Rows /\ x \notin rejected
    /\ \A x \in FreshRefs, b \in Run : \A t \in Transaction : edits[b][t] # None =>
         \A l \in edits[b][t].links : l[1] # x
  <1>1. ASSUME NEW p \in FreshPostings, NEW t \in Transaction
        PROVE  p \notin Names(t)
    <2> DEFINE V(u) == {stored[u]} \cup {e.before : e \in EditsOf(u)} \cup Readings(u)
                       \cup {f.snap[u] : f \in {g \in Files : u \in DOMAIN g.snap}}
                       \cup {story[u][i].v : i \in DOMAIN story[u]}
    <2>1. \A v \in V(t) : p \notin Ids(v.legs)
      BY DEF FreshPostings, UsedPostings
    <2>2. \A b \in Run : edits[b][t] # None => p \notin Ids(edits[b][t].before.legs)
      BY <2>1 DEF EditsOf
    <2>3. p \notin Ids(stored[t].legs)
      BY <2>1
    <2>4. \A e \in Editor : reading[e] # None /\ reading[e].txn = t => p \notin Ids(reading[e].legs)
      BY <2>1 DEF Readings
    <2> QED
      BY <2>2, <2>3, <2>4, NamesAre
  <1>2. ASSUME NEW x \in FreshRefs, NEW b \in Run, NEW t \in Transaction,
               edits[b][t] # None, NEW l \in edits[b][t].links
        PROVE  l[1] # x
    <2>1. edits[b][t] \in EditsOf(t)
      BY <1>2 DEF EditsOf
    <2>2. edits[b][t] \in UNION {EditsOf(u) : u \in Transaction}
      BY <2>1
    <2>3. l \in UNION {e.links : e \in UNION {EditsOf(u) : u \in Transaction}}
      BY <2>2
    <2>4. l[1] \in UsedRefs
      BY <2>3 DEF UsedRefs
    <2> QED
      BY <2>4 DEF FreshRefs
  <1> QED
    BY <1>1, <1>2 DEF FreshPostings, FreshRefs, UsedRefs, Rows

\* What is minted is fresh, and the n-th is not the m-th.
LEMMA Minted ==
    /\ FreshPostings \subseteq Nat /\ IsFiniteSet(FreshPostings)
    /\ FreshRefs \subseteq Nat /\ IsFiniteSet(FreshRefs)
    /\ FreshTransactions \subseteq Nat /\ IsFiniteSet(FreshTransactions)
  <1>1. \A S \in {Transaction, Posting, Ref} : S \subseteq Nat /\ IsFiniteSet(S)
    BY RoundTripAssumption DEF RoundTripAssumption
  <1>2. \A S \in {Transaction, Posting, Ref} : \A T \in SUBSET S :
          T \subseteq Nat /\ IsFiniteSet(T)
    BY <1>1, FS_Subset
  <1> QED
    BY <1>2 DEF FreshPostings, FreshRefs, FreshTransactions

LEMMA FirstIs ==
    ASSUME NEW S, S \subseteq Nat, IsFiniteSet(S), S # {}
    PROVE  Nth(S, 1) \in S
  <1>1. Cardinality(S) \in Nat /\ Cardinality(S) # 0
    BY FS_CardinalityType, FS_EmptySet
  <1>2. 1 \in 1 .. Cardinality(S)
    BY <1>1
  <1> QED
    BY <1>2, NthIs

-----------------------------------------------------------------------------
(* What users and imports do keeps legs and references.                    *)

\* x was a row, and is one of the same transaction: it may have let go of its leg.
Stays(x) ==
    /\ x \in Rows /\ Same(refs'[x], refs[x])
    /\ refs'[x].leg = refs[x].leg \/ refs'[x].leg = None

Arrives(x) ==
    /\ x \in FreshRefs /\ DOMAIN refs'[x] = Fields
    /\ refs'[x].importer = "bank" /\ refs'[x].owner \in Transaction

\* Where the references are after a step.
RowsRight ==
    /\ DOMAIN refs' = Ref
    /\ \A x \in Ref : refs'[x] # NoRef =>
        /\ Stays(x) \/ Arrives(x)
        /\ refs'[x].leg # None => refs'[x].leg \in Ids(stored'[refs'[x].owner].legs)
        /\ ~refs'[x].live => stored'[refs'[x].owner] = Gone

\* Only t changes, which keeps its legs, loses some, gets some back or takes new ones.
Touches(t) ==
    /\ stored' \in [Transaction -> Version]
    /\ \A u \in Transaction \ {t} : stored'[u] = stored[u]
    /\ Ids(stored'[t].legs) \subseteq Names(t) \cup FreshPostings
    /\ stored'[t].legs = <<>> => stored'[t] = Gone

\* Of what editors have read, some is forgotten.
ReadingsRight ==
    /\ reading' \in [Editor -> Reading \cup {None}]
    /\ \A e \in Editor : reading'[e] \in {reading[e], None}

MakersRight ==
    \A u \in Transaction :
        \/ made'[u] = made[u]
        \/ made'[u] = None /\ \A x \in Ref : refs'[x] # NoRef => refs'[x].owner # u

LEMMA RowsNext ==
    ASSUME TypeOK, LegInv, RowsRight
    PROVE  /\ Rows' \subseteq Ref
           /\ \A x \in Rows' : /\ Stays(x) \/ Arrives(x)
                               /\ refs'[x].owner \in Transaction
           /\ \A b \in Run : \A x \in BatchRefs(b)' : Stays(x) /\ x \in BatchRefs(b)
  <1>1. Rows' = {x \in Ref : refs'[x] # NoRef}
    BY DEF RowsRight, Rows, Row
  <1>2. \A x \in Rows' : Stays(x) \/ Arrives(x)
    BY <1>1 DEF RowsRight
  <1>3. \A x \in Rows' : refs'[x].owner \in Transaction
    BY <1>2 DEF Stays, Arrives, Same, TypeOK
  <1>4. ASSUME NEW b \in Run, NEW x \in BatchRefs(b)'
        PROVE  Stays(x) /\ x \in BatchRefs(b)
    <2>1. x \in Rows' /\ refs'[x].importer = "bc-apply" /\ refs'[x].batch = b
      BY <1>4 DEF BatchRefs, ApplyRefs
    <2>2. Stays(x)
      BY <1>2, <2>1 DEF Arrives
    <2> QED
      BY <2>1, <2>2 DEF Stays, Same, BatchRefs, ApplyRefs
  <1> QED
    BY <1>1, <1>2, <1>3, <1>4

LEMMA ReadingsStay ==
    ASSUME TypeOK, UNCHANGED reading
    PROVE  ReadingsRight
  BY DEF ReadingsRight, TypeOK

LEMMA OwnNames ==
    ASSUME NEW t \in Transaction
    PROVE  Ids(stored[t].legs) \subseteq Names(t)
  BY DEF Names

\* A change of one transaction leaves its legs its own.
LEMMA NamesStay ==
    ASSUME LegInv, NEW t \in Transaction, Touches(t), ReadingsRight, UNCHANGED edits
    PROVE  \A u, v \in Transaction : u # v => Names(u)' \cap Names(v)' = {}
  <1>1. \A u \in Transaction : \A p : p \in Names(u)' =>
          p \in Names(u) \/ (u = t /\ p \in FreshPostings)
    <2>1. TAKE u \in Transaction
    <2>2. TAKE p
    <2>3. HAVE p \in Names(u)'
    <2>4. \/ p \in Ids(stored'[u].legs)
          \/ \E b \in Run : edits[b][u] # None /\ p \in Ids(edits[b][u].before.legs)
          \/ \E e \in Editor : /\ reading[e] # None /\ reading[e].txn = u
                               /\ p \in Ids(reading[e].legs)
      BY <2>3, NamesNext DEF ReadingsRight
    <2>5. CASE p \in Ids(stored'[u].legs)
      BY <2>5, NamesAre DEF Touches
    <2>6. CASE \E b \in Run : edits[b][u] # None /\ p \in Ids(edits[b][u].before.legs)
      BY <2>6, NamesAre
    <2>7. CASE \E e \in Editor : /\ reading[e] # None /\ reading[e].txn = u
                                /\ p \in Ids(reading[e].legs)
      BY <2>7, NamesAre
    <2> QED
      BY <2>4, <2>5, <2>6, <2>7
  <1> QED
    BY <1>1, FreshIs DEF LegInv, LegsHome

LEMMA UserKeeps ==
    ASSUME TypeOK, LegInv, NEW t \in Transaction, Touches(t), RowsRight, MakersRight,
           ReadingsRight, UNCHANGED <<edits, begun, discarded, phase, file, todo>>
    PROVE  RowsWhole' /\ VersionsWhole' /\ LegsHome' /\ RunsWrite' /\ OwnAside'
  <1>1. RowsWhole'
    <2>1. \A x \in Rows' : DOMAIN refs'[x] = Fields /\ refs'[x].importer \in {"bank", "bc-apply"}
      BY RowsNext DEF Stays, Arrives, Same, LegInv, RowsWhole
    <2>2. \A x \in ApplyRefs' : refs'[x].batch \in Run
      <3>1. TAKE x \in ApplyRefs'
      <3>2. x \in Rows' /\ refs'[x].importer = "bc-apply"
        BY DEF ApplyRefs
      <3>3. Stays(x)
        BY <3>2, RowsNext DEF Arrives
      <3> QED
        BY <3>2, <3>3 DEF Stays, Same, LegInv, RowsWhole, ApplyRefs
    <2>3. \A x \in Rows' : ~refs'[x].live => stored'[refs'[x].owner] = Gone
      BY RowsNext DEF RowsRight, Rows, Row
    <2> QED
      BY <2>1, <2>2, <2>3 DEF RowsWhole, ApplyRefs
  <1>2. VersionsWhole'
    <2>1. \A u \in Transaction : stored'[u].legs = <<>> => stored'[u] = Gone
      BY DEF Touches, LegInv, VersionsWhole
    <2> QED
      BY <2>1 DEF LegInv, VersionsWhole, Gone
  <1>3. LegsHome'
    <2>1. \A x \in Rows' : refs'[x].leg # None => refs'[x].leg \in Ids(stored'[refs'[x].owner].legs)
      BY RowsNext DEF RowsRight, Rows, Row
    <2>2. \A u, v \in Transaction : u # v => Names(u)' \cap Names(v)' = {}
      BY NamesStay
    <2>3. ASSUME NEW b \in Run, NEW u \in Transaction, edits[b][u] # None,
                 NEW l \in edits[b][u].links
          PROVE  /\ l[2] \in Ids(edits[b][u].before.legs)
                 /\ l[1] \in Rows' => refs'[l[1]].owner = u
      <3>1. l[2] \in Ids(edits[b][u].before.legs) /\ (l[1] \in Rows => refs[l[1]].owner = u)
        BY <2>3 DEF LegInv, LegsHome
      <3>2. l[1] \notin FreshRefs
        BY <2>3, FreshIs
      <3>3. ASSUME l[1] \in Rows'
            PROVE  refs'[l[1]].owner = u
        BY <3>1, <3>2, <3>3, RowsNext DEF Stays, Arrives, Same
      <3> QED
        BY <3>1, <3>3
    <2> QED
      BY <2>1, <2>2, <2>3 DEF LegsHome, Ids
  <1>4. RunsWrite'
    <2>1. \A r \in Run :
            /\ phase[r] \in {"idle", "drafted", "planned"} => r \notin ToSet(begun)
            /\ phase[r] \in {"idle", "drafted", "over"} => todo[r] = {}
            /\ \A a \in todo[r] : Pending(r, a)'
      BY DEF LegInv, RunsWrite, RunRight, Pending
    <2>2. \A r \in Run, u \in Transaction :
            /\ edits[r][u] # None => r \in ToSet(begun) /\ Reads(r, u)
            /\ made'[u] # None /\ Reads(r, u) =>
                /\ made'[u].run # r
                /\ r \in ToSet(begun) => Later(made'[u].run, r)
      BY DEF LegInv, RunsWrite, RunRight, MakersRight
    <2>3. \A u \in Transaction : made'[u] # None => made'[u].run \in ToSet(begun)
      BY DEF LegInv, RunsWrite, MakersRight
    <2>4. ASSUME NEW b \in Run, NEW x \in BatchRefs(b)'
          PROVE  \/ edits[b][refs'[x].owner] # None
                 \/ made'[refs'[x].owner] # None /\ made'[refs'[x].owner].run = b
      <3>1. x \in BatchRefs(b) /\ Stays(x) /\ refs'[x].owner = refs[x].owner
        BY RowsNext DEF Stays, Same
      <3>2. x \in Ref /\ refs'[x] # NoRef /\ refs[x].owner \in Transaction
        BY <3>1 DEF BatchRefs, ApplyRefs, Rows, Row, TypeOK
      <3>3. made'[refs[x].owner] = made[refs[x].owner]
        BY <3>1, <3>2 DEF MakersRight
      <3> QED
        BY <3>1, <3>3 DEF LegInv, RunsWrite
    <2>5. \A b, c \in Run : Later(b, c)' <=> Later(b, c)
      BY DEF Later
    <2>6. \A r \in Run, u \in Transaction : Reads(r, u)' <=> Reads(r, u)
      BY DEF Reads
    <2> QED
      BY <2>1, <2>2, <2>3, <2>4, <2>5, <2>6 DEF RunsWrite, RunRight, Later, Reads
  <1>5. OwnAside'
    <2>1. ASSUME NEW b \in Run, NEW x \in BatchRefs(b)', edits[b][refs'[x].owner] # None
          PROVE  LET back == Ids(edits[b][refs'[x].owner].before.legs) IN
                 /\ refs'[x].leg \notin back
                 /\ \A c \in Run, u \in Transaction : edits[c][u] # None =>
                     \A l \in edits[c][u].links : l[1] = x => l[2] \notin back
      <3>1. x \in BatchRefs(b) /\ Stays(x) /\ refs'[x].owner = refs[x].owner
        BY RowsNext DEF Stays, Same
      <3>2. refs'[x].leg \in {refs[x].leg, None}
        BY <3>1 DEF Stays
      <3>3. refs[x].owner \in Transaction
        BY <3>1 DEF BatchRefs, ApplyRefs, TypeOK
      <3>4. edits[b][refs[x].owner] \in Record
        BY <2>1, <3>1, <3>3 DEF TypeOK
      <3>5. None \notin Ids(edits[b][refs[x].owner].before.legs)
        BY <3>4, IdsType DEF Record
      <3> QED
        BY <2>1, <3>1, <3>2, <3>5 DEF LegInv, OwnAside
    <2>2. edits' = edits
      OBVIOUS
    <2>3. \A legs : Ids(legs)' = Ids(legs)
      BY DEF Ids
    <2> QED
      BY <2>1, <2>2, <2>3 DEF OwnAside
  <1> QED
    BY <1>1, <1>2, <1>3, <1>4, <1>5

-----------------------------------------------------------------------------
(* Sequences of entries and of legs.                                       *)

LEMMA Removed ==
    ASSUME NEW L, NEW q \in Seq(L), NEW i \in DOMAIN q
    PROVE  /\ RemoveAt(q, i) \in Seq(L) /\ DOMAIN RemoveAt(q, i) = 1 .. Len(q) - 1
           /\ Len(RemoveAt(q, i)) = Len(q) - 1
           /\ \A j \in 1 .. Len(q) - 1 :
                RemoveAt(q, i)[j] = IF j < i THEN q[j] ELSE q[j + 1]
  <1>1. i \in 1 .. Len(q) /\ Len(q) \in Nat /\ DOMAIN q = 1 .. Len(q)
    OBVIOUS
  <1> DEFINE f == SubSeq(q, 1, i - 1)
             g == SubSeq(q, i + 1, Len(q))
  <1>2. f \in Seq(L) /\ Len(f) = i - 1 /\ \A j \in 1 .. i - 1 : f[j] = q[j]
    BY <1>1
  <1>3. g \in Seq(L) /\ Len(g) = Len(q) - i /\ \A j \in 1 .. Len(q) - i : g[j] = q[i + j]
    <2>1. g \in Seq(L)
      BY <1>1
    <2>2. Len(g) = Len(q) - i
      BY <1>1
    <2>3. \A j \in 1 .. Len(q) - i : g[j] = q[i + j]
      <3>1. \A j \in i + 1 .. Len(q) : q[j] \in L
        BY <1>1
      <3>2. i + 1 \in Int /\ Len(q) \in Int
        BY <1>1
      <3> HIDE DEF g
      <3>3. \A j \in 1 .. Len(q) - (i + 1) + 1 : g[j] = q[(i + 1) + j - 1]
        BY <3>1, <3>2, SubSeqProperties DEF g
      <3>4. Len(q) - (i + 1) + 1 = Len(q) - i
        BY <1>1
      <3>5. \A j \in 1 .. Len(q) - i : (i + 1) + j - 1 = i + j
        BY <1>1
      <3> QED
        BY <3>3, <3>4, <3>5
    <2> QED
      BY <2>1, <2>2, <2>3
  <1>4. RemoveAt(q, i) = f \o g
    BY DEF RemoveAt
  <1> HIDE DEF f, g
  <1>a. Len(f) + Len(g) = Len(q) - 1
    BY <1>1, <1>2, <1>3
  <1>5. f \o g \in Seq(L) /\ Len(f \o g) = Len(q) - 1
    BY <1>2, <1>3, <1>a, ConcatProperties
  <1>6. ASSUME NEW j \in 1 .. Len(q) - 1
        PROVE  (f \o g)[j] = IF j < i THEN q[j] ELSE q[j + 1]
    <2>1. CASE j < i
      BY <1>1, <1>2, <1>3, <2>1
    <2>2. CASE ~(j < i)
      <3>a. /\ j \in 1 .. Len(f) + Len(g) /\ ~(j <= Len(f)) /\ j - Len(f) = j - (i - 1)
            /\ j - (i - 1) \in 1 .. Len(q) - i
        BY <1>1, <1>2, <1>3, <2>2
      <3>b. (f \o g)[j] = g[j - Len(f)]
        BY <1>2, <1>3, <3>a, ConcatProperties
      <3>1. (f \o g)[j] = g[j - (i - 1)] /\ j - (i - 1) \in 1 .. Len(q) - i
        BY <3>a, <3>b
      <3>2. i + (j - (i - 1)) = j + 1
        BY <1>1
      <3> QED
        BY <1>3, <2>2, <3>1, <3>2
    <2> QED
      BY <2>1, <2>2
  <1>7. DOMAIN (f \o g) = 1 .. Len(q) - 1
    BY <1>5
  <1> QED
    BY <1>4, <1>5, <1>6, <1>7

LEMMA Grown ==
    ASSUME NEW L, NEW q \in Seq(L), NEW e \in L
    PROVE  /\ Append(q, e) \in Seq(L) /\ DOMAIN Append(q, e) = DOMAIN q \cup {Len(q) + 1}
           /\ Len(Append(q, e)) = Len(q) + 1 /\ Append(q, e) # <<>>
           /\ \A i \in DOMAIN q : Append(q, e)[i] = q[i]
           /\ Append(q, e)[Len(q) + 1] = e /\ Last(Append(q, e)) = e
           /\ Len(q) \in Nat /\ DOMAIN q = 1 .. Len(q)
  <1>1. /\ Append(q, e) \in Seq(L) /\ Len(Append(q, e)) = Len(q) + 1
        /\ \A i \in 1 .. Len(q) : Append(q, e)[i] = q[i]
        /\ Append(q, e)[Len(q) + 1] = e
    BY AppendProperties
  <1>2. Len(q) \in Nat /\ DOMAIN q = 1 .. Len(q)
    OBVIOUS
  <1>3. DOMAIN Append(q, e) = 1 .. Len(q) + 1
    <2>1. DOMAIN Append(q, e) = 1 .. Len(Append(q, e))
      BY <1>1
    <2> QED
      BY <1>1, <2>1
  <1>4. Append(q, e) # <<>>
    <2>1. Len(Append(q, e)) # 0
      BY <1>1, <1>2
    <2>2. Len(<<>>) = 0
      OBVIOUS
    <2> QED
      BY <2>1, <2>2
  <1>5. DOMAIN Append(q, e) = DOMAIN q \cup {Len(q) + 1}
    BY <1>2, <1>3
  <1>6. Last(Append(q, e)) = e
    BY <1>1 DEF Last
  <1> QED
    BY <1>1, <1>2, <1>4, <1>5, <1>6

\* The newest entry of a story, when nobody's, takes the user's next version.
LEMMA UserStory ==
    ASSUME TypeOK, NEW t \in Transaction, NEW v \in Version, UserWrites(t, v)
    PROVE  /\ story' \in [Transaction -> Seq(Entry)]
           /\ stored' \in [Transaction -> Version]
           /\ echoed' \subseteq Transaction /\ echoed \subseteq echoed'
  <1>1. story[t] \in Seq(Entry)
    BY DEF TypeOK
  <1>2. [by |-> None, v |-> v] \in Entry
    BY DEF Entry
  <1>3. Append(story[t], [by |-> None, v |-> v]) \in Seq(Entry)
    BY <1>1, <1>2, Grown
  <1>4. story[t] # <<>> => [story[t] EXCEPT ![Len(story[t])].v = v] \in Seq(Entry)
    <2>1. ASSUME story[t] # <<>>
          PROVE  [story[t] EXCEPT ![Len(story[t])].v = v] \in Seq(Entry)
      <3>1. Len(story[t]) \in 1 .. Len(story[t])
        BY <1>1, <2>1
      <3>2. story[t][Len(story[t])] \in Entry
        BY <1>1, <3>1
      <3>3. [story[t][Len(story[t])] EXCEPT !.v = v] \in Entry
        BY <3>2 DEF Entry
      <3> QED
        BY <1>1, <3>1, <3>3, ExceptSeq
    <2> QED
      BY <2>1
  <1> QED
    BY <1>3, <1>4 DEF UserWrites, TypeOK

-----------------------------------------------------------------------------
(* The user's actions and an import's.                                     *)

\* A record says which leg x named.
Linked(x) == \E e \in EditsOf(refs[x].owner) : x \in {l[1] : l \in e.links}

\* A reference that lost its leg now is rejected, and nobody else stops being so.
RejectsRight ==
    \A x \in Ref : refs'[x] # NoRef /\ refs'[x].importer = "bank" /\ refs'[x].leg = None =>
        \/ x \in rejected'
        \/ x \in Rows /\ refs[x].leg = None /\ x \notin rejected

LEMMA UserStep ==
    ASSUME TypeOK, LegInv, NEW t \in Transaction, Touches(t), RowsRight, MakersRight,
           RejectsRight, ReadingsRight, Change, story' \in [Transaction -> Seq(Entry)],
           made' \in [Transaction -> Maker \cup {None}],
           rejected' \subseteq Ref, unsettled' \subseteq Run, echoed' \subseteq Transaction
    PROVE  TypeOK' /\ LegInv'
  <1>1. UNCHANGED <<edits, begun, discarded, phase, file, todo, slots>>
    BY DEF Change, runs
  <1>2. RowsWhole' /\ VersionsWhole' /\ LegsHome' /\ RunsWrite' /\ OwnAside'
    BY <1>1, UserKeeps
  <1>3. scope' \in [drafts : SUBSET Seq(Value), new : Seq(Value) \ {<<>>},
                    twins : Nat, changes : Nat, runs : Nat, editors : SUBSET Editor]
    <2>1. scope.changes - 1 \in Nat /\ scope' = [scope EXCEPT !.changes = scope.changes - 1]
      BY DEF Change, TypeOK
    <2> QED
      BY <2>1 DEF TypeOK
  <1>4. ASSUME NEW x \in Rows'
        PROVE  /\ refs'[x].owner \in Transaction /\ refs'[x].leg \in Posting \cup {None}
               /\ refs'[x].leg # None => refs'[x].live
    <2>1. refs'[x].owner \in Transaction
      BY RowsNext
    <2>2. /\ refs'[x].leg # None => refs'[x].leg \in Ids(stored'[refs'[x].owner].legs)
          /\ ~refs'[x].live => stored'[refs'[x].owner] = Gone
      BY RowsNext DEF RowsRight, Rows, Row
    <2>3. stored'[refs'[x].owner] \in Version
      BY <2>1 DEF Touches
    <2>4. Ids(Gone.legs) = {}
      BY DEF Ids, Gone
    <2>5. refs'[x].leg # None => refs'[x].leg \in Posting /\ refs'[x].live
      BY <2>2, <2>3, <2>4, IdsType
    <2> QED
      BY <2>1, <2>5
  <1>5. TypeOK'
    BY <1>1, <1>3, <1>4 DEF TypeOK, RowsRight, Touches, ReadingsRight
  <1>6. LegsComeBack'
    <2>1. ASSUME NEW x \in BankRefs', refs'[x].leg = None
          PROVE  x \in rejected' \/ Linked(x)'
      <3>1. x \in Rows' /\ x \in Ref /\ refs'[x] # NoRef /\ refs'[x].importer = "bank"
        BY <2>1 DEF BankRefs, Rows, Row, RowsRight
      <3>2. CASE x \in Rows /\ refs[x].leg = None /\ x \notin rejected
        <4>1. Stays(x)
          BY <3>1, <3>2, RowsNext, FreshIs DEF Arrives
        <4>2. x \in BankRefs /\ refs'[x].owner = refs[x].owner
          BY <3>1, <4>1 DEF Stays, Same, BankRefs
        <4>3. Linked(x)
          BY <3>2, <4>2 DEF LegInv, LegsComeBack, Linked
        <4> QED
          BY <1>1, <4>2, <4>3 DEF Linked, EditsOf
      <3> QED
        BY <2>1, <3>1, <3>2 DEF RejectsRight
    <2> QED
      BY <2>1 DEF LegsComeBack, Linked
  <1> QED
    BY <1>2, <1>5, <1>6 DEF LegInv

LEMMA StandsHas ==
    ASSUME LegInv, TypeOK, NEW t \in Transaction
    PROVE  Stands(t) <=> stored[t].legs # <<>>
  BY DEF Stands, Gone, LegInv, VersionsWhole

\* No leg, no name.
LEMMA LegOwner ==
    ASSUME TypeOK, LegInv, NEW x \in Rows, NEW t \in Transaction,
           refs[x].leg # None, refs[x].leg \in Ids(stored[t].legs)
    PROVE  refs[x].owner = t
  <1>1. refs[x].owner \in Transaction /\ refs[x].leg \in Ids(stored[refs[x].owner].legs)
    BY DEF LegInv, LegsHome, TypeOK
  <1>2. refs[x].leg \in Names(refs[x].owner) /\ refs[x].leg \in Names(t)
    BY <1>1, NamesAre
  <1> QED
    BY <1>1, <1>2 DEF LegInv, LegsHome

LEMMA WriteLegsKeeps ==
    ASSUME TypeOK, LegInv, NEW t \in Transaction, NEW legs \in Seq(Leg),
           Ids(legs) \subseteq Names(t) \cup FreshPostings, WriteLegs(t, legs), ReadingsRight
    PROVE  TypeOK' /\ LegInv'
  <1> DEFINE dropped == Ids(stored[t].legs) \ Ids(legs)
             v == [stored[t] EXCEPT !.legs = legs]
  <1>1. /\ Stands(t) /\ legs # <<>> /\ Change
        /\ refs' = Tombstoned(dropped)
        /\ rejected' = rejected \cup (BankRefs \cap RefsOn(dropped))
        /\ UserWrites(t, v) /\ UNCHANGED <<made, unsettled>>
    BY DEF WriteLegs
  <1>2. stored[t] \in Version /\ v \in Version /\ v.legs = legs
    <2>1. stored[t] \in Version
      BY DEF TypeOK
    <2> QED
      BY <2>1 DEF Version
  <1>3. /\ story' \in [Transaction -> Seq(Entry)] /\ stored' \in [Transaction -> Version]
        /\ echoed' \subseteq Transaction
    BY <1>1, <1>2, UserStory
  <1>4. stored'[t] = v /\ \A u \in Transaction \ {t} : stored'[u] = stored[u]
    BY <1>1 DEF UserWrites, TypeOK
  <1>5. Touches(t)
    BY <1>1, <1>2, <1>3, <1>4 DEF Touches
  <1>6. ASSUME NEW x \in Ref, refs'[x] # NoRef
        PROVE  /\ Stays(x) /\ refs'[x].live = refs[x].live
               /\ refs'[x].leg = IF x \in RefsOn(dropped) THEN None ELSE refs[x].leg
    <2>1. refs'[x] = IF x \in RefsOn(dropped) THEN [refs[x] EXCEPT !.leg = None] ELSE refs[x]
      BY <1>1 DEF Tombstoned
    <2>2. x \in Rows
      BY <1>6, <2>1 DEF RefsOn, Rows, Row, TypeOK
    <2>3. DOMAIN refs[x] = Fields
      BY <2>2 DEF LegInv, RowsWhole
    <2> QED
      BY <2>1, <2>2, <2>3, Unnamed DEF Stays, Same
  <1>7. RowsRight
    <2>1. ASSUME NEW x \in Ref, refs'[x] # NoRef
          PROVE  /\ refs'[x].leg # None => refs'[x].leg \in Ids(stored'[refs'[x].owner].legs)
                 /\ ~refs'[x].live => stored'[refs'[x].owner] = Gone
      <3>1. x \in Rows /\ refs'[x].owner = refs[x].owner /\ refs[x].owner \in Transaction
        BY <1>6, <2>1 DEF Stays, Same, TypeOK
      <3>2. ASSUME refs'[x].leg # None
            PROVE  refs'[x].leg \in Ids(stored'[refs'[x].owner].legs)
        <4>1. /\ x \notin RefsOn(dropped) /\ refs'[x].leg = refs[x].leg
              /\ refs[x].leg \in Ids(stored[refs[x].owner].legs)
          BY <1>6, <2>1, <3>1, <3>2 DEF LegInv, LegsHome
        <4>2. refs[x].leg \notin dropped
          BY <3>1, <4>1 DEF RefsOn
        <4> QED
          BY <1>2, <1>4, <3>1, <4>1, <4>2
      <3>3. ASSUME ~refs'[x].live
            PROVE  stored'[refs'[x].owner] = Gone
        <4>1. ~refs[x].live
          BY <1>6, <2>1, <3>3
        <4>2. stored[refs[x].owner] = Gone
          BY <3>1, <4>1 DEF LegInv, RowsWhole
        <4> QED
          BY <1>1, <1>4, <3>1, <4>2 DEF Stands
      <3> QED
        BY <3>2, <3>3
    <2> QED
      BY <1>1, <1>6, <2>1 DEF RowsRight, Tombstoned
  <1>8. RejectsRight
    BY <1>1, <1>6 DEF RejectsRight, Stays, Same, BankRefs
  <1>9. MakersRight /\ made' \in [Transaction -> Maker \cup {None}] /\ unsettled' \subseteq Run
    BY <1>1 DEF MakersRight, TypeOK
  <1>10. rejected' \subseteq Ref
    BY <1>1 DEF TypeOK, BankRefs, Rows
  <1> QED
    BY <1>1, <1>3, <1>5, <1>7, <1>8, <1>9, <1>10, UserStep

\* One change leaves the ids there are, loses one or mints one.
LEMMA OneChangeIs ==
    ASSUME NEW q \in Seq(Leg), NEW legs \in OneChange(q)
    PROVE  legs \in Seq(Leg) /\ Ids(legs) \subseteq Ids(q) \cup FreshPostings
  <1>1. DOMAIN q = 1 .. Len(q) /\ Len(q) \in Nat
    OBVIOUS
  <1>2. CASE legs \in Revalued(q)
    <2>1. PICK i \in DOMAIN q, v \in Value : legs = [q EXCEPT ![i].value = v]
      BY <1>2 DEF Revalued
    <2> DEFINE leg == [q[i] EXCEPT !.value = v]
    <2>a. q[i] \in Leg
      BY <1>1
    <2>2. leg \in Leg /\ leg.id = q[i].id
      BY <2>a DEF Leg
    <2>3. legs = [q EXCEPT ![i] = leg]
      BY <2>1
    <2> HIDE DEF leg
    <2>4. legs \in Seq(Leg) /\ DOMAIN legs = DOMAIN q
          /\ \A j \in DOMAIN legs : legs[j] = IF j = i THEN leg ELSE q[j]
      BY <1>1, <2>2, <2>3, ExceptSeq
    <2>5. Ids(legs) \subseteq Ids(q)
      BY <1>1, <2>2, <2>4 DEF Ids
    <2> QED
      BY <2>4, <2>5
  <1>3. CASE legs \in Shortened(q)
    <2>1. PICK i \in DOMAIN q : legs = RemoveAt(q, i)
      BY <1>3 DEF Shortened
    <2>2. /\ legs \in Seq(Leg) /\ DOMAIN legs = 1 .. Len(q) - 1
          /\ \A j \in 1 .. Len(q) - 1 : legs[j] = IF j < i THEN q[j] ELSE q[j + 1]
      BY <2>1, Removed
    <2>3. \A j \in 1 .. Len(q) - 1 : j \in DOMAIN q /\ j + 1 \in DOMAIN q
      BY <1>1
    <2>4. Ids(legs) \subseteq Ids(q)
      BY <2>2, <2>3 DEF Ids
    <2> QED
      BY <2>2, <2>4
  <1>4. CASE legs \in Lengthened(q)
    <2>1. PICK leg \in NewLegs : legs = Append(q, leg)
      BY <1>4 DEF Lengthened
    <2>2. leg \in Leg /\ leg.id \in FreshPostings
      BY DEF NewLegs
    <2>4. /\ legs \in Seq(Leg)
          /\ \A i \in DOMAIN legs : legs[i] = leg \/ (i \in DOMAIN q /\ legs[i] = q[i])
      BY <2>1, <2>2, Grown
    <2>5. Ids(legs) \subseteq Ids(q) \cup FreshPostings
      BY <2>2, <2>4 DEF Ids
    <2> QED
      BY <2>4, <2>5
  <1> QED
    BY <1>2, <1>3, <1>4 DEF OneChange

\* A user's edit, and an editor's: its reading has the names of the transaction.
LEMMA EditsWrite ==
    ASSUME TypeOK, (\E t \in Transaction : EditByUser(t)) \/ (\E e \in Editor : WriteEdit(e))
    PROVE  /\ ReadingsRight
           /\ \E t \in Transaction : \E legs \in Seq(Leg) :
                Ids(legs) \subseteq Names(t) \cup FreshPostings /\ WriteLegs(t, legs)
  <1>1. ASSUME NEW t \in Transaction, EditByUser(t)
        PROVE  /\ ReadingsRight
               /\ \E legs \in Seq(Leg) :
                    Ids(legs) \subseteq Names(t) \cup FreshPostings /\ WriteLegs(t, legs)
    <2>1. stored[t].legs \in Seq(Leg)
      BY DEF TypeOK, Version
    <2> QED
      BY <1>1, <2>1, OneChangeIs, OwnNames, ReadingsStay DEF EditByUser
  <1>2. ASSUME NEW e \in Editor, WriteEdit(e)
        PROVE  /\ ReadingsRight
               /\ \E t \in Transaction : \E legs \in Seq(Leg) :
                    Ids(legs) \subseteq Names(t) \cup FreshPostings /\ WriteLegs(t, legs)
    <2>1. reading[e] \in Reading /\ reading[e] # None
      BY <1>2 DEF TypeOK, WriteEdit
    <2>2. reading[e].txn \in Transaction /\ reading[e].legs \in Seq(Leg)
      BY <2>1 DEF Reading
    <2>3. Ids(reading[e].legs) \subseteq Names(reading[e].txn)
      BY <2>1, <2>2, NamesAre
    <2>4. ReadingsRight
      BY <1>2 DEF WriteEdit, ReadingsRight, TypeOK
    <2> QED
      BY <1>2, <2>2, <2>3, <2>4, OneChangeIs DEF WriteEdit
  <1> QED
    BY <1>1, <1>2

LEMMA EditsKeep ==
    ASSUME TypeOK, LegInv,
           (\E t \in Transaction : EditByUser(t)) \/ (\E e \in Editor : WriteEdit(e))
    PROVE  TypeOK' /\ LegInv'
  BY EditsWrite, WriteLegsKeeps

\* Nothing of t changes but its mark and the references on it.
LEMMA ReconcileKeeps ==
    ASSUME TypeOK, LegInv, NEW t \in Transaction, NEW m \in Mark, Reconcile(t, m)
    PROVE  TypeOK' /\ LegInv'
  <1> DEFINE v == [stored[t] EXCEPT !.mark = m]
  <1>1. Stands(t) /\ Change /\ UserWrites(t, v) /\ UNCHANGED <<refs, reading, made, rejected, unsettled>>
    BY DEF Reconcile
  <1>2. stored[t] \in Version /\ v \in Version /\ v.legs = stored[t].legs
    <2>1. stored[t] \in Version
      BY DEF TypeOK
    <2> QED
      BY <2>1 DEF Version
  <1>3. /\ story' \in [Transaction -> Seq(Entry)] /\ stored' \in [Transaction -> Version]
        /\ echoed' \subseteq Transaction
    BY <1>1, <1>2, UserStory
  <1>4. stored'[t] = v /\ \A u \in Transaction \ {t} : stored'[u] = stored[u]
    BY <1>1 DEF UserWrites, TypeOK
  <1>5. stored[t].legs # <<>>
    BY <1>1, StandsHas
  <1>6. Touches(t) /\ ReadingsRight
    BY <1>1, <1>2, <1>3, <1>4, <1>5, OwnNames, ReadingsStay DEF Touches
  <1>7. ASSUME NEW x \in Ref, refs'[x] # NoRef
        PROVE  /\ x \in Rows /\ Stays(x)
               /\ refs'[x].leg # None => refs'[x].leg \in Ids(stored'[refs'[x].owner].legs)
               /\ ~refs'[x].live => stored'[refs'[x].owner] = Gone
    <2>1. x \in Rows /\ refs'[x] = refs[x]
      BY <1>1, <1>7 DEF Rows, Row, TypeOK
    <2>2. Stays(x) /\ refs[x].owner \in Transaction
      BY <2>1 DEF Stays, Same, LegInv, RowsWhole, TypeOK
    <2>a. stored'[refs[x].owner].legs = stored[refs[x].owner].legs
      <3>1. CASE refs[x].owner = t
        BY <1>2, <1>4, <3>1
      <3>2. CASE refs[x].owner # t
        BY <1>4, <2>2, <3>2
      <3> QED
        BY <3>1, <3>2
    <2>b. refs[x].leg # None => refs[x].leg \in Ids(stored[refs[x].owner].legs)
      BY <2>1 DEF LegInv, LegsHome
    <2>3. refs[x].leg # None => refs'[x].leg \in Ids(stored'[refs'[x].owner].legs)
      BY <2>1, <2>a, <2>b
    <2>4. ASSUME ~refs'[x].live
          PROVE  stored'[refs'[x].owner] = Gone
      BY <1>1, <1>4, <2>1, <2>2, <2>4 DEF LegInv, RowsWhole, Stands
    <2> QED
      BY <2>1, <2>2, <2>3, <2>4
  <1>8. RowsRight
    BY <1>1, <1>7 DEF RowsRight, TypeOK
  <1>9. RejectsRight
    BY <1>1, <1>7 DEF RejectsRight
  <1>10. /\ MakersRight /\ made' \in [Transaction -> Maker \cup {None}] /\ unsettled' \subseteq Run
         /\ rejected' \subseteq Ref
    BY <1>1 DEF MakersRight, TypeOK
  <1> QED
    BY <1>1, <1>3, <1>6, <1>8, <1>9, <1>10, UserStep

LEMMA OrphanedIs ==
    ASSUME TypeOK, LegInv, NEW t \in Transaction, NEW x \in Ref, Orphaned(t)[x] # NoRef
    PROVE  /\ x \in Rows /\ Same(Orphaned(t)[x], refs[x])
           /\ refs[x].owner = t => Orphaned(t)[x].leg = None
           /\ refs[x].owner # t => Orphaned(t)[x] = refs[x]
  <1>1. Orphaned(t)[x] = IF x \in RefsOf(t) THEN [refs[x] EXCEPT !.leg = None, !.live = FALSE]
                         ELSE refs[x]
    BY DEF Orphaned
  <1>2. x \in Rows
    BY <1>1 DEF RefsOf, Rows, Row, TypeOK
  <1>3. x \in RefsOf(t) <=> refs[x].owner = t
    BY <1>2 DEF RefsOf
  <1>4. DOMAIN refs[x] = Fields
    BY <1>2 DEF LegInv, RowsWhole
  <1> QED
    BY <1>1, <1>2, <1>3, <1>4, Unnamed DEF Same

LEMMA GoneIs == Gone \in Version /\ Gone.legs = <<>> /\ Ids(Gone.legs) = {}
  BY DEF Gone, Version, Mark, Ids

LEMMA DeleteKeepingKeeps ==
    ASSUME TypeOK, LegInv, NEW t \in Transaction, DeleteKeeping(t)
    PROVE  TypeOK' /\ LegInv'
  <1>1. /\ Stands(t) /\ Change /\ refs' = Orphaned(t)
        /\ rejected' = rejected \cup (BankRefs \cap RefsOf(t))
        /\ UserWrites(t, Gone) /\ UNCHANGED <<reading, made, unsettled>>
    BY DEF DeleteKeeping
  <1>2. /\ story' \in [Transaction -> Seq(Entry)] /\ stored' \in [Transaction -> Version]
        /\ echoed' \subseteq Transaction
    BY <1>1, GoneIs, UserStory
  <1>3. stored'[t] = Gone /\ \A u \in Transaction \ {t} : stored'[u] = stored[u]
    BY <1>1 DEF UserWrites, TypeOK
  <1>4. Touches(t) /\ ReadingsRight
    BY <1>1, <1>2, <1>3, GoneIs, ReadingsStay DEF Touches
  <1>5. ASSUME NEW x \in Ref, refs'[x] # NoRef
        PROVE  /\ x \in Rows /\ Stays(x)
               /\ refs[x].owner = t => refs'[x].leg = None
               /\ refs[x].owner # t => refs'[x] = refs[x]
    BY <1>1, <1>5, OrphanedIs DEF Stays
  <1>6. ASSUME NEW x \in Ref, refs'[x] # NoRef
        PROVE  /\ refs'[x].leg # None => refs'[x].leg \in Ids(stored'[refs'[x].owner].legs)
               /\ ~refs'[x].live => stored'[refs'[x].owner] = Gone
    <2>1. /\ x \in Rows /\ refs'[x].owner = refs[x].owner /\ refs[x].owner \in Transaction
          /\ refs[x].owner = t => refs'[x].leg = None
          /\ refs[x].owner # t => refs'[x] = refs[x]
      BY <1>5, <1>6 DEF Stays, Same, TypeOK
    <2>2. CASE refs[x].owner = t
      BY <1>3, <2>1, <2>2
    <2>3. CASE refs[x].owner # t
      BY <1>3, <2>1, <2>3 DEF LegInv, LegsHome, RowsWhole
    <2> QED
      BY <2>2, <2>3
  <1>7. RowsRight
    BY <1>1, <1>5, <1>6 DEF RowsRight, Orphaned
  <1>8. RejectsRight
    BY <1>1, <1>5 DEF RejectsRight, Stays, Same, BankRefs, RefsOf
  <1>9. /\ MakersRight /\ made' \in [Transaction -> Maker \cup {None}] /\ unsettled' \subseteq Run
        /\ rejected' \subseteq Ref
    BY <1>1 DEF MakersRight, TypeOK, BankRefs, Rows
  <1> QED
    BY <1>1, <1>2, <1>4, <1>7, <1>8, <1>9, UserStep

LEMMA BesideIs ==
    ASSUME TypeOK, NEW X
    PROVE  Beside(X) \subseteq Run
  BY DEF Beside, Files, TypeOK

\* References of X go, and their transaction t with them or not at all.
LEMMA WithoutKeeps ==
    ASSUME TypeOK, LegInv, NEW t \in Transaction, NEW X, Change, refs' = Without(X),
           \/ UNCHANGED <<stored, made>>
           \/ /\ X = RefsOf(t) /\ stored' = [stored EXCEPT ![t] = Gone]
              /\ made' = [made EXCEPT ![t] = None],
           story' \in [Transaction -> Seq(Entry)], rejected' = rejected \ X,
           unsettled' = unsettled \cup Beside(X), UNCHANGED <<reading, echoed>>
    PROVE  TypeOK' /\ LegInv'
  <1>1. ASSUME NEW x \in Ref, refs'[x] # NoRef
        PROVE  x \in Rows /\ x \notin X /\ refs'[x] = refs[x] /\ refs[x].owner \in Transaction
    BY <1>1 DEF Without, Rows, Row, TypeOK
  <1>2. Touches(t) /\ ReadingsRight /\ \A u \in Transaction : stored'[u] \in {stored[u], Gone}
    <2>1. stored \in [Transaction -> Version]
      BY DEF TypeOK
    <2> QED
      BY <2>1, GoneIs, OwnNames, ReadingsStay DEF Touches, LegInv, VersionsWhole
  <1>3. ASSUME NEW x \in Ref, refs'[x] # NoRef
        PROVE  /\ Stays(x) /\ stored'[refs[x].owner] = stored[refs[x].owner]
               /\ refs'[x].leg # None => refs'[x].leg \in Ids(stored'[refs'[x].owner].legs)
               /\ ~refs'[x].live => stored'[refs'[x].owner] = Gone
    <2>1. x \in Rows /\ x \notin X /\ refs'[x] = refs[x] /\ refs[x].owner \in Transaction
      BY <1>1, <1>3
    <2>2. X = RefsOf(t) => refs[x].owner # t
      BY <2>1 DEF RefsOf
    <2>3. stored'[refs[x].owner] = stored[refs[x].owner]
      BY <2>1, <2>2 DEF TypeOK
    <2>4. Stays(x)
      BY <2>1 DEF Stays, Same, LegInv, RowsWhole
    <2>5. ASSUME ~refs'[x].live
          PROVE  stored'[refs'[x].owner] = Gone
      BY <2>1, <2>3, <2>5 DEF LegInv, RowsWhole
    <2>6. refs'[x].leg # None => refs'[x].leg \in Ids(stored'[refs'[x].owner].legs)
      BY <2>1, <2>3 DEF LegInv, LegsHome
    <2> QED
      BY <2>3, <2>4, <2>5, <2>6
  <1>4. RowsRight
    BY <1>3 DEF RowsRight, Without
  <1>5. MakersRight /\ made' \in [Transaction -> Maker \cup {None}]
    <2>1. X = RefsOf(t) => \A x \in Ref : refs'[x] # NoRef => refs'[x].owner # t
      BY <1>1 DEF RefsOf
    <2>2. made \in [Transaction -> Maker \cup {None}]
      BY DEF TypeOK
    <2> QED
      BY <2>1, <2>2 DEF MakersRight
  <1>6. RejectsRight
    <2>1. ASSUME NEW x \in Ref, refs'[x] # NoRef, refs'[x].leg = None
          PROVE  x \in rejected' \/ (x \in Rows /\ refs[x].leg = None /\ x \notin rejected)
      BY <1>1, <2>1
    <2> QED
      BY <2>1 DEF RejectsRight
  <1>7. rejected' \subseteq Ref /\ unsettled' \subseteq Run /\ echoed' \subseteq Transaction
    BY BesideIs DEF TypeOK
  <1> QED
    BY <1>2, <1>4, <1>5, <1>6, <1>7, UserStep

LEMMA DeleteForgettingKeeps ==
    ASSUME TypeOK, LegInv, NEW t \in Transaction, DeleteForgetting(t)
    PROVE  TypeOK' /\ LegInv'
  <1>1. story' \in [Transaction -> Seq(Entry)]
    BY DEF DeleteForgetting, TypeOK
  <1> QED
    BY <1>1, WithoutKeeps DEF DeleteForgetting

LEMMA FreeSlotKeeps ==
    ASSUME TypeOK, LegInv, NEW x \in Ref, FreeSlot(x)
    PROVE  TypeOK' /\ LegInv'
  <1>1. refs[x].owner \in Transaction /\ UNCHANGED <<stored, made>> /\ UNCHANGED <<reading, echoed>>
    BY DEF FreeSlot, Rows, TypeOK
  <1>2. /\ Change /\ refs' = Without({x}) /\ story' \in [Transaction -> Seq(Entry)]
        /\ rejected' = rejected \ {x} /\ unsettled' = unsettled \cup Beside({x})
    BY DEF FreeSlot, TypeOK
  <1> QED
    BY <1>1, <1>2, WithoutKeeps

LEMMA AdoptKeeps ==
    ASSUME TypeOK, LegInv, NEW t \in Transaction, NEW i, NEW line \in Line, Adopt(t, i, line)
    PROVE  TypeOK' /\ LegInv'
  <1> DEFINE n == Nth(FreshRefs, 1)
             row == [importer |-> "bank", key |-> line, occurrence |-> 0, owner |-> t,
                     leg |-> stored[t].legs[i].id, live |-> TRUE, batch |-> None]
  <1>1. /\ Stands(t) /\ i \in DOMAIN stored[t].legs /\ Change /\ FreshRefs # {}
        /\ refs' = [refs EXCEPT ![n] = row]
        /\ UNCHANGED <<stored, reading, made, story, rejected, unsettled, echoed>>
    BY DEF Adopt
  <1>2. n \in FreshRefs
    BY <1>1, Minted, FirstIs
  <1> HIDE DEF n
  <1>3. n \in Ref /\ DOMAIN refs = Ref
    BY <1>2, FreshIs DEF TypeOK
  <1>4. /\ row.leg \in Ids(stored[t].legs) /\ row.owner = t /\ row.importer = "bank"
        /\ DOMAIN row = Fields /\ row.live
    BY <1>1 DEF Ids, Fields
  <1> HIDE DEF row
  <1>5. row.leg # None
    <2>1. stored[t] \in Version
      BY DEF TypeOK
    <2> QED
      BY <1>4, <2>1, IdsType
  <1>6. Touches(t) /\ ReadingsRight
    BY <1>1, OwnNames, ReadingsStay DEF Touches, LegInv, VersionsWhole, TypeOK
  <1>7. ASSUME NEW x \in Ref, refs'[x] # NoRef
        PROVE  /\ Stays(x) \/ Arrives(x)
               /\ x # n => x \in Rows /\ refs'[x] = refs[x]
               /\ refs'[x].leg # None => refs'[x].leg \in Ids(stored'[refs'[x].owner].legs)
               /\ ~refs'[x].live => stored'[refs'[x].owner] = Gone
    <2>1. CASE x = n
      <3>1. refs'[x] = row
        BY <1>1, <1>3, <2>1
      <3> QED
        BY <1>1, <1>2, <1>4, <2>1, <3>1 DEF Arrives
    <2>2. CASE x # n
      <3>1. x \in Rows /\ refs'[x] = refs[x] /\ UNCHANGED stored
        BY <1>1, <1>3, <1>7, <2>2 DEF Rows, Row
      <3>2. Stays(x) /\ refs[x].owner \in Transaction
        BY <3>1 DEF Stays, Same, LegInv, RowsWhole, TypeOK
      <3>3. ASSUME ~refs'[x].live
            PROVE  stored'[refs'[x].owner] = Gone
        BY <3>1, <3>3 DEF LegInv, RowsWhole
      <3>4. refs'[x].leg # None => refs'[x].leg \in Ids(stored'[refs'[x].owner].legs)
        BY <3>1 DEF LegInv, LegsHome
      <3> QED
        BY <3>1, <3>2, <3>3, <3>4
    <2> QED
      BY <2>1, <2>2
  <1>8. RowsRight
    BY <1>1, <1>3, <1>7 DEF RowsRight
  <1>9. RejectsRight
    <2>1. refs'[n] = row
      BY <1>1, <1>3
    <2> QED
      BY <1>1, <1>5, <1>7, <2>1 DEF RejectsRight
  <1>10. /\ MakersRight /\ made' \in [Transaction -> Maker \cup {None}]
         /\ story' \in [Transaction -> Seq(Entry)] /\ rejected' \subseteq Ref
         /\ unsettled' \subseteq Run /\ echoed' \subseteq Transaction
    BY <1>1 DEF MakersRight, TypeOK
  <1> QED
    BY <1>1, <1>6, <1>8, <1>9, <1>10, UserStep

-----------------------------------------------------------------------------
(* Files, plans, and ends of runs.                                         *)

\* A step that writes nothing.
LEMMA QuietStep ==
    ASSUME TypeOK, LegInv, UNCHANGED <<tables, history>>,
           \A u \in Transaction : Names(u)' \subseteq Names(u),
           \A q \in Run : \/ phase'[q] = phase[q] /\ file'[q] = file[q] /\ todo'[q] = todo[q]
                        \/ RunRight(q)'
    PROVE  LegInv'
  <1>1. UNCHANGED <<stored, refs, edits, begun, discarded, made, rejected>>
    BY DEF tables, history
  <1>2. RowsWhole'
    BY <1>1 DEF LegInv, RowsWhole, Rows, Row, ApplyRefs
  <1>3. VersionsWhole'
    BY <1>1 DEF LegInv, VersionsWhole
  <1>4. LegsHome'
    <2>1. Rows' = Rows /\ \A legs : Ids(legs)' = Ids(legs)
      BY <1>1 DEF Rows, Row, Ids
    <2>2. \A t, u \in Transaction : t # u => Names(t)' \cap Names(u)' = {}
      BY DEF LegInv, LegsHome
    <2> QED
      BY <1>1, <2>1, <2>2 DEF LegInv, LegsHome
  <1>5. RunsWrite'
    <2>1. ASSUME NEW q \in Run
          PROVE  RunRight(q)'
      <3>1. CASE phase'[q] = phase[q] /\ file'[q] = file[q] /\ todo'[q] = todo[q]
        <4>1. phase'[q] = phase[q] /\ file'[q] = file[q] /\ todo'[q] = todo[q]
          BY <3>1
        <4>2. RunRight(q)
          BY DEF LegInv, RunsWrite
        <4>3. \A a \in todo[q] : Pending(q, a)'
          BY <1>1, <4>1, <4>2 DEF RunRight, Pending
        <4> QED
          BY <1>1, <4>1, <4>2, <4>3 DEF RunRight, Reads, Later
      <3> QED
        BY <3>1
    <2>2. \A b \in Run : BatchRefs(b)' = BatchRefs(b)
      BY <1>1 DEF BatchRefs, ApplyRefs, Rows, Row
    <2> QED
      BY <1>1, <2>1, <2>2 DEF LegInv, RunsWrite
  <1>6. OwnAside'
    <2>1. \A b \in Run : BatchRefs(b)' = BatchRefs(b)
      BY <1>1 DEF BatchRefs, ApplyRefs, Rows, Row
    <2>2. ASSUME NEW b \in Run, NEW x \in BatchRefs(b), edits[b][refs[x].owner] # None
          PROVE  LET back == Ids(edits[b][refs[x].owner].before.legs) IN
                 /\ refs[x].leg \notin back
                 /\ \A c \in Run, u \in Transaction : edits[c][u] # None =>
                     \A l \in edits[c][u].links : l[1] = x => l[2] \notin back
      BY <2>2 DEF LegInv, OwnAside
    <2>3. edits' = edits /\ refs' = refs /\ \A legs : Ids(legs)' = Ids(legs)
      BY <1>1 DEF Ids
    <2> QED
      BY <2>1, <2>2, <2>3 DEF OwnAside
  <1>7. LegsComeBack'
    BY <1>1 DEF LegInv, LegsComeBack, BankRefs, EditsOf, Rows, Row
  <1> QED
    BY <1>2, <1>3, <1>4, <1>5, <1>6, <1>7 DEF LegInv

LEMMA RunStep ==
    ASSUME TypeOK, LegInv, UNCHANGED <<tables, scope, reading, history>>,
           \A q \in Run : \/ phase'[q] = phase[q] /\ file'[q] = file[q] /\ todo'[q] = todo[q]
                        \/ RunRight(q)'
    PROVE  LegInv'
  <1>1. UNCHANGED <<stored, edits, reading, tables, history>>
    BY DEF tables
  <1>2. \A u \in Transaction : Names(u)' = Names(u)
    BY <1>1 DEF Names, Recorded, LegsRead, EditsOf, Readings, Ids
  <1> QED
    BY <1>1, <1>2, QuietStep

\* Reading writes nothing, and what is read bears the transaction's own names.
LEMMA ReadForEditKeeps ==
    ASSUME TypeOK, LegInv, NEW e \in Editor, NEW t \in Transaction, ReadForEdit(e, t)
    PROVE  TypeOK' /\ LegInv'
  <1> DEFINE read == [txn |-> t, legs |-> stored[t].legs]
  <1>1. /\ Stands(t) /\ reading' = [reading EXCEPT ![e] = read]
        /\ UNCHANGED <<tables, runs, scope, history>>
    BY DEF ReadForEdit
  <1>2. UNCHANGED <<stored, refs, edits, begun, discarded, phase, file, todo, slots, made,
                    story, rejected, unsettled, echoed, scope>>
    BY <1>1 DEF tables, runs, history
  <1>3. read \in Reading
    BY <1>1, StandsHas DEF TypeOK, Version, Reading
  <1>4. reading' \in [Editor -> Reading \cup {None}]
    BY <1>1, <1>3 DEF TypeOK
  <1>5. ASSUME NEW u \in Transaction, NEW p \in Names(u)'
        PROVE  p \in Names(u)
    <2>1. \/ p \in Ids(stored[u].legs)
          \/ \E b \in Run : edits[b][u] # None /\ p \in Ids(edits[b][u].before.legs)
          \/ \E d \in Editor : /\ reading'[d] # None /\ reading'[d].txn = u
                               /\ p \in Ids(reading'[d].legs)
      BY <1>2, <1>5, NamesNext
    <2>2. \A d \in Editor : reading'[d] = IF d = e THEN read ELSE reading[d]
      BY <1>1 DEF TypeOK
    <2> QED
      BY <2>1, <2>2, NamesAre
  <1>6. LegInv'
    BY <1>1, <1>2, <1>5, QuietStep
  <1>7. TypeOK'
    BY <1>2, <1>4 DEF TypeOK, Rows, Row
  <1> QED
    BY <1>6, <1>7

LEMMA AbandonEditKeeps ==
    ASSUME TypeOK, LegInv, NEW e \in Editor, AbandonEdit(e)
    PROVE  TypeOK' /\ LegInv'
  <1>1. UNCHANGED <<tables, runs, scope, history>> /\ ReadingsRight
    BY DEF AbandonEdit, ReadingsRight, TypeOK
  <1>2. UNCHANGED <<stored, refs, edits, begun, discarded, phase, file, todo, slots, made,
                    story, rejected, unsettled, echoed, scope>>
    BY <1>1 DEF tables, runs, history
  <1>3. ASSUME NEW u \in Transaction, NEW p \in Names(u)'
        PROVE  p \in Names(u)
    <2>1. \/ p \in Ids(stored[u].legs)
          \/ \E b \in Run : edits[b][u] # None /\ p \in Ids(edits[b][u].before.legs)
          \/ \E d \in Editor : /\ reading[d] # None /\ reading[d].txn = u
                               /\ p \in Ids(reading[d].legs)
      BY <1>1, <1>2, <1>3, NamesNext DEF ReadingsRight
    <2> QED
      BY <2>1, NamesAre
  <1>4. LegInv'
    BY <1>1, <1>2, <1>3, QuietStep
  <1>5. TypeOK'
    BY <1>1, <1>2 DEF TypeOK, ReadingsRight, Rows, Row
  <1> QED
    BY <1>4, <1>5

\* A run that has not begun has written nothing, whatever file it reads.
LEMMA NotBegun ==
    ASSUME TypeOK, LegInv, NEW r \in Run, r \notin ToSet(begun),
           UNCHANGED <<tables, scope, reading, history>>,
           \A a \in todo'[r] : Pending(r, a)',
           phase'[r] \in {"idle", "drafted"} => todo'[r] = {}, phase'[r] # "over"
    PROVE  RunRight(r)'
  <1>1. UNCHANGED <<edits, begun, made>>
    BY DEF tables, history
  <1>2. \A t \in Transaction : edits[r][t] = None
    BY DEF LegInv, RunsWrite, RunRight
  <1>3. \A t \in Transaction : made[t] # None => made[t].run # r
    BY DEF LegInv, RunsWrite
  <1> QED
    BY <1>1, <1>2, <1>3 DEF RunRight

LEMMA ExportFileKeeps ==
    ASSUME TypeOK, LegInv, NEW r \in Run, NEW T \in SUBSET Transaction,
           NEW n \in 0 .. scope.twins, NEW wants \in [T -> scope.drafts],
           ExportFile(r, T, wants, n)
    PROVE  TypeOK' /\ LegInv'
  <1> DEFINE snap == [t \in T |-> stored[t]]
             doc == [name |-> r, snap |-> snap, wants |-> wants, new |-> n]
  <1>1. /\ phase[r] = "idle" /\ \A t \in T : Stands(t)
        /\ phase' = [phase EXCEPT ![r] = "drafted"] /\ file' = [file EXCEPT ![r] = doc]
        /\ UNCHANGED <<tables, todo, slots, scope, reading, history>>
    BY DEF ExportFile
  <1>2. snap \in [T -> Version \ {Gone}]
    BY <1>1 DEF Stands, TypeOK
  <1>3. wants \in [T -> Seq(Value)] /\ n \in Nat
    BY DEF TypeOK
  <1> HIDE DEF snap
  <1>4. doc \in Doc
    <2>1. snap \in UNION {[S -> Version] : S \in SUBSET Transaction}
      BY <1>2
    <2>2. wants \in UNION {[S -> Seq(Value)] : S \in SUBSET Transaction}
      BY <1>3
    <2> QED
      BY <1>3, <2>1, <2>2 DEF Doc
  <1>5. doc # None /\ DOMAIN snap = T /\ doc.snap = snap /\ doc.wants = wants /\ doc.name = r
    BY <1>2, <1>4, OpeningAssumption DEF OpeningAssumption
  <1> HIDE DEF doc
  <1>6. r \notin ToSet(begun) /\ todo[r] = {}
    BY <1>1 DEF LegInv, RunsWrite, RunRight
  <1>7. /\ phase'[r] = "drafted" /\ file'[r] = doc /\ todo' = todo
        /\ \A q \in Run \ {r} : phase'[q] = phase[q] /\ file'[q] = file[q]
        /\ DOMAIN file' = Run
    BY <1>1 DEF TypeOK
  <1>8. RunRight(r)'
    BY <1>1, <1>6, <1>7, NotBegun
  <1>9. LegInv'
    BY <1>1, <1>7, <1>8, RunStep
  <1>10. TypeOK'
    <2>1. \A q \in Run :
            /\ (phase'[q] = "idle") <=> (file'[q] = None)
            /\ file'[q] # None =>
                LET S == DOMAIN file'[q].snap IN
                /\ S \subseteq Transaction /\ file'[q].snap \in [S -> Version \ {Gone}]
                /\ file'[q].wants \in [S -> Seq(Value)] /\ file'[q].name \in Run
      <3>1. TAKE q \in Run
      <3>2. CASE q = r
        BY <1>2, <1>3, <1>5, <1>7, <3>2
      <3>3. CASE q # r
        <4>1. phase'[q] = phase[q] /\ file'[q] = file[q]
          BY <1>7, <3>3
        <4>2. /\ (phase[q] = "idle") <=> (file[q] = None)
              /\ file[q] # None =>
                LET S == DOMAIN file[q].snap IN
                /\ S \subseteq Transaction /\ file[q].snap \in [S -> Version \ {Gone}]
                /\ file[q].wants \in [S -> Seq(Value)] /\ file[q].name \in Run
          BY DEF TypeOK
        <4> QED
          BY <4>1, <4>2
      <3> QED
        BY <3>2, <3>3
    <2> QED
      BY <1>1, <1>7, <2>1 DEF TypeOK, tables, history, Rows, Row
  <1> QED
    BY <1>9, <1>10

LEMMA TakeFileKeeps ==
    ASSUME TypeOK, LegInv, NEW r \in Run, NEW q \in Run, TakeFile(r, q)
    PROVE  TypeOK' /\ LegInv'
  <1>1. /\ phase[r] = "idle" /\ phase[q] # "idle"
        /\ phase' = [phase EXCEPT ![r] = "drafted"] /\ file' = [file EXCEPT ![r] = file[q]]
        /\ UNCHANGED <<tables, todo, slots, scope, reading, history>>
    BY DEF TakeFile
  <1>2. r \notin ToSet(begun) /\ todo[r] = {} /\ file[q] # None
    BY <1>1 DEF LegInv, RunsWrite, RunRight, TypeOK
  <1>3. /\ phase'[r] = "drafted" /\ file'[r] = file[q] /\ todo' = todo
        /\ \A p \in Run \ {r} : phase'[p] = phase[p] /\ file'[p] = file[p]
        /\ DOMAIN file' = Run
    BY <1>1 DEF TypeOK
  <1>4. RunRight(r)'
    BY <1>1, <1>2, <1>3, NotBegun
  <1>5. LegInv'
    BY <1>1, <1>3, <1>4, RunStep
  <1>6. TypeOK'
    <2>a. \A p \in Run : \E o \in Run :
            file'[p] = file[o] /\ ((phase'[p] = "idle") <=> (phase[o] = "idle"))
      BY <1>1, <1>3
    <2>b. \A p \in Run :
            /\ (phase[p] = "idle") <=> (file[p] = None)
            /\ file[p] # None =>
                LET S == DOMAIN file[p].snap IN
                /\ S \subseteq Transaction /\ file[p].snap \in [S -> Version \ {Gone}]
                /\ file[p].wants \in [S -> Seq(Value)] /\ file[p].name \in Run
      BY DEF TypeOK
    <2>1. \A p \in Run :
            /\ (phase'[p] = "idle") <=> (file'[p] = None)
            /\ file'[p] # None =>
                LET S == DOMAIN file'[p].snap IN
                /\ S \subseteq Transaction /\ file'[p].snap \in [S -> Version \ {Gone}]
                /\ file'[p].wants \in [S -> Seq(Value)] /\ file'[p].name \in Run
      BY <2>a, <2>b
    <2> QED
      BY <1>1, <1>3, <2>1 DEF TypeOK, tables, history, Rows, Row
  <1> QED
    BY <1>5, <1>6

\* Steps after the plan, which write nothing: r has fewer writes left, or ends.
LEMMA FewerKeeps ==
    ASSUME TypeOK, LegInv, NEW r \in Run, UNCHANGED <<tables, file, scope, reading, history>>,
           phase' \in [Run -> {"idle", "drafted", "planned", "applying", "over"}],
           \A q \in Run \ {r} : phase'[q] = phase[q] /\ todo'[q] = todo[q],
           phase[r] \in {"planned", "applying"}, phase'[r] \in {"applying", "over"},
           DOMAIN todo' = Run, DOMAIN slots' = Run,
           todo'[r] \subseteq todo[r], phase'[r] = "over" => todo'[r] = {}
    PROVE  TypeOK' /\ LegInv'
  <1>1. RunRight(r)'
    <2>1. RunRight(r)
      BY DEF LegInv, RunsWrite
    <2>2. \A a \in todo'[r] : Pending(r, a)'
      BY <2>1 DEF RunRight, Pending, tables
    <2> QED
      BY <2>1, <2>2 DEF RunRight, Reads, Later, tables, history
  <1>2. LegInv'
    BY <1>1, RunStep
  <1>3. TypeOK'
    BY DEF TypeOK, tables, history, Rows, Row
  <1> QED
    BY <1>2, <1>3

LEMMA Among ==
    ASSUME NEW L, NEW q \in Seq(L), NEW S \in SUBSET DOMAIN q, NEW i \in S,
           NEW M, NEW p \in Seq(M), NEW T \in SUBSET DOMAIN p, Rank(S, i) <= Cardinality(T)
    PROVE  Nth(T, Rank(S, i)) \in DOMAIN p
  <1>1. /\ DOMAIN q = 1 .. Len(q) /\ Len(q) \in Nat
        /\ DOMAIN p = 1 .. Len(p) /\ Len(p) \in Nat
    OBVIOUS
  <1>2. S \subseteq Nat /\ IsFiniteSet(S)
    BY <1>1, Counting, FS_Subset
  <1>3. T \subseteq Nat /\ IsFiniteSet(T)
    BY <1>1, Counting, FS_Subset
  <1>4. Rank(S, i) \in 1 .. Cardinality(S) /\ Cardinality(S) \in Nat /\ Cardinality(T) \in Nat
    BY <1>2, <1>3, RankGrows, FS_CardinalityType
  <1>5. Rank(S, i) \in 1 .. Cardinality(T)
    BY <1>4
  <1> QED
    BY <1>3, <1>5, NthIs

\* Every leg of a draft is paired with a stored one, or new.
LEMMA MatchedLegs ==
    ASSUME NEW draft \in Seq(Value), NEW legs \in Seq(Leg), NEW protected
    PROVE  LET got == MatchLegs(draft, legs, protected) IN
           /\ got \in Seq([id : Posting \cup {None}, value : Value])
           /\ DOMAIN got = DOMAIN draft /\ Ids(got) \subseteq Ids(legs) \cup {None}
  <1>0. /\ DOMAIN draft = 1 .. Len(draft) /\ Len(draft) \in Nat
        /\ DOMAIN Values(legs) = DOMAIN legs /\ 0 \notin DOMAIN draft
        /\ \A i \in DOMAIN draft : draft[i] \in Value
    BY DEF Values
  <1> DEFINE equal == EqualPairs(draft, Values(legs))
             pairs == Paired(draft, legs, protected)
  <1>1. \A i \in DOMAIN draft : equal[i] \in {0} \cup DOMAIN legs
    <2>1. TAKE i \in DOMAIN draft
    <2> DEFINE S == Places(draft, draft[i])
               T == Places(Values(legs), draft[i])
               n == Rank(S, i)
    <2>2. S \in SUBSET DOMAIN draft /\ i \in S /\ T \in SUBSET DOMAIN legs
      BY <1>0 DEF Places
    <2>3. equal[i] = IF n <= Cardinality(T) THEN Nth(T, n) ELSE 0
      BY DEF EqualPairs
    <2> HIDE DEF S, T
    <2>4. n <= Cardinality(T) => Nth(T, n) \in DOMAIN legs
      BY <2>2, Among
    <2> QED
      BY <2>3, <2>4
  <1>2. DOMAIN equal = DOMAIN draft
    BY DEF EqualPairs
  <1> HIDE DEF equal
  <1>3. DOMAIN pairs = DOMAIN draft /\ \A i \in DOMAIN draft : pairs[i] \in {0} \cup DOMAIN legs
    <2>1. pairs = PreferProtected(equal, draft, legs, protected)
      BY DEF Paired, equal
    <2>2. DOMAIN pairs = DOMAIN draft
      BY <1>2, <2>1 DEF PreferProtected
    <2>3. ASSUME NEW i \in DOMAIN draft
          PROVE  pairs[i] \in {0} \cup DOMAIN legs
      <3> DEFINE Loose(k) == equal[k] # 0 /\ legs[equal[k]].id \notin protected
                 S == {k \in Places(draft, draft[i]) : Loose(k)}
                 T == {j \in Places(Values(legs), draft[i]) \ ToSet(equal) : legs[j].id \in protected}
                 n == Rank(S, i)
      <3>1. S \in SUBSET DOMAIN draft /\ T \in SUBSET DOMAIN legs /\ (Loose(i) => i \in S)
        BY <1>0 DEF Places
      <3>2. pairs[i] = IF Loose(i) /\ n <= Cardinality(T) THEN Nth(T, n) ELSE equal[i]
        BY <1>2, <2>1 DEF PreferProtected
      <3> HIDE DEF S, T, Loose
      <3>3. Loose(i) /\ n <= Cardinality(T) => Nth(T, n) \in DOMAIN legs
        BY <3>1, Among
      <3> QED
        BY <1>1, <3>2, <3>3
    <2> QED
      BY <2>2, <2>3
  <1> HIDE DEF pairs
  <1> DEFINE free == DOMAIN legs \ ToSet(pairs)
             Place(i) == IF pairs[i] # 0 THEN pairs[i]
                         ELSE LET n == Rank(Places(pairs, 0), i)
                              IN  IF n <= Cardinality(free) THEN Nth(free, n) ELSE 0
             got == MatchLegs(draft, legs, protected)
  <1>4. \A i \in DOMAIN draft : Place(i) \in {0} \cup DOMAIN legs
    <2>1. TAKE i \in DOMAIN draft
    <2> DEFINE S == Places(pairs, 0)
    <2>2. S \in SUBSET DOMAIN draft /\ free \in SUBSET DOMAIN legs
      BY <1>3 DEF Places
    <2>3. pairs[i] = 0 => i \in S
      BY <1>3 DEF Places
    <2> HIDE DEF S, free
    <2>4. pairs[i] = 0 /\ Rank(S, i) <= Cardinality(free) => Nth(free, Rank(S, i)) \in DOMAIN legs
      BY <2>2, <2>3, Among
    <2> QED
      BY <1>3, <2>4 DEF S
  <1>5. got = [i \in DOMAIN draft |->
                  [id |-> IF Place(i) = 0 THEN None ELSE legs[Place(i)].id, value |-> draft[i]]]
    BY DEF MatchLegs, pairs
  <1> HIDE DEF Place, got
  <1>6. \A i \in DOMAIN draft :
          /\ got[i].value \in Value /\ got[i].id \in Posting \cup {None}
          /\ got[i].id \in Ids(legs) \cup {None}
          /\ got[i] \in [id : Posting \cup {None}, value : Value]
    <2>1. TAKE i \in DOMAIN draft
    <2>2. got[i] = [id |-> IF Place(i) = 0 THEN None ELSE legs[Place(i)].id, value |-> draft[i]]
      BY <1>5
    <2>a. \A j \in DOMAIN legs : legs[j] \in Leg
      OBVIOUS
    <2>b. \A j \in DOMAIN legs : legs[j].id \in Posting
      BY <2>a DEF Leg
    <2>3. Place(i) # 0 => Place(i) \in DOMAIN legs /\ legs[Place(i)].id \in Posting
      BY <1>4, <2>b
    <2> QED
      BY <1>0, <2>2, <2>3 DEF Ids
  <1>7. got \in Seq([id : Posting \cup {None}, value : Value]) /\ DOMAIN got = DOMAIN draft
    BY <1>0, <1>5, <1>6
  <1>8. Ids(got) \subseteq Ids(legs) \cup {None}
    BY <1>6, <1>7 DEF Ids
  <1> QED
    BY <1>7, <1>8 DEF got

LEMMA PlanFileKeeps ==
    ASSUME TypeOK, LegInv, NEW r \in Run, PlanFile(r)
    PROVE  TypeOK' /\ LegInv'
  <1> DEFINE f == file[r]
  <1>1. /\ phase[r] = "drafted" /\ phase' = [phase EXCEPT ![r] = "planned"]
        /\ todo' = [todo EXCEPT ![r] = Edits(f) \cup Deletions(f) \cup Creates(f)]
        /\ UNCHANGED <<tables, file, slots, scope, reading, history>>
    BY DEF PlanFile
  <1>2. r \notin ToSet(begun)
    BY <1>1 DEF LegInv, RunsWrite, RunRight
  <1>3. /\ f # None /\ DOMAIN f.snap \subseteq Transaction
        /\ DOMAIN f.wants = DOMAIN f.snap
        /\ \A t \in DOMAIN f.wants : f.wants[t] \in Seq(Value) /\ f.snap[t] \in Version
    BY <1>1 DEF TypeOK
  <1> HIDE DEF f
  <1>4. \A t \in Transaction : edits[r][t] = None
    BY <1>2 DEF LegInv, RunsWrite, RunRight
  <1>5. ASSUME NEW t \in DOMAIN f.wants, f.wants[t] # <<>>
        PROVE  LET legs == MatchLegs(f.wants[t], f.snap[t].legs, Protected) IN
               /\ legs \in Seq([id : Posting \cup {None}, value : Value]) \ {<<>>}
               /\ Ids(legs) \subseteq Ids(f.snap[t].legs) \cup {None}
    <2>1. f.wants[t] \in Seq(Value) /\ f.snap[t].legs \in Seq(Leg)
      BY <1>3 DEF Version
    <2> DEFINE draft == f.wants[t]
               legs == MatchLegs(draft, f.snap[t].legs, Protected)
    <2>2. draft \in Seq(Value) /\ draft # <<>>
      BY <1>5, <2>1
    <2> HIDE DEF draft
    <2>3. /\ legs \in Seq([id : Posting \cup {None}, value : Value])
          /\ DOMAIN legs = DOMAIN draft /\ Ids(legs) \subseteq Ids(f.snap[t].legs) \cup {None}
      BY <2>1, <2>2, MatchedLegs
    <2>4. 1 \in DOMAIN draft
      <3>1. Len(draft) \in Nat /\ DOMAIN draft = 1 .. Len(draft)
        BY <2>2
      <3>2. Len(draft) # 0
        BY <2>2, EmptySeq
      <3> QED
        BY <3>1, <3>2
    <2> QED
      BY <2>3, <2>4 DEF draft
  <1> DEFINE acts == Edits(f) \cup Deletions(f) \cup Creates(f)
  <1>6. ASSUME NEW a \in acts
        PROVE  /\ a.op \in {"edit", "delete", "create"}
               /\ a.op # "create" => a.txn \in DOMAIN f.wants /\ a.txn \in DOMAIN f.snap
               /\ a.op = "edit" =>
                    /\ f.wants[a.txn] # <<>>
                    /\ a = [op |-> "edit", txn |-> a.txn,
                            legs |-> MatchLegs(f.wants[a.txn], f.snap[a.txn].legs, Protected)]
               /\ a.op = "delete" =>
                    f.wants[a.txn] = <<>> /\ a = [op |-> "delete", txn |-> a.txn]
    <2>1. CASE a \in Edits(f)
      BY <1>3, <2>1 DEF Edits
    <2>2. CASE a \in Deletions(f)
      BY <1>3, <2>2 DEF Deletions
    <2>3. CASE a \in Creates(f)
      BY <2>3 DEF Creates
    <2> QED
      BY <2>1, <2>2, <2>3
  <1> HIDE DEF acts
  <1>7. \A a, c \in acts : a.op # "create" /\ c.op # "create" /\ c.txn = a.txn => c = a
    BY <1>6
  <1>8. /\ phase' = [phase EXCEPT ![r] = "planned"] /\ phase'[r] = "planned"
        /\ file' = file
        /\ \A q \in Run \ {r} : phase'[q] = phase[q]
    BY <1>1 DEF TypeOK
  <1>9. todo'[r] = acts /\ \A q \in Run \ {r} : todo'[q] = todo[q]
    BY <1>1 DEF acts, TypeOK
  <1>10. \A a \in acts : Pending(r, a)'
    <2>1. TAKE a \in acts
    <2>2. file'[r] = f /\ edits' = edits /\ todo'[r] = acts
      BY <1>8, <1>9, <1>1 DEF f, tables
    <2>3. /\ a.op \in {"edit", "delete", "create"}
          /\ a.op # "create" =>
              /\ a.txn \in DOMAIN f.wants /\ a.txn \in DOMAIN f.snap /\ edits[r][a.txn] = None
              /\ \A c \in acts : c.op # "create" /\ c.txn = a.txn => c = a
      BY <1>3, <1>4, <1>6, <1>7
    <2>4. a.op = "edit" =>
            /\ a.legs \in Seq([id : Posting \cup {None}, value : Value]) \ {<<>>}
            /\ Ids(a.legs) \subseteq Ids(f.snap[a.txn].legs) \cup {None}
      <3>1. HAVE a.op = "edit"
      <3>2. /\ f.wants[a.txn] # <<>> /\ a.txn \in DOMAIN f.wants
            /\ a.legs = MatchLegs(f.wants[a.txn], f.snap[a.txn].legs, Protected)
        BY <1>6, <3>1
      <3> QED
        BY <1>5, <3>2
    <2> QED
      BY <1>3, <2>2, <2>3, <2>4 DEF Pending, Ids
  <1>11. RunRight(r)'
    BY <1>1, <1>2, <1>8, <1>9, <1>10, NotBegun
  <1>12. LegInv'
    BY <1>1, <1>8, <1>9, <1>11, RunStep
  <1>13. TypeOK'
    <2>1. \A q \in Run : (phase'[q] = "idle") <=> (file'[q] = None)
      BY <1>1, <1>8 DEF TypeOK
    <2> QED
      BY <1>1, <1>8, <2>1 DEF TypeOK, tables, history, Rows, Row
  <1> QED
    BY <1>12, <1>13

LEMMA NothingWrittenKeeps ==
    ASSUME TypeOK, LegInv, NEW r \in Run,
           \/ StartApply(r) \/ CloseBatch(r)
           \/ \E a \in todo[r] : LeaveAlone(r, a) \/ StopOnSlot(r, a)
    PROVE  TypeOK' /\ LegInv'
  <1>0. /\ phase \in [Run -> {"idle", "drafted", "planned", "applying", "over"}]
        /\ DOMAIN todo = Run /\ DOMAIN slots = Run
    BY DEF TypeOK
  <1>1. CASE StartApply(r)
    <2>1. /\ phase[r] = "planned" /\ phase' = [phase EXCEPT ![r] = "applying"]
          /\ DOMAIN slots' = Run /\ UNCHANGED <<tables, file, todo, scope, reading, history>>
      BY <1>0, <1>1 DEF StartApply
    <2> QED
      BY <1>0, <2>1, FewerKeeps
  <1>2. CASE CloseBatch(r)
    <2>1. /\ phase[r] = "applying" /\ todo[r] = {} /\ phase' = [phase EXCEPT ![r] = "over"]
          /\ DOMAIN slots' = Run /\ UNCHANGED <<tables, file, todo, scope, reading, history>>
      BY <1>0, <1>2 DEF CloseBatch
    <2> QED
      BY <1>0, <2>1, FewerKeeps
  <1>3. ASSUME NEW a \in todo[r], LeaveAlone(r, a)
        PROVE  TypeOK' /\ LegInv'
    <2>1. /\ phase[r] = "applying" /\ todo' = [todo EXCEPT ![r] = todo[r] \ {a}]
          /\ UNCHANGED <<phase, file, slots>> /\ UNCHANGED <<tables, scope, reading, history>>
      BY <1>0, <1>3 DEF LeaveAlone, At, Carried
    <2> QED
      BY <1>0, <2>1, FewerKeeps
  <1>4. ASSUME NEW a \in todo[r], StopOnSlot(r, a)
        PROVE  TypeOK' /\ LegInv'
    <2>1. /\ phase[r] = "applying" /\ phase' = [phase EXCEPT ![r] = "over"]
          /\ todo' = [todo EXCEPT ![r] = {}] /\ DOMAIN slots' = Run
          /\ UNCHANGED <<tables, file, scope, reading, history>>
      BY <1>0, <1>4 DEF StopOnSlot, At
    <2> QED
      BY <1>0, <2>1, FewerKeeps
  <1> QED
    BY <1>1, <1>2, <1>3, <1>4

-----------------------------------------------------------------------------
(* What a run writes keeps legs and references.                            *)

LEMMA Opened ==
    ASSUME TypeOK, NEW r \in Run, OpenBatch(r)
    PROVE  /\ begun' \in Seq(Run) /\ IsInjective(begun') /\ ToSet(begun') = ToSet(begun) \cup {r}
           /\ \A b, c : Later(b, c) => Later(b, c)'
           /\ \A b \in ToSet(begun) : r \notin ToSet(begun) => Later(b, r)'
  <1>1. begun \in Seq(Run) /\ IsInjective(begun)
    BY DEF TypeOK
  <1>2. CASE r \in ToSet(begun)
    <2>1. begun' = begun
      BY <1>2 DEF OpenBatch
    <2> QED
      BY <1>1, <1>2, <2>1 DEF Later
  <1>3. CASE r \notin ToSet(begun)
    <2> DEFINE n == Len(begun) + 1
    <2>1. /\ begun' \in Seq(Run) /\ DOMAIN begun' = DOMAIN begun \cup {n}
          /\ \A i \in DOMAIN begun : begun'[i] = begun[i]
          /\ begun'[n] = r /\ Len(begun) \in Nat /\ DOMAIN begun = 1 .. Len(begun)
      BY <1>1, <1>3, Grown DEF OpenBatch
    <2>2. \A i \in DOMAIN begun : i < n /\ i # n
      BY <2>1
    <2> HIDE DEF n
    <2>3. \A i \in DOMAIN begun : begun[i] # r
      BY <1>3 DEF ToSet
    <2>4. IsInjective(begun')
      BY <1>1, <2>1, <2>3 DEF IsInjective
    <2>5. ToSet(begun') = ToSet(begun) \cup {r}
      BY <2>1 DEF ToSet
    <2>6. \A b, c : Later(b, c) => Later(b, c)'
      BY <2>1 DEF Later
    <2>7. \A b \in ToSet(begun) : Later(b, r)'
      BY <2>1, <2>2 DEF Later, ToSet
    <2> QED
      BY <2>1, <2>4, <2>5, <2>6, <2>7
  <1> QED
    BY <1>2, <1>3

\* x is a new reference of r on a leg of t.
Put(x, r, t) ==
    /\ x \in FreshRefs /\ DOMAIN refs'[x] = Fields
    /\ refs'[x].importer = "bc-apply" /\ refs'[x].owner = t /\ refs'[x].batch = r
    /\ refs'[x].leg \in FreshPostings

\* r's record of t, made now.
NewRecord(r, t) ==
    LET e == edits'[r][t] IN
    /\ e \in Record /\ Reads(r, t) /\ Stands(t)
    /\ e.before = stored[t] /\ e.after = stored'[t]
    /\ e.op = "edit" => e.after.legs # <<>>
    /\ e.op = "delete" => e.after = Gone
    /\ \A l \in e.links : /\ l[1] \in Rows /\ refs[l[1]].owner = t
                          /\ l[2] = refs[l[1]].leg /\ l[2] \in Ids(stored[t].legs)

\* References stay or are r's on t; one that loses its leg is in r's record.
RowsPut(r, t) ==
    /\ DOMAIN refs' = Ref
    /\ \A x \in Ref : refs'[x] # NoRef =>
        /\ \/ /\ Stays(x)
              /\ refs'[x].leg # refs[x].leg =>
                    refs[x].owner = t /\ edits'[r][t] # None /\ x \in {l[1] : l \in edits'[r][t].links}
           \/ /\ Put(x, r, t)
              /\ edits'[r][t] # None \/ (made'[t] # None /\ made'[t].run = r)
        /\ refs'[x].leg # None => refs'[x].leg \in Ids(stored'[refs'[x].owner].legs)
        /\ ~refs'[x].live => stored'[refs'[x].owner] = Gone

\* r writes t: it records what it changes, or makes t.
RunWrites(r, t) ==
    /\ Touches(t) /\ RowsPut(r, t) /\ edits[r][t] = None /\ UNCHANGED reading
    /\ edits' \in [Run -> [Transaction -> Record \cup {None}]]
    /\ \A b \in Run, u \in Transaction :
        edits'[b][u] = edits[b][u] \/ (b = r /\ u = t /\ NewRecord(r, t))
    /\ made' \in [Transaction -> Maker \cup {None}]
    /\ \A u \in Transaction :
        made'[u] = made[u] \/ (u = t /\ t \in FreshTransactions /\ made'[u] # None /\ made'[u].run = r)

LEMMA PutNext ==
    ASSUME TypeOK, LegInv, NEW r \in Run, NEW t \in Transaction, RunWrites(r, t)
    PROVE  /\ Rows' \subseteq Ref
           /\ \A x \in Rows' : /\ Stays(x) \/ Put(x, r, t)
                               /\ refs'[x].owner \in Transaction
           /\ \A b \in Run : \A x \in BatchRefs(b)' :
                (Stays(x) /\ x \in BatchRefs(b)) \/ (b = r /\ Put(x, r, t))
           /\ \A b \in Run, u \in Transaction : edits[b][u] # None => edits'[b][u] = edits[b][u]
  <1>1. Rows' = {x \in Ref : refs'[x] # NoRef}
    BY DEF RunWrites, RowsPut, Rows, Row
  <1>2. \A x \in Rows' : Stays(x) \/ Put(x, r, t)
    BY <1>1 DEF RunWrites, RowsPut
  <1>3. \A x \in Rows' : refs'[x].owner \in Transaction
    BY <1>2 DEF Stays, Put, Same, TypeOK
  <1>4. ASSUME NEW b \in Run, NEW x \in BatchRefs(b)'
        PROVE  (Stays(x) /\ x \in BatchRefs(b)) \/ (b = r /\ Put(x, r, t))
    <2>1. x \in Rows' /\ refs'[x].importer = "bc-apply" /\ refs'[x].batch = b
      BY <1>4 DEF BatchRefs, ApplyRefs
    <2>2. Stays(x) => x \in BatchRefs(b)
      BY <2>1 DEF Stays, Same, BatchRefs, ApplyRefs
    <2> QED
      BY <1>2, <2>1, <2>2 DEF Put
  <1>5. \A b \in Run, u \in Transaction : edits[b][u] # None => edits'[b][u] = edits[b][u]
    BY DEF RunWrites
  <1> QED
    BY <1>1, <1>2, <1>3, <1>4, <1>5

LEMMA WriteRows ==
    ASSUME TypeOK, LegInv, NEW r \in Run, NEW t \in Transaction, RunWrites(r, t),
           UNCHANGED rejected
    PROVE  RowsWhole' /\ VersionsWhole' /\ LegsComeBack'
  <1>1. RowsWhole'
    <2>1. \A x \in Rows' : DOMAIN refs'[x] = Fields /\ refs'[x].importer \in {"bank", "bc-apply"}
      BY PutNext DEF Stays, Put, Same, LegInv, RowsWhole
    <2>2. \A x \in ApplyRefs' : refs'[x].batch \in Run
      <3>1. TAKE x \in ApplyRefs'
      <3>2. x \in Rows' /\ refs'[x].importer = "bc-apply"
        BY DEF ApplyRefs
      <3> QED
        BY <3>2, PutNext DEF Stays, Put, Same, LegInv, RowsWhole, ApplyRefs
    <2>3. \A x \in Rows' : ~refs'[x].live => stored'[refs'[x].owner] = Gone
      BY PutNext DEF RunWrites, RowsPut, Rows, Row
    <2> QED
      BY <2>1, <2>2, <2>3 DEF RowsWhole, ApplyRefs
  <1>2. VersionsWhole'
    <2>1. \A u \in Transaction : stored'[u].legs = <<>> => stored'[u] = Gone
      BY DEF RunWrites, Touches, LegInv, VersionsWhole
    <2>2. ASSUME NEW b \in Run, NEW u \in Transaction, edits'[b][u] # None
          PROVE  /\ edits'[b][u].before.legs # <<>>
                 /\ edits'[b][u].op = "edit" => edits'[b][u].after.legs # <<>>
                 /\ edits'[b][u].op = "delete" => edits'[b][u].after = Gone
      <3>1. CASE edits'[b][u] = edits[b][u]
        BY <2>2, <3>1 DEF LegInv, VersionsWhole
      <3>2. CASE b = r /\ u = t /\ NewRecord(r, t)
        BY <3>2, StandsHas DEF NewRecord
      <3> QED
        BY <3>1, <3>2 DEF RunWrites
    <2> QED
      BY <2>1, <2>2 DEF VersionsWhole, Gone
  <1>3. LegsComeBack'
    <2>1. ASSUME NEW x \in BankRefs', refs'[x].leg = None
          PROVE  x \in rejected \/ Linked(x)'
      <3>1. x \in Rows' /\ x \in Ref /\ refs'[x] # NoRef /\ refs'[x].importer = "bank"
        BY <2>1, PutNext DEF BankRefs, Rows, Row
      <3>2. Stays(x) /\ x \in BankRefs /\ refs'[x].owner = refs[x].owner
        BY <3>1, PutNext DEF Stays, Same, Put, BankRefs
      <3>3. refs[x].owner \in Transaction
        BY <3>2 DEF BankRefs, TypeOK
      <3>4. CASE refs[x].leg = None
        <4>1. x \in rejected \/ Linked(x)
          BY <3>2, <3>4 DEF LegInv, LegsComeBack, Linked
        <4>2. EditsOf(refs[x].owner) \subseteq EditsOf(refs[x].owner)'
          BY <3>2, <3>3, PutNext DEF EditsOf
        <4> QED
          BY <3>2, <4>1, <4>2 DEF Linked
      <3>5. CASE refs[x].leg # None
        <4>1. refs[x].owner = t /\ edits'[r][t] # None /\ x \in {l[1] : l \in edits'[r][t].links}
          BY <2>1, <3>1, <3>2, <3>5 DEF RunWrites, RowsPut, Put, Stays, FreshIs
        <4>2. edits'[r][t] \in EditsOf(t)'
          BY <4>1 DEF EditsOf
        <4> QED
          BY <3>2, <4>1, <4>2 DEF Linked
      <3> QED
        BY <3>4, <3>5
    <2> QED
      BY <2>1 DEF LegsComeBack, Linked
  <1> QED
    BY <1>1, <1>2, <1>3

LEMMA WriteHome ==
    ASSUME TypeOK, LegInv, NEW r \in Run, NEW t \in Transaction, RunWrites(r, t)
    PROVE  LegsHome'
  <1>1. \A x \in Rows' : refs'[x].leg # None => refs'[x].leg \in Ids(stored'[refs'[x].owner].legs)
    BY PutNext DEF RunWrites, RowsPut, Rows, Row
  <1>2. \A u, v \in Transaction : u # v => Names(u)' \cap Names(v)' = {}
    <2>1. \A u \in Transaction : \A p : p \in Names(u)' =>
            p \in Names(u) \/ (u = t /\ p \in FreshPostings)
      <3>1. TAKE u \in Transaction
      <3>2. TAKE p
      <3>3. HAVE p \in Names(u)'
      <3>4. \/ p \in Ids(stored'[u].legs)
            \/ \E b \in Run : edits'[b][u] # None /\ p \in Ids(edits'[b][u].before.legs)
            \/ \E e \in Editor : /\ reading[e] # None /\ reading[e].txn = u
                                 /\ p \in Ids(reading[e].legs)
        BY <3>3, NamesNext DEF RunWrites
      <3>5. CASE p \in Ids(stored'[u].legs)
        BY <3>5, NamesAre DEF RunWrites, Touches
      <3>a. CASE \E e \in Editor : /\ reading[e] # None /\ reading[e].txn = u
                                  /\ p \in Ids(reading[e].legs)
        BY <3>a, NamesAre
      <3>6. ASSUME NEW b \in Run, edits'[b][u] # None, p \in Ids(edits'[b][u].before.legs)
            PROVE  p \in Names(u)
        <4>1. CASE edits'[b][u] = edits[b][u]
          BY <3>6, <4>1, NamesAre
        <4>2. CASE u = t /\ b = r /\ NewRecord(r, t)
          BY <3>6, <4>2, NamesAre DEF NewRecord
        <4> QED
          BY <4>1, <4>2 DEF RunWrites
      <3> QED
        BY <3>4, <3>5, <3>6, <3>a
    <2> QED
      BY <2>1, FreshIs DEF LegInv, LegsHome
  <1>3. ASSUME NEW b \in Run, NEW u \in Transaction, edits'[b][u] # None,
               NEW l \in edits'[b][u].links
        PROVE  /\ l[2] \in Ids(edits'[b][u].before.legs)
               /\ l[1] \in Rows' => refs'[l[1]].owner = u
    <2>1. /\ l[2] \in Ids(edits'[b][u].before.legs) /\ (l[1] \in Rows => refs[l[1]].owner = u)
          /\ l[1] \notin FreshRefs
      <3>1. CASE edits'[b][u] = edits[b][u]
        BY <1>3, <3>1, FreshIs DEF LegInv, LegsHome
      <3>2. CASE u = t /\ b = r /\ NewRecord(r, t)
        BY <1>3, <3>2, FreshIs DEF NewRecord
      <3> QED
        BY <3>1, <3>2 DEF RunWrites
    <2>2. ASSUME l[1] \in Rows'
          PROVE  refs'[l[1]].owner = u
      BY <2>1, <2>2, PutNext DEF Stays, Put, Same
    <2> QED
      BY <2>1, <2>2
  <1> QED
    BY <1>1, <1>2, <1>3 DEF LegsHome, Ids

LEMMA WriteAside ==
    ASSUME TypeOK, LegInv, NEW r \in Run, NEW t \in Transaction, RunWrites(r, t)
    PROVE  OwnAside'
  <1>1. ASSUME NEW b \in Run, NEW x \in BatchRefs(b)', edits'[b][refs'[x].owner] # None,
               NEW p \in Ids(edits'[b][refs'[x].owner].before.legs)
        PROVE  /\ refs'[x].leg # p
               /\ \A c \in Run, u \in Transaction : edits'[c][u] # None =>
                   \A l \in edits'[c][u].links : l[1] = x => l[2] # p
    <2> DEFINE o == refs'[x].owner
    <2>0. x \in Rows' /\ o \in Transaction
      BY PutNext DEF BatchRefs, ApplyRefs
    <2>a. edits'[b][o] \in Record
      BY <1>1, <2>0 DEF RunWrites
    <2>b. p # None
      BY <1>1, <2>a, IdsType DEF Record
    <2>1. CASE b = r /\ Put(x, r, t)
      <3>1. o = t /\ NewRecord(r, t) /\ x \in FreshRefs /\ refs'[x].leg \in FreshPostings
        BY <1>1, <2>1 DEF Put, RunWrites
      <3>2. p \in Ids(stored[t].legs)
        BY <1>1, <2>1, <3>1 DEF NewRecord
      <3>3. p \in Names(t)
        BY <3>2, NamesAre
      <3>4. ASSUME NEW c \in Run, NEW u \in Transaction, edits'[c][u] # None,
                   NEW l \in edits'[c][u].links
            PROVE  l[1] # x
        <4>1. CASE edits'[c][u] = edits[c][u]
          BY <3>1, <3>4, <4>1, FreshIs
        <4>2. CASE u = t /\ c = r
          BY <3>1, <3>4, <4>2, FreshIs DEF NewRecord
        <4> QED
          BY <4>1, <4>2 DEF RunWrites
      <3> QED
        BY <3>1, <3>3, <3>4, FreshIs
    <2>2. CASE Stays(x) /\ x \in BatchRefs(b)
      <3>1. /\ o = refs[x].owner /\ x \in Rows
            /\ edits[b][o] # None \/ (made[o] # None /\ made[o].run = b)
        BY <2>2 DEF Stays, Same, LegInv, RunsWrite
      <3>2. edits'[b][o] = edits[b][o]
        <4>1. ASSUME b = r, o = t, NewRecord(r, t)
              PROVE  FALSE
          <5>1. made[t] # None /\ made[t].run = r
            BY <3>1, <4>1 DEF RunWrites
          <5>2. RunRight(r) /\ Reads(r, t)
            BY <4>1 DEF LegInv, RunsWrite, NewRecord
          <5> QED
            BY <5>1, <5>2 DEF RunRight
        <4> QED
          BY <2>0, <4>1 DEF RunWrites
      <3>3. /\ p \in Ids(edits[b][refs[x].owner].before.legs)
            /\ edits[b][refs[x].owner] # None
        BY <1>1, <3>1, <3>2
      <3>4. /\ refs[x].leg # p
            /\ \A c \in Run, u \in Transaction : edits[c][u] # None =>
                   \A l \in edits[c][u].links : l[1] = x => l[2] # p
        BY <2>2, <3>3 DEF LegInv, OwnAside
      <3>5. refs'[x].leg # p
        BY <2>2, <2>b, <3>4 DEF Stays
      <3>6. ASSUME NEW c \in Run, NEW u \in Transaction, edits'[c][u] # None,
                   NEW l \in edits'[c][u].links, l[1] = x
            PROVE  l[2] # p
        <4>1. CASE edits'[c][u] = edits[c][u]
          BY <3>4, <3>6, <4>1
        <4>2. CASE u = t /\ c = r /\ NewRecord(r, t)
          BY <3>4, <3>6, <4>2 DEF NewRecord
        <4> QED
          BY <4>1, <4>2 DEF RunWrites
      <3> QED
        BY <3>5, <3>6
    <2> QED
      BY <2>1, <2>2, PutNext
  <1>2. \A legs : Ids(legs)' = Ids(legs)
    BY DEF Ids
  <1> QED
    BY <1>1, <1>2 DEF OwnAside

LEMMA FreshUnread ==
    ASSUME TypeOK, NEW t \in FreshTransactions
    PROVE  /\ t \in Transaction /\ ~Stands(t) /\ story[t] = <<>>
           /\ \A q \in Run : ~Reads(q, t) /\ edits[q][t] = None
           /\ \A x \in Rows : refs[x].owner # t
  <1>1. /\ t \in Transaction /\ ~Stands(t) /\ story[t] = <<>> /\ EditsOf(t) = {}
        /\ RefsOf(t) = {} /\ \A f \in Files : t \notin DOMAIN f.snap
    BY DEF FreshTransactions
  <1>2. \A q \in Run : edits[q][t] = None
    BY <1>1 DEF EditsOf
  <1>3. \A q \in Run : file[q] # None => file[q] \in Files
    BY DEF Files
  <1>4. \A x \in Rows : refs[x].owner # t
    BY <1>1 DEF RefsOf
  <1> QED
    BY <1>1, <1>2, <1>3, <1>4 DEF Reads

LEMMA WriteRuns ==
    ASSUME TypeOK, LegInv, NEW r \in Run, NEW t \in Transaction, RunWrites(r, t),
           OpenBatch(r), NEW a \in todo[r], phase[r] = "applying",
           IF a.op = "create" THEN t \in FreshTransactions ELSE a.txn = t,
           UNCHANGED <<phase, file>>, todo' = [todo EXCEPT ![r] = todo[r] \ {a}]
    PROVE  RunsWrite'
  <1>0. /\ todo'[r] = todo[r] \ {a} /\ \A q \in Run \ {r} : todo'[q] = todo[q]
        /\ \A q \in Run : todo'[q] \subseteq todo[q]
    BY DEF TypeOK
  <1> DEFINE Then(b, c) == \E i, j \in DOMAIN begun' : begun'[i] = b /\ begun'[j] = c /\ i < j
  <1>1. /\ ToSet(begun') = ToSet(begun) \cup {r}
        /\ \A b, c : Later(b, c) => Then(b, c)
        /\ \A b \in ToSet(begun) : r \notin ToSet(begun) => Then(b, r)
    BY Opened DEF Later
  <1> HIDE DEF Then
  <1>2. ASSUME NEW q \in Run
        PROVE  RunRight(q)'
    <2>0. RunRight(q)
      BY DEF LegInv, RunsWrite
    <2>1. /\ phase'[q] \in {"idle", "drafted", "planned"} => q \notin ToSet(begun')
          /\ phase'[q] \in {"idle", "drafted", "over"} => todo'[q] = {}
      BY <1>0, <1>1, <2>0 DEF RunRight
    <2>2. ASSUME NEW c \in todo'[q]
          PROVE  Pending(q, c)'
      <3>1. Pending(q, c) /\ Pending(r, a) /\ c \in todo[q]
        BY <1>0, <2>0, <2>2 DEF LegInv, RunsWrite, RunRight
      <3>2. ASSUME c.op # "create"
            PROVE  edits'[q][c.txn] = None
        <4>1. edits[q][c.txn] = None /\ c.txn \in Transaction
          BY <3>1, <3>2 DEF Pending, TypeOK
        <4>2. ASSUME q = r, c.txn = t, NewRecord(r, t)
              PROVE  FALSE
          <5>1. CASE a.op # "create"
            BY <1>0, <2>2, <3>1, <3>2, <4>2, <5>1 DEF Pending
          <5>2. CASE a.op = "create"
            BY <4>2, <5>2, FreshUnread DEF NewRecord
          <5> QED
            BY <5>1, <5>2
        <4> QED
          BY <4>1, <4>2 DEF RunWrites
      <3>3. c.op # "create" =>
              /\ file'[q] # None /\ c.txn \in DOMAIN file'[q].snap /\ edits'[q][c.txn] = None
              /\ \A d \in todo'[q] : d.op # "create" /\ d.txn = c.txn => d = c
        BY <1>0, <3>1, <3>2 DEF Pending
      <3> QED
        BY <3>1, <3>3 DEF Pending, Ids
    <2>3. ASSUME NEW u \in Transaction, edits'[q][u] # None
          PROVE  q \in ToSet(begun') /\ Reads(q, u)'
      <3>1. CASE edits'[q][u] = edits[q][u]
        BY <1>1, <2>0, <2>3, <3>1 DEF RunRight, Reads
      <3>2. CASE q = r /\ u = t /\ NewRecord(r, t)
        BY <1>1, <3>2 DEF NewRecord, Reads
      <3> QED
        BY <3>1, <3>2 DEF RunWrites
    <2>4. ASSUME NEW u \in Transaction, made'[u] # None, Reads(q, u)'
          PROVE  made'[u].run # q /\ (q \in ToSet(begun') => Then(made'[u].run, q))
      <3>1. Reads(q, u)
        BY <2>4 DEF Reads
      <3>2. made'[u] = made[u]
        BY <3>1, FreshUnread DEF RunWrites
      <3>3. /\ made[u].run # q /\ (q \in ToSet(begun) => Later(made[u].run, q))
            /\ made[u].run \in ToSet(begun)
        BY <2>0, <2>4, <3>1, <3>2 DEF RunRight, LegInv, RunsWrite
      <3>4. q \in ToSet(begun') => Then(made[u].run, q)
        BY <1>1, <3>3
      <3> QED
        BY <3>2, <3>3, <3>4
    <2> QED
      BY <2>1, <2>2, <2>3, <2>4 DEF RunRight, Later, Then
  <1>3. \A u \in Transaction : made'[u] # None => made'[u].run \in ToSet(begun')
    BY <1>1 DEF RunWrites, LegInv, RunsWrite
  <1>4. ASSUME NEW b \in Run, NEW x \in BatchRefs(b)'
        PROVE  \/ edits'[b][refs'[x].owner] # None
               \/ made'[refs'[x].owner] # None /\ made'[refs'[x].owner].run = b
    <2>0. x \in Ref /\ refs'[x] # NoRef
      BY PutNext DEF BatchRefs, ApplyRefs, Rows, Row
    <2>1. CASE b = r /\ Put(x, r, t)
      BY <2>0, <2>1, FreshIs DEF Put, RunWrites, RowsPut, Stays
    <2>2. CASE Stays(x) /\ x \in BatchRefs(b)
      <3>1. /\ refs'[x].owner = refs[x].owner /\ x \in Rows /\ refs[x].owner \in Transaction
            /\ \/ edits[b][refs[x].owner] # None
               \/ made[refs[x].owner] # None /\ made[refs[x].owner].run = b
        BY <2>2 DEF Stays, Same, LegInv, RunsWrite, TypeOK
      <3>2. edits[b][refs[x].owner] # None => edits'[b][refs[x].owner] # None
        BY <3>1, PutNext
      <3>3. made'[refs[x].owner] = made[refs[x].owner]
        BY <3>1, FreshUnread DEF RunWrites
      <3> QED
        BY <3>1, <3>2, <3>3
    <2> QED
      BY <2>1, <2>2, PutNext
  <1> QED
    BY <1>2, <1>3, <1>4 DEF RunsWrite

LEMMA Telling ==
    ASSUME TypeOK, NEW r \in Run, NEW t \in Transaction, NEW v \in Version, Tell(r, t, v)
    PROVE  story' \in [Transaction -> Seq(Entry)] /\ echoed' \subseteq Transaction
  <1>1. story[t] \in Seq(Entry)
    BY DEF TypeOK
  <1> DEFINE e == [by |-> IF r \in discarded THEN None ELSE r, v |-> v]
  <1>2. e \in Entry
    BY DEF Entry
  <1>3. story' = [story EXCEPT ![t] = Append(story[t], e)]
    BY DEF Tell, TypeOK
  <1> HIDE DEF e
  <1>4. Append(story[t], e) \in Seq(Entry)
    BY <1>1, <1>2, Grown
  <1> QED
    BY <1>3, <1>4 DEF TypeOK, Tell

LEMMA WriteKeeps ==
    ASSUME TypeOK, LegInv, NEW r \in Run, NEW t \in Transaction, RunWrites(r, t),
           OpenBatch(r), NEW a \in todo[r], phase[r] = "applying",
           IF a.op = "create" THEN t \in FreshTransactions ELSE a.txn = t,
           Carried(r, a), Tell(r, t, stored'[t]), DOMAIN slots' = Run,
           unsettled' \subseteq Run, UNCHANGED <<discarded, scope, reading, rejected>>
    PROVE  TypeOK' /\ LegInv'
  <1>1. todo' = [todo EXCEPT ![r] = todo[r] \ {a}] /\ UNCHANGED <<phase, file>>
    BY DEF Carried, TypeOK
  <1>2. LegInv'
    BY <1>1, WriteRows, WriteHome, WriteAside, WriteRuns DEF LegInv
  <1>3. stored' \in [Transaction -> Version]
    BY DEF RunWrites, Touches
  <1>4. story' \in [Transaction -> Seq(Entry)] /\ echoed' \subseteq Transaction
    BY <1>3, Telling
  <1>5. begun' \in Seq(Run) /\ IsInjective(begun') /\ discarded' \subseteq ToSet(begun')
    BY Opened DEF TypeOK
  <1>6. ASSUME NEW x \in Rows'
        PROVE  /\ refs'[x].owner \in Transaction /\ refs'[x].leg \in Posting \cup {None}
               /\ refs'[x].leg # None => refs'[x].live
    <2>1. refs'[x].owner \in Transaction
      BY PutNext
    <2>2. /\ refs'[x].leg # None => refs'[x].leg \in Ids(stored'[refs'[x].owner].legs)
          /\ ~refs'[x].live => stored'[refs'[x].owner] = Gone
      BY PutNext DEF RunWrites, RowsPut, Rows, Row
    <2>3. stored'[refs'[x].owner] \in Version
      BY <1>3, <2>1
    <2>4. refs'[x].leg # None => refs'[x].leg \in Posting /\ refs'[x].live
      BY <2>2, <2>3, GoneIs, IdsType
    <2> QED
      BY <2>1, <2>4
  <1>7. TypeOK'
    BY <1>1, <1>3, <1>4, <1>5, <1>6 DEF TypeOK, RunWrites, RowsPut
  <1> QED
    BY <1>2, <1>7

LEMMA DeleteTransactionWrites ==
    ASSUME TypeOK, LegInv, NEW r \in Run, NEW a \in todo[r], DeleteTransaction(r, a)
    PROVE  /\ a.txn \in Transaction /\ RunWrites(r, a.txn) /\ stored'[a.txn] = Gone
           /\ edits'[r][a.txn] # None
  <1> DEFINE t == a.txn
             e == [op |-> "delete", before |-> stored[t], after |-> Gone,
                   links |-> {<<x, refs[x].leg>> : x \in RefsOn(Ids(stored[t].legs))}]
  <1>1. /\ BaseStands(r, a) /\ stored' = [stored EXCEPT ![t] = Gone] /\ refs' = Orphaned(t)
        /\ edits' = [edits EXCEPT ![r][t] = e] /\ made' = made /\ reading' = reading
        /\ a.op = "delete"
    BY DEF DeleteTransaction, At
  <1>2. Pending(r, a)
    BY DEF LegInv, RunsWrite, RunRight
  <1>3. t \in Transaction /\ edits[r][t] = None /\ Reads(r, t) /\ Stands(t)
    BY <1>1, <1>2 DEF Pending, Reads, TypeOK, BaseStands, UnchangedSince, Stands
  <1>4. /\ stored'[t] = Gone /\ \A u \in Transaction \ {t} : stored'[u] = stored[u]
        /\ stored' \in [Transaction -> Version] /\ stored[t] \in Version
    BY <1>1, <1>3, GoneIs DEF TypeOK
  <1>5. \A x \in RefsOn(Ids(stored[t].legs)) :
          x \in Rows /\ x \in Ref /\ refs[x].owner = t /\ refs[x].leg \in Posting
    <2>1. TAKE x \in RefsOn(Ids(stored[t].legs))
    <2>2. x \in Rows /\ refs[x].leg \in Ids(stored[t].legs)
      BY DEF RefsOn
    <2>3. refs[x].leg # None /\ refs[x].leg \in Posting
      BY <1>4, <2>2, IdsType
    <2> QED
      BY <1>3, <2>2, <2>3, LegOwner DEF Rows, TypeOK
  <1>6. e \in Record
    BY <1>4, <1>5, GoneIs DEF Record
  <1>7. edits'[r][t] = e /\ edits' \in [Run -> [Transaction -> Record \cup {None}]]
        /\ \A b \in Run, u \in Transaction : edits'[b][u] = edits[b][u] \/ (b = r /\ u = t)
    BY <1>1, <1>3, <1>6 DEF TypeOK
  <1>8. /\ e.before = stored[t] /\ e.after = Gone /\ e.op = "delete"
        /\ e.links = {<<x, refs[x].leg>> : x \in RefsOn(Ids(stored[t].legs))}
    OBVIOUS
  <1> HIDE DEF e
  <1>9. NewRecord(r, t)
    BY <1>3, <1>4, <1>5, <1>6, <1>7, <1>8 DEF NewRecord, RefsOn
  <1>10. e # None
    BY <1>6, OpeningAssumption DEF OpeningAssumption
  <1>11. RowsPut(r, t)
    <2>1. ASSUME NEW x \in Ref, refs'[x] # NoRef
          PROVE  /\ Stays(x)
                 /\ refs'[x].leg # refs[x].leg => refs[x].owner = t /\ x \in {l[1] : l \in e.links}
                 /\ refs'[x].leg # None => refs'[x].leg \in Ids(stored'[refs'[x].owner].legs)
                 /\ ~refs'[x].live => stored'[refs'[x].owner] = Gone
      <3>1. /\ x \in Rows /\ Same(refs'[x], refs[x]) /\ refs[x].owner \in Transaction
            /\ refs[x].owner = t => refs'[x].leg = None
            /\ refs[x].owner # t => refs'[x] = refs[x]
        BY <1>1, <1>3, <2>1, OrphanedIs DEF TypeOK
      <3>2. refs'[x].owner = refs[x].owner
        BY <3>1 DEF Same
      <3>3. CASE refs[x].owner = t
        <4>1. refs'[x].leg # refs[x].leg => x \in RefsOn(Ids(stored[t].legs))
          BY <3>1, <3>3 DEF LegInv, LegsHome, RefsOn
        <4>2. x \in RefsOn(Ids(stored[t].legs)) =>
                <<x, refs[x].leg>> \in e.links /\ <<x, refs[x].leg>>[1] = x
          BY <1>8
        <4> QED
          BY <1>4, <3>1, <3>2, <3>3, <4>1, <4>2 DEF Stays
      <3>4. CASE refs[x].owner # t
        BY <1>4, <3>1, <3>4 DEF Stays, LegInv, LegsHome, RowsWhole
      <3> QED
        BY <3>3, <3>4
    <2> QED
      BY <1>1, <1>7, <1>10, <2>1 DEF RowsPut, Orphaned
  <1>12. Touches(t)
    BY <1>4, GoneIs, OwnNames DEF Touches
  <1> QED
    BY <1>1, <1>3, <1>4, <1>7, <1>8, <1>9, <1>10, <1>11, <1>12 DEF RunWrites, TypeOK

LEMMA DeleteTransactionKeeps ==
    ASSUME TypeOK, LegInv, NEW r \in Run, NEW a \in todo[r], DeleteTransaction(r, a)
    PROVE  TypeOK' /\ LegInv'
  <1>1. a.txn \in Transaction /\ RunWrites(r, a.txn) /\ stored'[a.txn] = Gone
    BY DeleteTransactionWrites
  <1>2. /\ phase[r] = "applying" /\ a.op = "delete" /\ OpenBatch(r) /\ Carried(r, a)
        /\ Tell(r, a.txn, Gone) /\ UNCHANGED <<discarded, slots, scope, reading, made, rejected, unsettled>>
    BY DEF DeleteTransaction, At
  <1>3. DOMAIN slots' = Run
    BY <1>2 DEF TypeOK
  <1>4. unsettled' \subseteq Run
    BY <1>2 DEF TypeOK
  <1> QED
    BY <1>1, <1>2, <1>3, <1>4, WriteKeeps

\* The new legs of a list get fresh ids; the others keep theirs.
LEMMA MintedLegs ==
    ASSUME TypeOK, NEW legs \in Seq([id : Posting \cup {None}, value : Value]),
           Cardinality(New(legs)) <= Cardinality(FreshPostings)
    PROVE  /\ WithIds(legs) \in Seq(Leg) /\ DOMAIN WithIds(legs) = DOMAIN legs
           /\ New(legs) \subseteq DOMAIN legs /\ Cardinality(New(legs)) \in Nat
           /\ \A k \in New(legs) : WithIds(legs)[k].id \in FreshPostings
           /\ \A k \in DOMAIN legs \ New(legs) : WithIds(legs)[k] = legs[k]
           /\ Ids(WithIds(legs)) \subseteq (Ids(legs) \ {None}) \cup FreshPostings
  <1>1. DOMAIN legs = 1 .. Len(legs) /\ Len(legs) \in Nat /\ New(legs) \subseteq DOMAIN legs
    BY DEF New
  <1>2. /\ New(legs) \subseteq Nat /\ IsFiniteSet(New(legs))
        /\ Cardinality(New(legs)) \in Nat /\ Cardinality(FreshPostings) \in Nat
    BY <1>1, Counting, FS_Subset, FS_CardinalityType, Minted
  <1>3. \A k \in New(legs) : Nth(FreshPostings, Rank(New(legs), k)) \in FreshPostings
    <2>1. TAKE k \in New(legs)
    <2>2. Rank(New(legs), k) \in 1 .. Cardinality(New(legs))
      BY <1>2, RankGrows
    <2>3. Rank(New(legs), k) \in 1 .. Cardinality(FreshPostings)
      BY <1>2, <2>2
    <2> QED
      BY <2>3, Minted, NthIs
  <1>4. \A k \in DOMAIN legs : legs[k] \in [id : Posting \cup {None}, value : Value]
    <2> DEFINE L == [id : Posting \cup {None}, value : Value]
    <2>1. legs \in Seq(L)
      OBVIOUS
    <2> HIDE DEF L
    <2>2. \A k \in DOMAIN legs : legs[k] \in L
      BY <2>1
    <2> QED
      BY <2>2 DEF L
  <1>5. FreshPostings \subseteq Posting
    BY DEF FreshPostings
  <1>6. ASSUME NEW k \in DOMAIN legs
        PROVE  /\ WithIds(legs)[k] \in Leg
               /\ k \in New(legs) => WithIds(legs)[k].id \in FreshPostings
               /\ k \notin New(legs) => WithIds(legs)[k] = legs[k] /\ legs[k].id # None
    <2>1. CASE k \in New(legs)
      <3> DEFINE p == Nth(FreshPostings, Rank(New(legs), k))
      <3>1. WithIds(legs)[k] = [legs[k] EXCEPT !.id = p]
        BY <2>1 DEF WithIds
      <3>2. p \in FreshPostings
        BY <1>3, <2>1
      <3> HIDE DEF p
      <3>3. [legs[k] EXCEPT !.id = p] \in Leg /\ [legs[k] EXCEPT !.id = p].id = p
        BY <1>4, <1>5, <3>2 DEF Leg
      <3> QED
        BY <2>1, <3>1, <3>2, <3>3
    <2>2. CASE k \notin New(legs)
      <3>1. WithIds(legs)[k] = legs[k] /\ legs[k].id # None
        BY <2>2 DEF WithIds, New
      <3>2. legs[k] \in Leg
        BY <1>4, <3>1 DEF Leg
      <3> QED
        BY <2>2, <3>1, <3>2
    <2> QED
      BY <2>1, <2>2
  <1>7. DOMAIN WithIds(legs) = DOMAIN legs
    BY DEF WithIds
  <1>8. WithIds(legs) \in Seq(Leg)
    BY <1>1, <1>6 DEF WithIds
  <1>9. Ids(WithIds(legs)) \subseteq (Ids(legs) \ {None}) \cup FreshPostings
    BY <1>6, <1>7 DEF Ids
  <1> QED
    BY <1>1, <1>2, <1>6, <1>7, <1>8, <1>9

\* Attached references are fresh, on the legs they are given.
LEMMA AttachIs ==
    ASSUME NEW table, NEW r, NEW t, NEW news \in Seq(Leg), NEW at,
           Len(news) <= Cardinality(FreshRefs), NEW x \in Ref
    PROVE  LET row == Attach(table, r, t, news, at)[x] IN
           \/ row = table[x]
           \/ /\ x \in FreshRefs /\ DOMAIN row = Fields /\ row.importer = "bc-apply"
              /\ row.owner = t /\ row.batch = r /\ row.live
              /\ row.leg \in Ids(news)
  <1> DEFINE N == {n \in DOMAIN news : Nth(FreshRefs, n) = x}
             n == CHOOSE m \in N : TRUE
             row == Attach(table, r, t, news, at)[x]
  <1>1. CASE N = {}
    BY <1>1 DEF Attach
  <1>2. CASE N # {}
    <2>1. n \in DOMAIN news /\ Nth(FreshRefs, n) = x
      BY <1>2
    <2>2. row = [importer |-> "bc-apply", key |-> news[n].value, occurrence |-> at[n],
                 owner |-> t, leg |-> news[n].id, live |-> TRUE, batch |-> r]
      BY <1>2 DEF Attach
    <2> HIDE DEF n, row
    <2>3. Cardinality(FreshRefs) \in Nat /\ n \in 1 .. Len(news) /\ Len(news) \in Nat
      BY <2>1, Minted, FS_CardinalityType
    <2>4. n \in 1 .. Cardinality(FreshRefs)
      BY <2>3
    <2>5. x \in FreshRefs
      BY <2>1, <2>4, Minted, NthIs
    <2> QED
      BY <2>1, <2>2, <2>5 DEF Fields, Ids, row
  <1> QED
    BY <1>1, <1>2

\* After an edit of t: each reference stays, off the legs removed, or is put on a leg added.
LEMMA EditedRows ==
    ASSUME TypeOK, LegInv, NEW r \in Run, NEW t \in Transaction, Stands(t),
           NEW legs \in Seq(Leg), Ids(legs) \subseteq Ids(stored[t].legs) \cup FreshPostings,
           stored'[t].legs = legs, \A u \in Transaction \ {t} : stored'[u] = stored[u],
           NEW news \in Seq(Leg), NEW at, Len(news) <= Cardinality(FreshRefs),
           Ids(news) \subseteq Ids(legs) \cap FreshPostings,
           NEW removed, removed = Ids(stored[t].legs) \ Ids(legs),
           refs' = Attach(Tombstoned(removed), r, t, news, at),
           edits'[r][t] # None \/ (made'[t] # None /\ made'[t].run = r),
           removed # {} => /\ edits'[r][t] # None
                           /\ \A x \in RefsOn(removed) : x \in {l[1] : l \in edits'[r][t].links}
    PROVE  RowsPut(r, t)
  <1>0. DOMAIN refs' = Ref
    BY DEF Attach
  <1>1. ASSUME NEW x \in Ref, refs'[x] # NoRef
        PROVE  /\ \/ /\ Stays(x)
                     /\ refs'[x].leg # refs[x].leg =>
                          refs[x].owner = t /\ edits'[r][t] # None /\ x \in {l[1] : l \in edits'[r][t].links}
                  \/ Put(x, r, t)
               /\ refs'[x].leg # None => refs'[x].leg \in Ids(stored'[refs'[x].owner].legs)
               /\ ~refs'[x].live => stored'[refs'[x].owner] = Gone
    <2>1. CASE refs'[x] = Tombstoned(removed)[x]
      <3>1. refs'[x] = IF x \in RefsOn(removed) THEN [refs[x] EXCEPT !.leg = None] ELSE refs[x]
        BY <2>1 DEF Tombstoned
      <3>2. x \in Rows
        BY <1>1, <3>1 DEF RefsOn, Rows, Row, TypeOK
      <3>3. DOMAIN refs[x] = Fields /\ refs[x].owner \in Transaction
        BY <3>2 DEF LegInv, RowsWhole, TypeOK
      <3>4. /\ Stays(x) /\ refs'[x].owner = refs[x].owner
            /\ ~refs'[x].live => ~refs[x].live
            /\ refs'[x].leg = IF x \in RefsOn(removed) THEN None ELSE refs[x].leg
        <4>1. CASE x \in RefsOn(removed)
          <5>1. refs'[x] = [refs[x] EXCEPT !.leg = None]
            BY <3>1, <4>1
          <5>2. Same(refs'[x], refs[x]) /\ refs'[x].leg = None
            BY <3>3, <5>1 DEF Same, Fields
          <5>3. ASSUME ~refs'[x].live
                PROVE  ~refs[x].live
            BY <3>3, <5>1, <5>3 DEF Fields
          <5> QED
            BY <3>2, <4>1, <5>2, <5>3 DEF Stays, Same
        <4>2. CASE x \notin RefsOn(removed)
          BY <3>1, <3>2, <3>3, <4>2 DEF Stays, Same
        <4> QED
          BY <4>1, <4>2
      <3>5. ASSUME x \in RefsOn(removed)
            PROVE  refs[x].owner = t /\ edits'[r][t] # None /\ x \in {l[1] : l \in edits'[r][t].links}
        <4>1. refs[x].leg \in Ids(stored[t].legs) /\ removed # {}
          BY <3>5 DEF RefsOn
        <4>2. stored[t] \in Version
          BY DEF TypeOK
        <4> QED
          BY <3>2, <3>5, <4>1, <4>2, LegOwner, IdsType
      <3>6. ASSUME refs'[x].leg # None
            PROVE  refs'[x].leg \in Ids(stored'[refs'[x].owner].legs)
        <4>1. /\ x \notin RefsOn(removed) /\ refs'[x].leg = refs[x].leg
              /\ refs[x].leg \in Ids(stored[refs[x].owner].legs)
          BY <3>2, <3>4, <3>6 DEF LegInv, LegsHome
        <4>2. refs[x].leg \notin removed
          BY <3>2, <4>1 DEF RefsOn
        <4> QED
          BY <3>3, <3>4, <4>1, <4>2
      <3>7. ASSUME ~refs'[x].live
            PROVE  stored'[refs'[x].owner] = Gone
        <4>1. stored[refs[x].owner] = Gone
          BY <3>2, <3>4, <3>7 DEF LegInv, RowsWhole
        <4> QED
          BY <3>3, <3>4, <4>1 DEF Stands
      <3> QED
        BY <3>4, <3>5, <3>6, <3>7
    <2>2. ASSUME x \in FreshRefs, DOMAIN refs'[x] = Fields, refs'[x].importer = "bc-apply",
                 refs'[x].owner = t, refs'[x].batch = r, refs'[x].live, refs'[x].leg \in Ids(news)
          PROVE  Put(x, r, t) /\ refs'[x].leg \in Ids(stored'[refs'[x].owner].legs)
      BY <2>2 DEF Put
    <2> QED
      BY <2>1, <2>2, AttachIs
  <1> QED
    BY <1>0, <1>1 DEF RowsPut

LEMMA EditTransactionWrites ==
    ASSUME TypeOK, LegInv, NEW r \in Run, NEW a \in todo[r], EditTransaction(r, a)
    PROVE  /\ a.txn \in Transaction /\ RunWrites(r, a.txn)
           /\ stored'[a.txn] = [legs |-> EditLegs(a), mark |-> "flagged"]
           /\ edits'[r][a.txn] # None
  <1> DEFINE t == a.txn
             legs == EditLegs(a)
             news == AddedLegs(a)
             after == [legs |-> legs, mark |-> "flagged"]
             removed == Ids(stored[t].legs) \ Ids(legs)
             e == [op |-> "edit", before |-> stored[t], after |-> after,
                   links |-> {<<x, refs[x].leg>> : x \in RefsOn(removed)}]
  <1>1. /\ BaseStands(r, a) /\ Room(Cardinality(New(a.legs)))
        /\ stored' = [stored EXCEPT ![t] = after]
        /\ refs' = Attach(Tombstoned(removed), r, t, news, LegClaims(r, a).at)
        /\ edits' = [edits EXCEPT ![r][t] = e] /\ made' = made /\ reading' = reading
        /\ a.op = "edit"
    BY DEF EditTransaction, At
  <1>2. Pending(r, a)
    BY DEF LegInv, RunsWrite, RunRight
  <1>3. /\ t \in Transaction /\ edits[r][t] = None /\ Reads(r, t) /\ Stands(t)
        /\ file[r].snap[t] = stored[t] /\ stored[t] \in Version
    BY <1>1, <1>2 DEF Pending, Reads, TypeOK, BaseStands, UnchangedSince, Stands
  <1>4. /\ a.legs \in Seq([id : Posting \cup {None}, value : Value]) /\ a.legs # <<>>
        /\ Ids(a.legs) \subseteq Ids(stored[t].legs) \cup {None}
    BY <1>1, <1>2, <1>3 DEF Pending
  <1>5. /\ legs \in Seq(Leg) /\ DOMAIN legs = DOMAIN a.legs
        /\ New(a.legs) \subseteq DOMAIN legs /\ Cardinality(New(a.legs)) \in Nat
        /\ \A k \in New(a.legs) : legs[k].id \in FreshPostings
        /\ Ids(legs) \subseteq (Ids(a.legs) \ {None}) \cup FreshPostings
    BY <1>1, <1>4, MintedLegs DEF Room, EditLegs
  <1>6. legs # <<>>
    <2>1. Len(a.legs) # 0 /\ Len(a.legs) \in Nat /\ DOMAIN a.legs = 1 .. Len(a.legs)
      BY <1>4, EmptySeq
    <2>2. 1 \in DOMAIN legs
      BY <1>5, <2>1
    <2> QED
      BY <2>2
  <1>7. /\ news \in Seq(Leg) /\ Len(news) = Cardinality(New(a.legs))
        /\ Ids(news) \subseteq Ids(legs) \cap FreshPostings
    <2>1. news = Pick(legs, New(a.legs))
      BY DEF AddedLegs
    <2>2. /\ news \in Seq(Leg) /\ DOMAIN news = 1 .. Cardinality(New(a.legs))
          /\ \A n \in DOMAIN news : /\ Nth(New(a.legs), n) \in New(a.legs)
                                    /\ news[n] = legs[Nth(New(a.legs), n)]
      BY <1>5, <2>1, Picked
    <2> HIDE DEF news, legs
    <2>3. Len(news) = Cardinality(New(a.legs))
      BY <1>5, <2>2
    <2>4. \A n \in DOMAIN news : news[n].id \in Ids(legs) /\ news[n].id \in FreshPostings
      BY <1>5, <2>2 DEF Ids
    <2> QED
      BY <2>2, <2>3, <2>4 DEF Ids
  <1> HIDE DEF news, legs
  <1>8. after \in Version /\ after.legs = legs
    BY <1>5 DEF Version, Mark
  <1> HIDE DEF after
  <1>9. /\ stored'[t] = after /\ \A u \in Transaction \ {t} : stored'[u] = stored[u]
        /\ stored' \in [Transaction -> Version]
    BY <1>1, <1>3, <1>8 DEF TypeOK
  <1>10. \A x \in RefsOn(removed) :
          x \in Rows /\ x \in Ref /\ refs[x].owner = t /\ refs[x].leg \in Posting
                     /\ refs[x].leg \in Ids(stored[t].legs)
    <2>1. TAKE x \in RefsOn(removed)
    <2>2. x \in Rows /\ refs[x].leg \in Ids(stored[t].legs)
      BY DEF RefsOn
    <2>3. refs[x].leg # None /\ refs[x].leg \in Posting
      BY <1>3, <2>2, IdsType
    <2> QED
      BY <1>3, <2>2, <2>3, LegOwner DEF Rows, TypeOK
  <1> HIDE DEF removed
  <1>11. e \in Record
    BY <1>3, <1>8, <1>10 DEF Record
  <1>12. edits'[r][t] = e /\ edits' \in [Run -> [Transaction -> Record \cup {None}]]
        /\ \A b \in Run, u \in Transaction : edits'[b][u] = edits[b][u] \/ (b = r /\ u = t)
    BY <1>1, <1>3, <1>11 DEF TypeOK
  <1>13. /\ e.before = stored[t] /\ e.after = after /\ e.op = "edit"
         /\ e.links = {<<x, refs[x].leg>> : x \in RefsOn(removed)}
    OBVIOUS
  <1> HIDE DEF e
  <1>14. NewRecord(r, t)
    BY <1>3, <1>6, <1>8, <1>9, <1>10, <1>11, <1>12, <1>13 DEF NewRecord
  <1>15. e # None
    BY <1>11, OpeningAssumption DEF OpeningAssumption
  <1>16. \A x \in RefsOn(removed) : x \in {l[1] : l \in e.links}
    <2>1. TAKE x \in RefsOn(removed)
    <2>2. <<x, refs[x].leg>> \in e.links /\ <<x, refs[x].leg>>[1] = x
      BY <1>13
    <2> QED
      BY <2>2
  <1>17. Ids(legs) \subseteq Ids(stored[t].legs) \cup FreshPostings
    BY <1>4, <1>5
  <1>18. Len(news) <= Cardinality(FreshRefs)
    BY <1>1, <1>7 DEF Room
  <1>19. RowsPut(r, t)
    BY <1>1, <1>3, <1>5, <1>7, <1>8, <1>9, <1>12, <1>15, <1>16, <1>17, <1>18, EditedRows DEF removed
  <1>20. Touches(t)
    BY <1>3, <1>6, <1>8, <1>9, <1>17, OwnNames DEF Touches
  <1> QED
    BY <1>1, <1>3, <1>9, <1>12, <1>13, <1>14, <1>15, <1>19, <1>20 DEF RunWrites, TypeOK, after, legs

LEMMA EditTransactionKeeps ==
    ASSUME TypeOK, LegInv, NEW r \in Run, NEW a \in todo[r], EditTransaction(r, a)
    PROVE  TypeOK' /\ LegInv'
  <1> DEFINE after == [legs |-> EditLegs(a), mark |-> "flagged"]
  <1>1. a.txn \in Transaction /\ RunWrites(r, a.txn) /\ stored'[a.txn] = after
    BY EditTransactionWrites
  <1>2. /\ phase[r] = "applying" /\ a.op = "edit" /\ OpenBatch(r) /\ Carried(r, a)
        /\ Tell(r, a.txn, after) /\ slots' = [slots EXCEPT ![r].held = LegClaims(r, a).held]
        /\ UNCHANGED <<discarded, scope, reading, made, rejected>>
    BY DEF EditTransaction, At
  <1>3. DOMAIN slots' = Run
    BY <1>2 DEF TypeOK
  <1>4. unsettled' \subseteq Run
    <2>1. Moved(r, a.txn) \subseteq Run
      BY DEF Moved, Files, TypeOK
    <2> QED
      BY <2>1 DEF EditTransaction, TypeOK
  <1> QED
    BY <1>1, <1>2, <1>3, <1>4, WriteKeeps

LEMMA CreateTransactionWrites ==
    ASSUME TypeOK, LegInv, NEW r \in Run, NEW a \in todo[r], CreateTransaction(r, a)
    PROVE  \E t \in FreshTransactions :
             /\ RunWrites(r, t) /\ Tell(r, t, stored'[t]) /\ stored'[t] # Gone
             /\ stored' = [stored EXCEPT ![t] = stored'[t]] /\ edits' = edits
             /\ made' = [made EXCEPT ![t] = [file |-> file[r].name, run |-> r]]
  <1> DEFINE t == Nth(FreshTransactions, 1)
             plain == [k \in DOMAIN NewDraft |-> [id |-> None, value |-> NewDraft[k]]]
             legs == WithIds(plain)
             got == Claims(slots[r], NewDraft, a.at)
             new == [legs |-> legs, mark |-> "flagged"]
             maker == [file |-> file[r].name, run |-> r]
  <1>1. /\ Room(Len(NewDraft)) /\ FreshTransactions # {} /\ phase[r] = "applying"
        /\ stored' = [stored EXCEPT ![t] = new]
        /\ refs' = Attach(refs, r, t, legs, got.at)
        /\ made' = [made EXCEPT ![t] = maker] /\ edits' = edits /\ reading' = reading
        /\ Tell(r, t, new)
    BY DEF CreateTransaction, At
  <1>2. t \in FreshTransactions
    BY <1>1, Minted, FirstIs
  <1> HIDE DEF t
  <1>3. /\ t \in Transaction /\ ~Stands(t) /\ edits[r][t] = None
        /\ \A x \in Rows : refs[x].owner # t
    BY <1>2, FreshUnread
  <1>4. NewDraft \in Seq(Value) /\ NewDraft # <<>>
    BY DEF NewDraft, TypeOK
  <1>5. /\ DOMAIN NewDraft = 1 .. Len(NewDraft) /\ Len(NewDraft) \in Nat /\ Len(NewDraft) # 0
        /\ \A k \in DOMAIN NewDraft : NewDraft[k] \in Value
    BY <1>4, EmptySeq
  <1>6. /\ plain \in Seq([id : Posting \cup {None}, value : Value])
        /\ DOMAIN plain = 1 .. Len(NewDraft) /\ \A k \in DOMAIN plain : plain[k].id = None
    <2>1. \A k \in 1 .. Len(NewDraft) :
            [id |-> None, value |-> NewDraft[k]] \in [id : Posting \cup {None}, value : Value]
      BY <1>5
    <2> QED
      BY <1>5, <2>1
  <1> HIDE DEF plain
  <1>7. New(plain) = 1 .. Len(NewDraft) /\ Cardinality(New(plain)) = Len(NewDraft)
    BY <1>5, <1>6, Counting DEF New
  <1>8. /\ legs \in Seq(Leg) /\ DOMAIN legs = 1 .. Len(NewDraft)
        /\ \A k \in DOMAIN legs : legs[k].id \in FreshPostings
    BY <1>1, <1>6, <1>7, MintedLegs DEF Room
  <1> HIDE DEF legs
  <1>9. /\ Len(legs) = Len(NewDraft) /\ legs # <<>> /\ Ids(legs) \subseteq FreshPostings
        /\ Len(legs) <= Cardinality(FreshRefs)
    <2>1. Len(legs) = Len(NewDraft)
      BY <1>5, <1>8
    <2>2. legs # <<>>
      BY <1>5, <1>8, <2>1
    <2> QED
      BY <1>1, <1>8, <2>1, <2>2 DEF Ids, Room
  <1>10. new \in Version /\ new.legs = legs
    BY <1>8 DEF Version, Mark
  <1> HIDE DEF new
  <1>11. /\ stored'[t] = new /\ \A u \in Transaction \ {t} : stored'[u] = stored[u]
         /\ stored' \in [Transaction -> Version] /\ new # Gone
    BY <1>1, <1>3, <1>9, <1>10 DEF TypeOK, Gone
  <1>12. maker \in Maker
    <2>1. file[r].name \in Run
      <3>1. phase[r] # "idle"
        BY <1>1
      <3> QED
        BY <3>1 DEF TypeOK
    <2> QED
      BY <2>1 DEF Maker
  <1>13. maker # None /\ maker.run = r
    BY <1>12, OpeningAssumption DEF OpeningAssumption
  <1> HIDE DEF maker
  <1>14. /\ made'[t] = maker /\ \A u \in Transaction \ {t} : made'[u] = made[u]
         /\ made' \in [Transaction -> Maker \cup {None}]
    BY <1>1, <1>3, <1>12 DEF TypeOK
  <1>15. RowsPut(r, t)
    <2>1. ASSUME NEW x \in Ref, refs'[x] # NoRef
          PROVE  /\ \/ Stays(x) /\ refs'[x].leg = refs[x].leg
                    \/ Put(x, r, t)
                 /\ refs'[x].leg # None => refs'[x].leg \in Ids(stored'[refs'[x].owner].legs)
                 /\ ~refs'[x].live => stored'[refs'[x].owner] = Gone
      <3>1. CASE refs'[x] = refs[x]
        <4>1. x \in Rows
          BY <2>1, <3>1 DEF Rows, Row, TypeOK
        <4>2. refs[x].owner \in Transaction \ {t} /\ DOMAIN refs[x] = Fields
          BY <1>3, <4>1 DEF TypeOK, LegInv, RowsWhole
        <4>3. Stays(x)
          BY <3>1, <4>1, <4>2 DEF Stays, Same
        <4>4. ASSUME ~refs'[x].live
              PROVE  stored'[refs'[x].owner] = Gone
          BY <1>11, <3>1, <4>1, <4>2, <4>4 DEF LegInv, RowsWhole
        <4>5. refs'[x].leg # None => refs'[x].leg \in Ids(stored'[refs'[x].owner].legs)
          BY <1>11, <3>1, <4>1, <4>2 DEF LegInv, LegsHome
        <4> QED
          BY <3>1, <4>3, <4>4, <4>5
      <3>2. ASSUME x \in FreshRefs, DOMAIN refs'[x] = Fields, refs'[x].importer = "bc-apply",
                   refs'[x].owner = t, refs'[x].batch = r, refs'[x].live, refs'[x].leg \in Ids(legs)
            PROVE  Put(x, r, t) /\ refs'[x].leg \in Ids(stored'[refs'[x].owner].legs)
        BY <1>9, <1>10, <1>11, <3>2 DEF Put
      <3>3. refs'[x] = Attach(refs, r, t, legs, got.at)[x]
        BY <1>1
      <3>4. \/ refs'[x] = refs[x]
            \/ /\ x \in FreshRefs /\ DOMAIN refs'[x] = Fields /\ refs'[x].importer = "bc-apply"
               /\ refs'[x].owner = t /\ refs'[x].batch = r /\ refs'[x].live
               /\ refs'[x].leg \in Ids(legs)
        BY <1>8, <1>9, <3>3, AttachIs
      <3>5. CASE refs'[x] # refs[x]
        <4>1. Put(x, r, t) /\ refs'[x].leg \in Ids(stored'[refs'[x].owner].legs)
          BY <3>2, <3>4, <3>5
        <4>2. refs'[x].live
          BY <3>4, <3>5
        <4> QED
          BY <4>1, <4>2
      <3> QED
        BY <3>1, <3>5
    <2>2. DOMAIN refs' = Ref
      BY <1>1 DEF Attach
    <2> QED
      BY <1>13, <1>14, <2>1, <2>2 DEF RowsPut
  <1>16. Touches(t)
    BY <1>9, <1>10, <1>11 DEF Touches
  <1>17. RunWrites(r, t)
    BY <1>1, <1>2, <1>3, <1>13, <1>14, <1>15, <1>16 DEF RunWrites, TypeOK
  <1> QED
    BY <1>1, <1>2, <1>11, <1>17 DEF maker

LEMMA CreateTransactionKeeps ==
    ASSUME TypeOK, LegInv, NEW r \in Run, NEW a \in todo[r], CreateTransaction(r, a)
    PROVE  TypeOK' /\ LegInv'
  <1>1. PICK t \in FreshTransactions : RunWrites(r, t) /\ Tell(r, t, stored'[t])
    BY CreateTransactionWrites
  <1>2. /\ phase[r] = "applying" /\ a.op = "create" /\ OpenBatch(r) /\ Carried(r, a)
        /\ DOMAIN slots' = Run /\ UNCHANGED <<discarded, scope, reading, rejected, unsettled>>
    BY DEF CreateTransaction, At, TypeOK
  <1>3. t \in Transaction
    BY FreshUnread
  <1>4. unsettled' \subseteq Run
    BY <1>2 DEF TypeOK
  <1> QED
    BY <1>1, <1>2, <1>3, <1>4, WriteKeeps

-----------------------------------------------------------------------------
(* What a discard leaves.                                                  *)

Back(b, t) == IF t \in Returned(b) THEN edits[b][t].before ELSE stored[t]

LEMMA BackIs ==
    ASSUME TypeOK, LegInv, NEW b \in Run, NEW t \in Transaction
    PROVE  /\ Back(b, t) \in Version /\ Ids(Back(b, t).legs) \subseteq Names(t)
           /\ Back(b, t).legs = <<>> => Back(b, t) = Gone
           /\ t \in Returned(b) => /\ edits[b][t] # None /\ edits[b][t] \in Record
                                   /\ Back(b, t) = edits[b][t].before
           /\ t \notin Returned(b) => Back(b, t) = stored[t]
           /\ t \in Returned(b) => \/ edits[b][t].op = "delete"
                                   \/ edits[b][t].op = "edit" /\ stored[t] = edits[b][t].after
  <1>1. stored[t] \in Version /\ edits[b][t] \in Record \cup {None}
    BY DEF TypeOK
  <1>2. ASSUME t \in Returned(b)
        PROVE  /\ edits[b][t] # None /\ edits[b][t] \in Record
               /\ \/ edits[b][t].op = "delete"
                  \/ edits[b][t].op = "edit" /\ stored[t] = edits[b][t].after
    BY <1>1, <1>2 DEF Returned, EditedBy, Kept, UnchangedSince
  <1>3. CASE t \in Returned(b)
    <2>1. edits[b][t].before \in Version
      BY <1>2, <1>3 DEF Record
    <2>2. edits[b][t].before.legs # <<>>
      BY <1>2, <1>3 DEF LegInv, VersionsWhole
    <2> QED
      BY <1>2, <1>3, <2>1, <2>2, NamesAre DEF Back
  <1>4. CASE t \notin Returned(b)
    BY <1>1, <1>4, NamesAre DEF Back, LegInv, VersionsWhole
  <1> QED
    BY <1>3, <1>2, <1>4

\* What is left of t: the legs of its version before b that b does not own.
LEMMA LeftIs ==
    ASSUME TypeOK, LegInv, NEW b \in Run, NEW t \in Transaction
    PROVE  /\ Left(b, t) \in Version
           /\ \A p : p \in Ids(Left(b, t).legs) <=> p \in Ids(Back(b, t).legs) /\ p \notin Owned(b)
           /\ Ids(Left(b, t).legs) \subseteq Names(t)
           /\ Left(b, t).legs = <<>> => Left(b, t) = Gone
           /\ (\A p \in Ids(Back(b, t).legs) : p \notin Owned(b)) => Left(b, t) = Back(b, t)
  <1> DEFINE back == Back(b, t)
             K == {i \in DOMAIN back.legs : back.legs[i].id \notin Owned(b)}
             legs == Pick(back.legs, K)
  <1>1. /\ back \in Version /\ Ids(back.legs) \subseteq Names(t)
        /\ back.legs = <<>> => back = Gone
    BY BackIs
  <1>2. back.legs \in Seq(Leg)
    BY <1>1 DEF Version
  <1>3. Left(b, t) = IF legs = <<>> THEN Gone ELSE [back EXCEPT !.legs = legs]
    BY DEF Left, Back
  <1> HIDE DEF back
  <1>4. K \subseteq DOMAIN back.legs
    OBVIOUS
  <1> HIDE DEF K
  <1>5. /\ legs \in Seq(Leg) /\ Cardinality(K) \in Nat /\ DOMAIN legs = 1 .. Cardinality(K)
        /\ \A n \in DOMAIN legs : Nth(K, n) \in K /\ legs[n] = back.legs[Nth(K, n)]
        /\ K = DOMAIN back.legs => legs = back.legs
    BY <1>2, <1>4, Picked
  <1>6. \A k \in K : Rank(K, k) \in DOMAIN legs /\ Nth(K, Rank(K, k)) = k
    <2>1. DOMAIN back.legs = 1 .. Len(back.legs) /\ Len(back.legs) \in Nat
      BY <1>2
    <2>2. K \subseteq Nat /\ IsFiniteSet(K)
      BY <1>4, <2>1, Counting, FS_Subset
    <2> QED
      BY <1>5, <2>2, RankGrows, RankOnto
  <1>7. \A p : p \in Ids(legs) <=> p \in Ids(back.legs) /\ p \notin Owned(b)
    <2>1. ASSUME NEW p \in Ids(legs)
          PROVE  p \in Ids(back.legs) /\ p \notin Owned(b)
      <3>1. PICK n \in DOMAIN legs : p = legs[n].id
        BY DEF Ids
      <3>2. Nth(K, n) \in K /\ p = back.legs[Nth(K, n)].id
        BY <1>5, <3>1
      <3> QED
        BY <3>2, <1>4 DEF Ids, K
    <2>2. ASSUME NEW p \in Ids(back.legs), p \notin Owned(b)
          PROVE  p \in Ids(legs)
      <3>1. PICK k \in DOMAIN back.legs : p = back.legs[k].id
        BY DEF Ids
      <3>2. k \in K
        BY <2>2, <3>1 DEF K
      <3> HIDE DEF legs
      <3>3. Rank(K, k) \in DOMAIN legs /\ legs[Rank(K, k)] = back.legs[k]
        BY <1>5, <1>6, <3>2
      <3> QED
        BY <3>1, <3>3 DEF Ids
    <2> QED
      BY <2>1, <2>2
  <1>8. (\A p \in Ids(back.legs) : p \notin Owned(b)) => legs = back.legs
    <2>1. HAVE \A p \in Ids(back.legs) : p \notin Owned(b)
    <2>2. K = DOMAIN back.legs
      BY <2>1 DEF Ids, K
    <2> QED
      BY <1>5, <2>2
  <1> HIDE DEF legs
  <1>9. /\ [back EXCEPT !.legs = legs] \in Version /\ [back EXCEPT !.legs = legs].legs = legs
        /\ legs = back.legs => [back EXCEPT !.legs = legs] = back
    BY <1>1, <1>5 DEF Version
  <1>10. legs = <<>> => Ids(legs) = {}
    BY DEF Ids
  <1>11. /\ Left(b, t) \in Version
         /\ Ids(Left(b, t).legs) = Ids(legs)
         /\ Left(b, t).legs = <<>> => Left(b, t) = Gone
         /\ legs = back.legs => Left(b, t) = back
    <2>1. CASE legs = <<>>
      BY <1>1, <1>3, <1>10, <2>1, GoneIs
    <2>2. CASE legs # <<>>
      BY <1>3, <1>9, <2>2
    <2> QED
      BY <2>1, <2>2
  <1> QED
    BY <1>1, <1>7, <1>8, <1>11 DEF back

LEMMA OwnedIs ==
    ASSUME TypeOK, LegInv, NEW b \in Run, NEW p \in Owned(b)
    PROVE  /\ p # None
           /\ \E y \in BatchRefs(b) :
                /\ p = refs[y].leg /\ refs[y].owner \in Transaction /\ refs[y].owner \notin Kept(b)
                /\ p \in Ids(stored[refs[y].owner].legs)
                /\ \A t \in Transaction : p \in Names(t) => refs[y].owner = t
  <1>1. PICK y \in BatchRefs(b) : p = refs[y].leg /\ refs[y].owner \notin Kept(b) /\ p # None
    BY DEF Owned, Plan
  <1>2. /\ y \in Rows /\ refs[y].owner \in Transaction
        /\ p \in Ids(stored[refs[y].owner].legs)
    BY <1>1 DEF BatchRefs, ApplyRefs, TypeOK, LegInv, LegsHome
  <1>3. p \in Names(refs[y].owner)
    BY <1>2, NamesAre
  <1>4. \A t \in Transaction : p \in Names(t) => refs[y].owner = t
    BY <1>2, <1>3 DEF LegInv, LegsHome
  <1> QED
    BY <1>1, <1>2, <1>4

\* A record brings back what it held; a kept edit stays.
LEMMA LeftWhole ==
    ASSUME TypeOK, LegInv, NEW b \in Run, NEW t \in Transaction
    PROVE  /\ t \in Returned(b) => Left(b, t) = edits[b][t].before
           /\ t \in Kept(b) => Left(b, t) = stored[t] /\ t \notin Returned(b)
           /\ (t \notin Returned(b) /\ (\A y \in BatchRefs(b) : refs[y].owner # t)) =>
                Left(b, t) = stored[t]
  <1>1. ASSUME t \in Returned(b), NEW p \in Ids(edits[b][t].before.legs)
        PROVE  p \notin Owned(b)
    <2>1. edits[b][t] # None
      BY <1>1, BackIs
    <2>2. p \in Names(t)
      BY <1>1, <2>1, NamesAre
    <2>3. ASSUME p \in Owned(b)
          PROVE  FALSE
      <3>1. PICK y \in BatchRefs(b) : p = refs[y].leg /\ refs[y].owner = t
        BY <2>2, <2>3, OwnedIs
      <3> QED
        BY <1>1, <2>1, <3>1 DEF LegInv, OwnAside
    <2> QED
      BY <2>3
  <1>2. ASSUME t \in Returned(b)
        PROVE  Left(b, t) = edits[b][t].before
    BY <1>1, <1>2, BackIs, LeftIs
  <1>3. t \in Kept(b) => t \notin Returned(b)
    BY DEF Kept, Returned, EditedBy
  <1>4. ASSUME t \notin Returned(b), t \in Kept(b) \/ \A y \in BatchRefs(b) : refs[y].owner # t
        PROVE  Left(b, t) = stored[t]
    <2>1. Back(b, t) = stored[t] /\ Ids(Back(b, t).legs) \subseteq Names(t)
      BY <1>4, BackIs
    <2>2. \A p \in Ids(Back(b, t).legs) : p \notin Owned(b)
      BY <1>4, <2>1, OwnedIs
    <2> QED
      BY <2>1, <2>2, LeftIs
  <1> QED
    BY <1>2, <1>3, <1>4

\* A reference that stays: the leg it names then, of its own transaction.
Aim(b, x) ==
    IF Relinks(b, x) = {} THEN refs[x].leg ELSE (CHOOSE l \in Relinks(b, x) : TRUE)[2]

LEMMA AimIs ==
    ASSUME TypeOK, LegInv, NEW b \in Run, NEW x \in Rows
    PROVE  LET t == refs[x].owner IN
           /\ t \in Transaction
           /\ Relinks(b, x) # {} =>
                /\ t \in Returned(b) /\ edits[b][t] # None
                /\ Aim(b, x) \in Ids(edits[b][t].before.legs)
                /\ \E l \in edits[b][t].links : l[1] = x /\ l[2] = Aim(b, x)
           /\ Relinks(b, x) = {} => Aim(b, x) = refs[x].leg
           /\ Aim(b, x) # None => Aim(b, x) \in Names(t)
  <1> DEFINE t == refs[x].owner
  <1>1. t \in Transaction
    BY DEF TypeOK
  <1>2. ASSUME Relinks(b, x) # {}
        PROVE  /\ t \in Returned(b) /\ edits[b][t] # None
               /\ Aim(b, x) \in Ids(edits[b][t].before.legs)
               /\ \E l \in edits[b][t].links : l[1] = x /\ l[2] = Aim(b, x)
    <2>1. /\ t \in Returned(b)
          /\ \E l \in edits[b][t].links : l[1] = x /\ l[2] = Aim(b, x)
      BY <1>2 DEF Relinks, Aim
    <2>2. edits[b][t] # None
      BY <1>1, <2>1, BackIs
    <2> QED
      BY <1>1, <2>1, <2>2 DEF LegInv, LegsHome
  <1>3. Relinks(b, x) = {} => Aim(b, x) = refs[x].leg
    BY DEF Aim
  <1>4. refs[x].leg # None => refs[x].leg \in Names(t)
    BY <1>1, NamesAre DEF LegInv, LegsHome
  <1>5. Relinks(b, x) # {} => Aim(b, x) \in Names(t)
    BY <1>1, <1>2, NamesAre
  <1> QED
    BY <1>1, <1>2, <1>3, <1>4, <1>5

LEMMA RefAfterIs ==
    ASSUME TypeOK, LegInv, NEW b \in Run, NEW x \in Ref, RefAfter(b, x) # NoRef
    PROVE  LET t == refs[x].owner
               n == RefAfter(b, x) IN
           /\ x \in Rows /\ x \notin BatchRefs(b) /\ Same(n, refs[x])
           /\ n.leg = IF Aim(b, x) \in Ids(Left(b, t).legs) THEN Aim(b, x) ELSE None
           /\ ~n.live => Left(b, t) = Gone
  <1> DEFINE t == refs[x].owner
             n == RefAfter(b, x)
             All == UNION {Ids(Left(b, u).legs) : u \in Transaction}
             leg == IF Aim(b, x) \in All THEN Aim(b, x) ELSE None
             live == refs[x].live \/ t \in EditedBy(b, "delete")
  <1>1. /\ x \in Rows /\ x \notin BatchRefs(b)
        /\ n = [refs[x] EXCEPT !.leg = leg, !.live = live]
    BY DEF RefAfter, Rows, Aim, TypeOK
  <1>2. t \in Transaction /\ DOMAIN refs[x] = Fields
    BY <1>1 DEF TypeOK, LegInv, RowsWhole
  <1>3. leg = IF Aim(b, x) \in Ids(Left(b, t).legs) THEN Aim(b, x) ELSE None
    <2>1. Aim(b, x) # None => Aim(b, x) \in Names(t)
      BY <1>1, AimIs
    <2>2. ASSUME NEW u \in Transaction, Aim(b, x) \in Ids(Left(b, u).legs)
          PROVE  Aim(b, x) \in Ids(Left(b, t).legs)
      <3>1. Aim(b, x) \in Names(u) /\ Aim(b, x) # None
        BY <2>2, LeftIs, IdsType
      <3> QED
        BY <1>2, <2>1, <2>2, <3>1 DEF LegInv, LegsHome
    <2>3. Aim(b, x) \in All <=> Aim(b, x) \in Ids(Left(b, t).legs)
      BY <1>2, <2>2
    <2> QED
      BY <2>3
  <1> HIDE DEF leg, live
  <1>4. Same(n, refs[x]) /\ n.leg = leg
    BY <1>1, <1>2 DEF Same, Fields
  <1>5. ASSUME ~n.live
        PROVE  Left(b, t) = Gone
    <2>1. ~live
      BY <1>1, <1>2, <1>5 DEF Fields
    <2>2. ~refs[x].live /\ t \notin EditedBy(b, "delete")
      BY <2>1 DEF live
    <2>3. stored[t] = Gone
      BY <1>1, <2>2 DEF LegInv, RowsWhole
    <2>4. t \notin Returned(b)
      <3>1. ASSUME t \in Returned(b)
            PROVE  FALSE
        <4>1. edits[b][t] # None /\ edits[b][t].op = "edit" /\ edits[b][t].after = Gone
          BY <1>2, <2>2, <2>3, <3>1, BackIs DEF EditedBy
        <4> QED
          BY <1>2, <4>1, GoneIs DEF LegInv, VersionsWhole
      <3> QED
        BY <3>1
    <2>5. Back(b, t) = Gone
      BY <1>2, <2>3, <2>4, BackIs
    <2>6. Ids(Left(b, t).legs) = {}
      BY <1>2, <2>5, LeftIs, GoneIs
    <2>7. Left(b, t).legs = <<>>
      <3>1. Left(b, t).legs \in Seq(Leg)
        BY <1>2, LeftIs DEF Version
      <3>2. DOMAIN Left(b, t).legs = {}
        BY <2>6 DEF Ids
      <3>3. Len(Left(b, t).legs) \in Nat /\ DOMAIN Left(b, t).legs = 1 .. Len(Left(b, t).legs)
        BY <3>1
      <3>4. Len(Left(b, t).legs) = 0
        <4> DEFINE k == Len(Left(b, t).legs)
        <4>1. k \in Nat /\ 1 .. k = {}
          BY <3>2, <3>3
        <4> HIDE DEF k
        <4>2. k = 0
          BY <4>1
        <4> QED
          BY <4>2 DEF k
      <3> QED
        BY <3>1, <3>4, EmptySeq
    <2> QED
      BY <1>2, <2>7, LeftIs
  <1> QED
    BY <1>1, <1>3, <1>4, <1>5

LEMMA DiscardTables ==
    ASSUME TypeOK, LegInv, NEW b \in Run, Discard(b)
    PROVE  /\ stored' \in [Transaction -> Version]
           /\ \A t \in Transaction : stored'[t] = Left(b, t)
           /\ edits' \in [Run -> [Transaction -> Record \cup {None}]]
           /\ \A c \in Run, t \in Transaction :
                edits'[c][t] = IF c = b THEN None ELSE edits[c][t]
           /\ made' \in [Transaction -> Maker \cup {None}]
           /\ \A t \in Transaction : made'[t] # None => made'[t] = made[t] /\ made[t].run # b
           /\ \A t \in Transaction : made[t] # None => made'[t] = made[t] \/ made[t].run = b
           /\ DOMAIN refs' = Ref /\ Rows' \subseteq Rows /\ Rows' \subseteq Ref
           /\ \A x \in Rows' :
                /\ refs'[x] # NoRef /\ x \in Ref
                /\ refs[x].owner \in Transaction /\ x \notin BatchRefs(b)
                /\ Same(refs'[x], refs[x])
                /\ refs'[x].leg = IF Aim(b, x) \in Ids(Left(b, refs[x].owner).legs) THEN Aim(b, x) ELSE None
                /\ ~refs'[x].live => Left(b, refs[x].owner) = Gone
           /\ \A c \in Run : \A x \in BatchRefs(c)' : c # b /\ x \in BatchRefs(c) /\ x \in Rows'
           /\ UNCHANGED <<begun, phase, file, todo, slots, scope, reading, echoed>>
           /\ b \in ToSet(begun) /\ b \notin discarded /\ discarded' = discarded \cup {b}
  <1>1. /\ stored' = [t \in Transaction |-> Left(b, t)]
        /\ refs' = [x \in Ref |-> RefAfter(b, x)]
        /\ edits' = [edits EXCEPT ![b] = [t \in Transaction |-> None]]
        /\ made' = [t \in Transaction |->
                      IF made[t] # None /\ made[t].run = b THEN None ELSE made[t]]
        /\ UNCHANGED <<begun, runs, scope, reading, echoed>>
        /\ b \in ToSet(begun) /\ b \notin discarded /\ discarded' = discarded \cup {b}
    BY DEF Discard
  <1>2. stored' \in [Transaction -> Version] /\ \A t \in Transaction : stored'[t] = Left(b, t)
    BY <1>1, LeftIs
  <1>3. /\ edits' \in [Run -> [Transaction -> Record \cup {None}]]
        /\ \A c \in Run, t \in Transaction : edits'[c][t] = IF c = b THEN None ELSE edits[c][t]
    BY <1>1 DEF TypeOK
  <1>4. /\ made' \in [Transaction -> Maker \cup {None}]
        /\ \A t \in Transaction : made'[t] # None => made'[t] = made[t] /\ made[t].run # b
        /\ \A t \in Transaction : made[t] # None => made'[t] = made[t] \/ made[t].run = b
    BY <1>1 DEF TypeOK
  <1>5. DOMAIN refs' = Ref /\ Rows' = {x \in Ref : RefAfter(b, x) # NoRef}
    BY <1>1 DEF Rows, Row
  <1>6. ASSUME NEW x \in Rows'
        PROVE  /\ refs'[x] # NoRef /\ x \in Ref /\ x \in Rows
               /\ refs[x].owner \in Transaction /\ x \notin BatchRefs(b)
               /\ Same(refs'[x], refs[x])
               /\ refs'[x].leg = IF Aim(b, x) \in Ids(Left(b, refs[x].owner).legs) THEN Aim(b, x) ELSE None
               /\ ~refs'[x].live => Left(b, refs[x].owner) = Gone
    <2>1. x \in Ref /\ RefAfter(b, x) # NoRef /\ refs'[x] = RefAfter(b, x)
      BY <1>1, <1>5
    <2>2. x \in Rows
      BY <2>1, RefAfterIs
    <2> QED
      BY <2>1, <2>2, RefAfterIs DEF TypeOK
  <1>7. ASSUME NEW c \in Run, NEW x \in BatchRefs(c)'
        PROVE  c # b /\ x \in BatchRefs(c) /\ x \in Rows'
    <2>1. x \in Rows' /\ refs'[x].importer = "bc-apply" /\ refs'[x].batch = c
      BY DEF BatchRefs, ApplyRefs
    <2>2. x \in BatchRefs(c)
      BY <1>6, <2>1 DEF Same, BatchRefs, ApplyRefs
    <2> QED
      BY <1>6, <2>1, <2>2
  <1>8. UNCHANGED <<begun, phase, file, todo, slots, scope, reading, echoed>>
    BY <1>1 DEF runs
  <1> QED
    BY <1>1, <1>2, <1>3, <1>4, <1>5, <1>6, <1>7, <1>8

LEMMA DiscardLegs ==
    ASSUME TypeOK, LegInv, NEW b \in Run, Discard(b)
    PROVE  RowsWhole' /\ VersionsWhole' /\ LegsHome' /\ RunsWrite' /\ OwnAside' /\ LegsComeBack'
  <1>1. RowsWhole'
    <2>1. \A x \in Rows' : DOMAIN refs'[x] = Fields /\ refs'[x].importer \in {"bank", "bc-apply"}
      BY DiscardTables DEF Same, LegInv, RowsWhole
    <2>2. \A x \in ApplyRefs' : refs'[x].batch \in Run
      <3>1. TAKE x \in ApplyRefs'
      <3>2. x \in Rows' /\ refs'[x].importer = "bc-apply"
        BY DEF ApplyRefs
      <3>3. x \in Rows /\ Same(refs'[x], refs[x])
        BY <3>2, DiscardTables
      <3> QED
        BY <3>2, <3>3 DEF Same, LegInv, RowsWhole, ApplyRefs
    <2>3. \A x \in Rows' : ~refs'[x].live => stored'[refs'[x].owner] = Gone
      BY DiscardTables DEF Same
    <2> QED
      BY <2>1, <2>2, <2>3 DEF RowsWhole, ApplyRefs
  <1>2. VersionsWhole'
    <2>1. \A t \in Transaction : stored'[t].legs = <<>> => stored'[t] = Gone
      BY DiscardTables, LeftIs
    <2>2. \A c \in Run, t \in Transaction : edits'[c][t] # None => edits'[c][t] = edits[c][t]
      BY DiscardTables
    <2> QED
      BY <2>1, <2>2 DEF LegInv, VersionsWhole, Gone
  <1>3. LegsHome'
    <2>1. ASSUME NEW x \in Rows', refs'[x].leg # None
          PROVE  refs'[x].leg \in Ids(stored'[refs'[x].owner].legs)
      BY <2>1, DiscardTables DEF Same
    <2>2. \A t \in Transaction : \A p : p \in Names(t)' => p \in Names(t)
      <3>1. TAKE t \in Transaction
      <3>2. TAKE p
      <3>3. HAVE p \in Names(t)'
      <3>4. \/ p \in Ids(stored'[t].legs)
            \/ \E c \in Run : edits'[c][t] # None /\ p \in Ids(edits'[c][t].before.legs)
            \/ \E e \in Editor : /\ reading[e] # None /\ reading[e].txn = t
                                 /\ p \in Ids(reading[e].legs)
        BY <3>3, DiscardTables, NamesNext
      <3>5. CASE p \in Ids(stored'[t].legs)
        BY <3>5, DiscardTables, LeftIs
      <3>6. CASE \E c \in Run : edits'[c][t] # None /\ p \in Ids(edits'[c][t].before.legs)
        BY <3>6, DiscardTables, NamesAre
      <3>7. CASE \E e \in Editor : /\ reading[e] # None /\ reading[e].txn = t
                                  /\ p \in Ids(reading[e].legs)
        BY <3>7, NamesAre
      <3> QED
        BY <3>4, <3>5, <3>6, <3>7
    <2>3. \A t, u \in Transaction : t # u => Names(t)' \cap Names(u)' = {}
      BY <2>2 DEF LegInv, LegsHome
    <2>4. ASSUME NEW c \in Run, NEW t \in Transaction, edits'[c][t] # None,
                 NEW l \in edits'[c][t].links
          PROVE  /\ l[2] \in Ids(edits'[c][t].before.legs)
                 /\ l[1] \in Rows' => refs'[l[1]].owner = t
      <3>1. edits'[c][t] = edits[c][t] /\ edits[c][t] # None
        BY <2>4, DiscardTables
      <3>2. /\ l[2] \in Ids(edits'[c][t].before.legs)
            /\ l[1] \in Rows => refs[l[1]].owner = t
        BY <2>4, <3>1 DEF LegInv, LegsHome
      <3> QED
        BY <3>2, DiscardTables DEF Same
    <2> QED
      BY <2>1, <2>3, <2>4 DEF LegsHome, Ids
  <1>4. RunsWrite'
    <2>1. ASSUME NEW q \in Run
          PROVE  RunRight(q)'
      <3>1. RunRight(q)
        BY DEF LegInv, RunsWrite
      <3>2. UNCHANGED <<begun, phase, file, todo>>
        BY DiscardTables
      <3>3. ASSUME NEW c \in todo[q]
            PROVE  Pending(q, c)'
        <4>1. Pending(q, c)
          BY <3>1, <3>3 DEF RunRight
        <4>2. c.op # "create" => c.txn \in Transaction
          BY <4>1 DEF Pending, TypeOK
        <4>3. c.op # "create" => edits'[q][c.txn] = None
          BY <4>1, <4>2, DiscardTables DEF Pending
        <4> QED
          BY <3>2, <4>1, <4>3 DEF Pending, Ids
      <3>4. ASSUME NEW t \in Transaction
            PROVE  /\ edits'[q][t] # None => edits'[q][t] = edits[q][t]
                   /\ made'[t] # None => made'[t] = made[t]
        BY DiscardTables
      <3> QED
        BY <3>1, <3>2, <3>3, <3>4 DEF RunRight, Reads, Later
    <2>2. \A t \in Transaction : made'[t] # None => made'[t].run \in ToSet(begun')
      BY DiscardTables DEF LegInv, RunsWrite
    <2>3. ASSUME NEW c \in Run, NEW x \in BatchRefs(c)'
          PROVE  \/ edits'[c][refs'[x].owner] # None
                 \/ made'[refs'[x].owner] # None /\ made'[refs'[x].owner].run = c
      <3>1. c # b /\ x \in BatchRefs(c) /\ x \in Rows'
        BY DiscardTables
      <3>2. refs'[x].owner = refs[x].owner /\ refs[x].owner \in Transaction
        BY <3>1, DiscardTables DEF Same
      <3>3. \/ edits[c][refs[x].owner] # None
            \/ made[refs[x].owner] # None /\ made[refs[x].owner].run = c
        BY <3>1 DEF LegInv, RunsWrite
      <3> QED
        BY <3>1, <3>2, <3>3, DiscardTables
    <2> QED
      BY <2>1, <2>2, <2>3 DEF RunsWrite
  <1>5. OwnAside'
    <2>1. ASSUME NEW c \in Run, NEW x \in BatchRefs(c)', edits'[c][refs'[x].owner] # None,
                 NEW p \in Ids(edits'[c][refs'[x].owner].before.legs)
          PROVE  /\ refs'[x].leg # p
                 /\ \A d \in Run, u \in Transaction : edits'[d][u] # None =>
                     \A l \in edits'[d][u].links : l[1] = x => l[2] # p
      <3> DEFINE o == refs[x].owner
      <3>1. /\ c # b /\ x \in BatchRefs(c) /\ x \in Rows' /\ x \in Rows
            /\ refs'[x].owner = o /\ o \in Transaction
        BY DiscardTables DEF Same
      <3>2. edits'[c][o] = edits[c][o]
        BY <3>1, DiscardTables
      <3>3. edits[c][o] # None /\ p \in Ids(edits[c][o].before.legs) /\ edits[c][o] \in Record
        BY <2>1, <3>1, <3>2 DEF TypeOK
      <3>4. p # None
        BY <3>3, IdsType DEF Record
      <3>5. /\ refs[x].leg # p
            /\ \A d \in Run, u \in Transaction : edits[d][u] # None =>
                     \A l \in edits[d][u].links : l[1] = x => l[2] # p
        BY <3>1, <3>3 DEF LegInv, OwnAside
      <3>6. Aim(b, x) # p
        BY <3>1, <3>5, AimIs
      <3>7. refs'[x].leg # p
        BY <3>1, <3>4, <3>6, DiscardTables
      <3> QED
        BY <3>5, <3>7, DiscardTables
    <2>2. \A legs : Ids(legs)' = Ids(legs)
      BY DEF Ids
    <2> QED
      BY <2>1, <2>2 DEF OwnAside
  <1>6. LegsComeBack'
    <2>1. ASSUME NEW x \in BankRefs', refs'[x].leg = None, x \notin rejected'
          PROVE  Linked(x)'
      <3> DEFINE t == refs[x].owner
      <3>1. /\ x \in Rows' /\ x \in Rows /\ x \in Ref /\ refs'[x] # NoRef
            /\ refs'[x].owner = t /\ t \in Transaction /\ x \in BankRefs
        BY DiscardTables DEF BankRefs, Same
      <3>2. rejected' =
              (rejected \cup {y \in BankRefs : refs[y].leg # None /\ refs'[y] # NoRef
                                               /\ refs'[y].leg = None}
                        \cup {l[1] : l \in UNION {edits[b][u].links : u \in Kept(b)}})
              \cap {y \in Ref : refs'[y] # NoRef}
        BY DEF Discard
      <3>3. /\ x \notin rejected /\ refs[x].leg = None
            /\ x \notin {l[1] : l \in UNION {edits[b][u].links : u \in Kept(b)}}
        BY <2>1, <3>1, <3>2
      <3>4. PICK e \in EditsOf(t) : x \in {l[1] : l \in e.links}
        BY <3>1, <3>3 DEF LegInv, LegsComeBack
      <3>5. PICK c \in Run : e = edits[c][t] /\ e # None
        BY DEF EditsOf
      <3>6. CASE c # b
        <4>1. edits'[c][t] = e
          BY <3>1, <3>5, <3>6, DiscardTables
        <4>2. e \in EditsOf(t)'
          BY <3>1, <3>5, <4>1 DEF EditsOf
        <4> QED
          BY <3>1, <3>4, <4>2 DEF Linked
      <3>7. CASE c = b
        <4>1. t \in Returned(b)
          <5>1. e \in Record
            BY <3>1, <3>5 DEF TypeOK
          <5>2. t \in EditedBy(b, "edit") \/ t \in EditedBy(b, "delete")
            BY <3>1, <3>5, <3>7, <5>1 DEF EditedBy, Record
          <5>3. t \notin Kept(b)
            BY <3>3, <3>4, <3>5, <3>7
          <5> QED
            BY <5>2, <5>3 DEF Returned
        <4>2. Relinks(b, x) # {}
          BY <3>1, <3>4, <3>5, <3>7, <4>1 DEF Relinks, Rows
        <4>3. Aim(b, x) \in Ids(edits[b][t].before.legs)
          BY <3>1, <4>2, AimIs
        <4>4. Left(b, t) = edits[b][t].before
          BY <3>1, <4>1, LeftWhole
        <4>5. Aim(b, x) # None
          BY <3>1, <4>3, <4>4, LeftIs, IdsType
        <4> QED
          BY <2>1, <3>1, <4>3, <4>4, <4>5, DiscardTables
      <3> QED
        BY <3>6, <3>7
    <2> QED
      BY <2>1 DEF LegsComeBack, Linked
  <1> QED
    BY <1>1, <1>2, <1>3, <1>4, <1>5, <1>6

LEMMA Newest ==
    ASSUME NEW n \in Nat, NEW I \in SUBSET (1 .. n), I # {}
    PROVE  LET m == CHOOSE i \in I : \A j \in I : i >= j IN m \in I /\ \A j \in I : m >= j
  <1>a. IsFiniteSet(1 .. n) /\ I \subseteq Nat
    BY Counting
  <1>b. IsFiniteSet(I)
    BY <1>a, FS_Subset
  <1>1. I \subseteq Nat /\ IsFiniteSet(I) /\ Cardinality(I) \in Nat /\ Cardinality(I) # 0
    BY <1>a, <1>b, FS_EmptySet, FS_CardinalityType
  <1> DEFINE c == Cardinality(I)
             m == Nth(I, c)
  <1>2. c \in 1 .. c
    BY <1>1
  <1>3. m \in I /\ Rank(I, m) = c
    BY <1>1, <1>2, NthIs
  <1> HIDE DEF m
  <1>4. \A j \in I : m >= j
    <2>1. ASSUME NEW j \in I, ~(m >= j)
          PROVE  FALSE
      <3>1. m < j
        BY <1>1, <1>3, <2>1
      <3>2. Rank(I, m) < Rank(I, j) /\ Rank(I, j) \in 1 .. c
        BY <1>1, <1>3, <3>1, RankGrows
      <3> QED
        BY <1>1, <1>3, <3>2
    <2> QED
      BY <2>1
  <1> QED
    BY <1>3, <1>4

LEMMA TakenIs ==
    ASSUME TypeOK, LegInv, NEW b \in Run, NEW t \in Transaction
    PROVE  Taken(b, t) \in Seq(Entry)
  <1> DEFINE S == story[t]
             I == {i \in DOMAIN S : S[i].by = b}
  <1>1. S \in Seq(Entry) /\ <<>> \in Seq(Entry)
    BY DEF TypeOK
  <1>2. DOMAIN S = 1 .. Len(S) /\ Len(S) \in Nat /\ \A i \in DOMAIN S : S[i] \in Entry
    BY <1>1
  <1>3. <<[by |-> None, v |-> Left(b, t)]>> \in Seq(Entry)
    <2>1. [by |-> None, v |-> Left(b, t)] \in Entry
      BY LeftIs DEF Entry
    <2> QED
      BY <2>1
  <1>4. [i \in DOMAIN S |-> IF i \in I THEN [S[i] EXCEPT !.by = None] ELSE S[i]] \in Seq(Entry)
    <2>1. \A i \in DOMAIN S : [S[i] EXCEPT !.by = None] \in Entry
      BY <1>2 DEF Entry
    <2> HIDE DEF S, I
    <2> QED
      BY <1>2, <2>1
  <1>5. I # {} => RemoveAt(S, CHOOSE i \in I : \A j \in I : i >= j) \in Seq(Entry)
    <2>1. I \in SUBSET (1 .. Len(S))
      BY <1>2
    <2> HIDE DEF I, S
    <2>2. I # {} => (CHOOSE i \in I : \A j \in I : i >= j) \in DOMAIN S
      BY <1>2, <2>1, Newest
    <2> QED
      BY <1>1, <2>2, Removed
  <1> HIDE DEF I
  <1> QED
    BY <1>1, <1>3, <1>4, <1>5 DEF Taken, I

LEMMA DiscardKeeps ==
    ASSUME TypeOK, LegInv, NEW b \in Run, Discard(b)
    PROVE  TypeOK' /\ LegInv'
  <1>1. LegInv'
    BY DiscardLegs DEF LegInv
  <1>2. story' \in [Transaction -> Seq(Entry)]
    BY TakenIs DEF Discard
  <1>3. rejected' \subseteq Ref /\ unsettled' \subseteq Run
    BY BesideIs DEF Discard, TypeOK
  <1>4. ASSUME NEW x \in Rows'
        PROVE  /\ refs'[x].owner \in Transaction /\ refs'[x].leg \in Posting \cup {None}
               /\ refs'[x].leg # None => refs'[x].live
    <2> DEFINE t == refs[x].owner
    <2>1. /\ refs'[x].owner = t /\ t \in Transaction
          /\ refs'[x].leg # None => refs'[x].leg \in Ids(Left(b, t).legs)
          /\ ~refs'[x].live => Left(b, t) = Gone
      BY DiscardTables DEF Same
    <2>2. refs'[x].leg # None => refs'[x].leg \in Posting /\ refs'[x].live
      BY <2>1, LeftIs, IdsType, GoneIs
    <2> QED
      BY <2>1, <2>2
  <1>5. discarded' \subseteq ToSet(begun')
    BY DiscardTables DEF TypeOK
  <1>6. /\ stored' \in [Transaction -> Version]
        /\ edits' \in [Run -> [Transaction -> Record \cup {None}]]
        /\ made' \in [Transaction -> Maker \cup {None}] /\ DOMAIN refs' = Ref
        /\ UNCHANGED <<begun, phase, file, todo, slots, scope, reading, echoed>>
    BY DiscardTables
  <1>7. TypeOK'
    BY <1>2, <1>3, <1>4, <1>5, <1>6 DEF TypeOK
  <1> QED
    BY <1>1, <1>7

-----------------------------------------------------------------------------
(* Types, and legs that come back.                                         *)

LEMMA InitLegs ==
    ASSUME Init
    PROVE  TypeOK /\ LegInv
  <1>1. /\ DOMAIN Opening \subseteq Transaction /\ DOMAIN Sourced \subseteq Ref
        /\ \A t \in DOMAIN Opening :
            /\ Opening[t] \in Seq(Leg) \ {<<>>}
            /\ \A u \in DOMAIN Opening \ {t} : Ids(Opening[t]) \cap Ids(Opening[u]) = {}
        /\ \A x \in DOMAIN Sourced :
            Sourced[x].txn \in DOMAIN Opening /\ Sourced[x].leg \in Ids(Opening[Sourced[x].txn])
    BY OpeningAssumption DEF OpeningAssumption
  <1>2. \A t \in DOMAIN Opening : /\ [legs |-> Opening[t], mark |-> "unreconciled"] \in Version
                                  /\ Opening[t] # <<>>
    BY <1>1 DEF Version, Mark
  <1>3. stored \in [Transaction -> Version]
    BY <1>2, GoneIs DEF Init
  <1>4. \A t \in Transaction : IF t \in DOMAIN Opening THEN stored[t].legs = Opening[t] ELSE stored[t] = Gone
    BY DEF Init
  <1>5. /\ \A b \in Run : \A t \in Transaction : edits[b][t] = None
        /\ begun = <<>> /\ \A r \in Run : phase[r] = "idle" /\ file[r] = None /\ todo[r] = {}
        /\ \A t \in Transaction : made[t] = None
        /\ reading = [e \in Editor |-> None]
    BY DEF Init
  <1>6. ASSUME NEW x \in Rows
        PROVE  /\ DOMAIN refs[x] = Fields /\ refs[x].importer = "bank"
               /\ refs[x].live /\ refs[x].owner \in Transaction
               /\ refs[x].leg \in Posting /\ refs[x].leg # None
               /\ refs[x].leg \in Ids(stored[refs[x].owner].legs)
    <2>1. /\ x \in DOMAIN Sourced
          /\ refs[x] = [importer |-> "bank", key |-> Sourced[x].line, occurrence |-> 0,
                        owner |-> Sourced[x].txn, leg |-> Sourced[x].leg,
                        live |-> TRUE, batch |-> None]
      BY DEF Rows, Row, Init
    <2>2. refs[x].owner \in Transaction /\ refs[x].leg \in Ids(stored[refs[x].owner].legs)
      BY <1>1, <1>4, <2>1
    <2>3. stored[refs[x].owner] \in Version
      BY <1>3, <2>2
    <2> QED
      BY <2>1, <2>2, <2>3, IdsType DEF Fields
  <1>7. TypeOK
    <2>1. story \in [Transaction -> Seq(Entry)]
      <3>1. \A t \in Transaction : <<[by |-> None, v |-> stored[t]]>> \in Seq(Entry) /\ <<>> \in Seq(Entry)
        <4>1. \A t \in Transaction : [by |-> None, v |-> stored[t]] \in Entry
          BY <1>3 DEF Entry
        <4> QED
          BY <4>1
      <3> QED
        BY <3>1 DEF Init
    <2>2. begun \in Seq(Run) /\ IsInjective(begun) /\ ToSet(begun) = {}
      BY <1>5 DEF IsInjective, ToSet
    <2>3. scope \in [drafts : SUBSET Seq(Value), new : Seq(Value) \ {<<>>},
                     twins : Nat, changes : Nat, runs : Nat, editors : SUBSET Editor]
      BY RoundTripAssumption DEF Init, RoundTripAssumption
    <2>4. /\ DOMAIN refs = Ref /\ edits \in [Run -> [Transaction -> Record \cup {None}]]
          /\ discarded = {} /\ phase \in [Run -> {"idle", "drafted", "planned", "applying", "over"}]
          /\ DOMAIN file = Run /\ DOMAIN todo = Run /\ DOMAIN slots = Run
          /\ made \in [Transaction -> Maker \cup {None}]
          /\ rejected = {} /\ unsettled = {} /\ echoed = {}
      BY DEF Init
    <2> QED
      BY <1>3, <1>5, <1>6, <2>1, <2>2, <2>3, <2>4 DEF TypeOK
  <1>8. ApplyRefs = {} /\ \A b \in Run : BatchRefs(b) = {}
    BY <1>6 DEF ApplyRefs, BatchRefs
  <1>9. RowsWhole /\ VersionsWhole /\ OwnAside /\ LegsComeBack
    <2>1. RowsWhole
      BY <1>6, <1>8 DEF RowsWhole
    <2>2. VersionsWhole
      BY <1>2, <1>4, <1>5 DEF VersionsWhole
    <2> QED
      BY <1>6, <1>8, <2>1, <2>2 DEF OwnAside, LegsComeBack, BankRefs
  <1>10. LegsHome
    <2>1. \A t \in Transaction : Names(t) = Ids(stored[t].legs)
      BY <1>5 DEF Names, Recorded, LegsRead, EditsOf, Readings
    <2>2. \A t, u \in Transaction : t # u => Ids(stored[t].legs) \cap Ids(stored[u].legs) = {}
      BY <1>1, <1>4, GoneIs
    <2>3. \A t, u \in Transaction : t # u => Names(t) \cap Names(u) = {}
      BY <2>1, <2>2
    <2>4. \A x \in Rows : refs[x].leg # None => refs[x].leg \in Ids(stored[refs[x].owner].legs)
      BY <1>6
    <2> QED
      BY <1>5, <2>3, <2>4 DEF LegsHome
  <1>11. RunsWrite
    <2>1. ToSet(begun) = {}
      BY <1>5 DEF ToSet
    <2> QED
      BY <1>5, <1>8, <2>1 DEF RunsWrite, RunRight
  <1> QED
    BY <1>7, <1>9, <1>10, <1>11 DEF LegInv

LEMMA UserActs ==
    ASSUME TypeOK, LegInv, NEW t \in Transaction,
           \/ EditByUser(t)
           \/ \E i \in 1 .. Len(stored[t].legs), line \in Line : Adopt(t, i, line)
           \/ \E m \in Mark : Reconcile(t, m)
           \/ DeleteKeeping(t) \/ DeleteForgetting(t)
    PROVE  TypeOK' /\ LegInv'
  <1>1. CASE EditByUser(t)
    BY <1>1, EditsKeep
  <1>2. ASSUME NEW i \in 1 .. Len(stored[t].legs), NEW line \in Line, Adopt(t, i, line)
        PROVE  TypeOK' /\ LegInv'
    BY <1>2, AdoptKeeps
  <1>3. CASE \E m \in Mark : Reconcile(t, m)
    BY <1>3, ReconcileKeeps
  <1>4. CASE DeleteKeeping(t)
    BY <1>4, DeleteKeepingKeeps
  <1>5. CASE DeleteForgetting(t)
    BY <1>5, DeleteForgettingKeeps
  <1> QED
    BY <1>1, <1>2, <1>3, <1>4, <1>5

LEMMA RunActs ==
    ASSUME TypeOK, LegInv, NEW r \in Run,
           \/ \E T \in SUBSET Transaction, n \in 0 .. scope.twins :
                \E wants \in [T -> scope.drafts] : ExportFile(r, T, wants, n)
           \/ \E q \in Run : TakeFile(r, q)
           \/ PlanFile(r) \/ StartApply(r) \/ CloseBatch(r)
           \/ \E a \in todo[r] :
                \/ EditTransaction(r, a) \/ CreateTransaction(r, a) \/ DeleteTransaction(r, a)
                \/ LeaveAlone(r, a) \/ StopOnSlot(r, a)
           \/ Discard(r)
    PROVE  TypeOK' /\ LegInv'
  <1>1. ASSUME NEW T \in SUBSET Transaction, NEW n \in 0 .. scope.twins,
               NEW wants \in [T -> scope.drafts], ExportFile(r, T, wants, n)
        PROVE  TypeOK' /\ LegInv'
    BY <1>1, ExportFileKeeps
  <1>2. CASE \E q \in Run : TakeFile(r, q)
    BY <1>2, TakeFileKeeps
  <1>3. CASE PlanFile(r)
    BY <1>3, PlanFileKeeps
  <1>4. CASE StartApply(r) \/ CloseBatch(r) \/ \E a \in todo[r] : LeaveAlone(r, a) \/ StopOnSlot(r, a)
    BY <1>4, NothingWrittenKeeps
  <1>5. ASSUME NEW a \in todo[r], EditTransaction(r, a)
        PROVE  TypeOK' /\ LegInv'
    BY <1>5, EditTransactionKeeps
  <1>6. ASSUME NEW a \in todo[r], CreateTransaction(r, a)
        PROVE  TypeOK' /\ LegInv'
    BY <1>6, CreateTransactionKeeps
  <1>7. ASSUME NEW a \in todo[r], DeleteTransaction(r, a)
        PROVE  TypeOK' /\ LegInv'
    BY <1>7, DeleteTransactionKeeps
  <1>8. CASE Discard(r)
    BY <1>8, DiscardKeeps
  <1> QED
    BY <1>1, <1>2, <1>3, <1>4, <1>5, <1>6, <1>7, <1>8

LEMMA LegStep ==
    ASSUME TypeOK, LegInv, [Next]_vars
    PROVE  TypeOK' /\ LegInv'
  <1>1. ASSUME UNCHANGED vars
        PROVE  TypeOK' /\ LegInv'
    <2>1. UNCHANGED <<tables, file, scope, reading, history, phase, todo, slots>>
      BY <1>1 DEF vars, tables, history
    <2>2. TypeOK'
      BY <2>1 DEF TypeOK, tables, history, Rows, Row
    <2> QED
      BY <2>1, <2>2, RunStep
  <1>2. CASE \E r \in Run :
        \/ \E T \in SUBSET Transaction, n \in 0 .. scope.twins :
             \E wants \in [T -> scope.drafts] : ExportFile(r, T, wants, n)
        \/ \E q \in Run : TakeFile(r, q)
        \/ PlanFile(r) \/ StartApply(r) \/ CloseBatch(r)
        \/ \E a \in todo[r] :
             \/ EditTransaction(r, a) \/ CreateTransaction(r, a) \/ DeleteTransaction(r, a)
             \/ LeaveAlone(r, a) \/ StopOnSlot(r, a)
        \/ Discard(r)
    BY <1>2, RunActs
  <1>3. CASE \E t \in Transaction :
        \/ EditByUser(t)
        \/ \E i \in 1 .. Len(stored[t].legs), line \in Line : Adopt(t, i, line)
        \/ \E m \in Mark : Reconcile(t, m)
        \/ DeleteKeeping(t) \/ DeleteForgetting(t)
    BY <1>3, UserActs
  <1>4. CASE \E e \in Editor :
        \/ \E t \in Transaction : ReadForEdit(e, t)
        \/ WriteEdit(e) \/ AbandonEdit(e)
    BY <1>4, ReadForEditKeeps, EditsKeep, AbandonEditKeeps
  <1>5. CASE \E x \in Ref : FreeSlot(x)
    BY <1>5, FreeSlotKeeps
  <1> QED
    BY <1>1, <1>2, <1>3, <1>4, <1>5 DEF Next

LEMMA LegAlways == Spec => [](TypeOK /\ LegInv)
  <1>1. Init => TypeOK /\ LegInv
    BY InitLegs
  <1>2. (TypeOK /\ LegInv) /\ [Next]_vars => (TypeOK /\ LegInv)'
    BY LegStep
  <1> QED
    BY <1>1, <1>2, PTL DEF Spec

\* Every table, file, run and history keeps its type, through edits, deletions, new
\* transactions, adoptions and discards.
THEOREM RoundTripTypes == Spec => []TypeOK
  BY LegAlways, PTL

\* A bank reference without its leg is one the user's change left so, or a standing record
\* says which leg it named: edits tombstone the references of the legs they remove and
\* deletions orphan theirs, and whatever discards there are, in whatever order, each is
\* on its leg again or counted as rejected (Run::edit, Run::delete, relink).
THEOREM LegsReturn == Spec => []LegsComeBack
  <1>1. LegInv => LegsComeBack
    BY DEF LegInv
  <1> QED
    BY <1>1, LegAlways, PTL

-----------------------------------------------------------------------------
(* Stories.                                                                *)

\* Records of one transaction, none of its maker's.
Column(E, m) ==
    \A b \in Run : E[b] # None =>
        /\ E[b] \in Record /\ ~Made(m, b)
        /\ E[b].op = "edit" => E[b].after # Gone
        /\ E[b].op = "delete" => E[b].after = Gone

\* What the records of standing batches do not say, and more of the order, is nothing to it.
LEMMA TellsOn ==
    ASSUME NEW S, NEW v, NEW E, NEW m, NEW A, NEW L, NEW F, NEW B, NEW M,
           Tells(S, v, E, m, A, L), A \subseteq B, L \subseteq M,
           \A b \in A : F[b] = E[b], \A b \in B \ A : F[b] = None
    PROVE  Tells(S, v, F, m, B, M)
  <1>1. ASSUME NEW i \in DOMAIN S, S[i].by # None
        PROVE  Told(S, i, F, m, B, M)
    <2>1. Told(S, i, E, m, A, L)
      BY <1>1 DEF Tells
    <2>2. F[S[i].by] = E[S[i].by]
      BY <2>1 DEF Told
    <2> QED
      BY <2>1, <2>2 DEF Told
  <1>2. ASSUME NEW b \in B, F[b] # None
        PROVE  b \in A /\ F[b] = E[b]
    BY <1>2
  <1> QED
    BY <1>1, <1>2 DEF Tells

LEMMA LastIs ==
    ASSUME NEW S \in Seq(Entry), S # <<>>
    PROVE  /\ Len(S) \in DOMAIN S /\ Last(S) = S[Len(S)] /\ DOMAIN S = 1 .. Len(S)
           /\ Len(S) \in Nat /\ Len(S) >= 1 /\ Last(S) \in Entry
  <1>1. Len(S) \in Nat /\ Len(S) # 0 /\ DOMAIN S = 1 .. Len(S)
    BY EmptySeq
  <1>2. Len(S) \in DOMAIN S
    BY <1>1
  <1> QED
    BY <1>1, <1>2 DEF Last

\* Of a transaction that exists no deletion stands.
LEMMA NoDeletion ==
    ASSUME NEW S \in Seq(Entry), NEW v, NEW E, NEW m, NEW A \in SUBSET Run, NEW L,
           Column(E, m), Tells(S, v, E, m, A, L), v # Gone, NEW b \in A, E[b] # None
    PROVE  E[b].op = "edit" /\ S # <<>>
  <1>1. S # <<>>
    BY DEF Tells
  <1>2. ASSUME E[b].op = "delete"
        PROVE  FALSE
    <2>1. Last(S).by = b /\ v = Last(S).v
      BY <1>1, <1>2 DEF Tells
    <2>2. S[Len(S)].by = b /\ S[Len(S)].v = v /\ Len(S) \in DOMAIN S /\ b # None
      BY <1>1, <2>1, LastIs, RoundTripAssumption DEF RoundTripAssumption
    <2>3. Told(S, Len(S), E, m, A, L)
      BY <2>2 DEF Tells
    <2>4. E[b].after = v
      BY <2>2, <2>3 DEF Told, Column
    <2> QED
      BY <1>2, <2>4 DEF Column
  <1>3. E[b] \in Record
    BY DEF Column
  <1> QED
    BY <1>1, <1>2, <1>3 DEF Record

\* T is S with w for its last version, written by nobody or none of S's runs.
Over(T, S, w) ==
    LET n == Len(T) IN
    /\ T \in Seq(Entry) /\ n \in Nat /\ DOMAIN T = 1 .. n /\ n \in DOMAIN T
    /\ T[n].by = None /\ T[n].v = w
    /\ \A i \in DOMAIN T \ {n} : i \in DOMAIN S /\ T[i] = S[i]
    /\ \A i \in DOMAIN S : S[i].by # None => i \in DOMAIN T \ {n}

LEMMA OverAppended ==
    ASSUME NEW S \in Seq(Entry), NEW w \in Version
    PROVE  Over(Append(S, [by |-> None, v |-> w]), S, w)
  <1> DEFINE e == [by |-> None, v |-> w]
             T == Append(S, e)
             n == Len(S) + 1
  <1>1. e \in Entry /\ e.by = None /\ e.v = w
    BY DEF Entry
  <1> HIDE DEF e
  <1>2. /\ T \in Seq(Entry) /\ Len(T) = n /\ DOMAIN T = DOMAIN S \cup {n}
        /\ \A i \in DOMAIN S : T[i] = S[i]
        /\ T[n] = e /\ Len(S) \in Nat /\ DOMAIN S = 1 .. Len(S)
    BY <1>1, Grown
  <1> HIDE DEF T
  <1>3. n \in Nat /\ DOMAIN T = 1 .. n /\ n \in DOMAIN T /\ n \notin DOMAIN S
    BY <1>2
  <1> HIDE DEF n
  <1>4. Over(T, S, w)
    BY <1>1, <1>2, <1>3 DEF Over
  <1> QED
    BY <1>4 DEF T, e

\* The last entry, with another version.
Amended(S, w) == [S EXCEPT ![Len(S)].v = w]

LEMMA OverAmended ==
    ASSUME NEW S \in Seq(Entry), NEW w \in Version, S # <<>>, Last(S).by = None
    PROVE  Over(Amended(S, w), S, w)
  <1> DEFINE n == Len(S)
             f == [S[n] EXCEPT !.v = w]
             T == [S EXCEPT ![n] = f]
  <1>1. /\ n \in DOMAIN S /\ Last(S) = S[n] /\ DOMAIN S = 1 .. n
        /\ n \in Nat /\ n >= 1 /\ S[n] \in Entry
    BY LastIs
  <1>2. f \in Entry /\ f.by = None /\ f.v = w
    BY <1>1 DEF Entry
  <1> HIDE DEF f
  <1>3. /\ T \in Seq(Entry) /\ Len(T) = n
        /\ \A j \in 1 .. n : T[j] = IF j = n THEN f ELSE S[j]
    BY <1>1, <1>2, ExceptSeq
  <1>4. Amended(S, w) = T
    BY DEF Amended, f
  <1> HIDE DEF T, n
  <1>5. DOMAIN T = 1 .. n
    <2>1. DOMAIN T = 1 .. Len(T)
      BY <1>3
    <2> QED
      BY <1>3, <2>1
  <1>6. T[n] = f /\ \A i \in DOMAIN S : S[i].by # None => i # n
    BY <1>1, <1>3
  <1>7. Over(T, S, w)
    BY <1>1, <1>2, <1>3, <1>5, <1>6 DEF Over
  <1> QED
    BY <1>4, <1>7

\* The user writes w, or a run whose batch is discarded.
LEMMA TellsOfUser ==
    ASSUME NEW S \in Seq(Entry), NEW v, NEW E, NEW m, NEW A \in SUBSET Run, NEW L,
           Column(E, m), Tells(S, v, E, m, A, L), v # Gone,
           NEW w \in Version, \A b \in A : E[b] # None => E[b].after # w,
           NEW T, Over(T, S, w)
    PROVE  Tells(T, w, E, m, A, L)
  <1> DEFINE n == Len(T)
  <1>1. S # <<>>
    BY DEF Tells
  <1>2. DOMAIN S = 1 .. Len(S) /\ Len(S) \in Nat
    BY <1>1, LastIs
  <1>3. /\ T \in Seq(Entry) /\ T # <<>> /\ n \in DOMAIN T /\ T[n].by = None /\ T[n].v = w
        /\ Last(T) = T[n] /\ DOMAIN T = 1 .. n /\ n \in Nat
        /\ \A i \in DOMAIN T \ {n} : i \in DOMAIN S /\ T[i] = S[i]
        /\ \A i \in DOMAIN S : S[i].by # None => i \in DOMAIN T \ {n}
    <2>1. DOMAIN <<>> = {}
      OBVIOUS
    <2>2. n \in DOMAIN T
      BY DEF Over
    <2>3. T # <<>>
      BY <2>1, <2>2
    <2> QED
      BY <2>3 DEF Over, Last
  <1> HIDE DEF n
  <1>4. w = IF T = <<>> THEN Gone ELSE Last(T).v
    BY <1>3
  <1>5. ASSUME NEW i \in DOMAIN T, T[i].by # None
        PROVE  Told(T, i, E, m, A, L)
    <2>1. i \in DOMAIN S /\ T[i] = S[i] /\ i # n
      BY <1>3, <1>5
    <2>2. Told(S, i, E, m, A, L)
      BY <1>5, <2>1 DEF Tells
    <2>3. i > 1 => T[i - 1] = S[i - 1]
      <3>1. HAVE i > 1
      <3>2. i - 1 \in DOMAIN T /\ i - 1 # n
        BY <1>3, <2>1, <3>1
      <3> QED
        BY <1>3, <3>2
    <2>4. \A j \in DOMAIN T : j > i =>
            IF T[j].by = None THEN E[T[i].by] # None => T[j].v # E[T[i].by].after
            ELSE <<T[i].by, T[j].by>> \in L
      <3>1. TAKE j \in DOMAIN T
      <3>2. HAVE j > i
      <3>3. CASE j = n
        BY <1>3, <2>1, <2>2, <3>3 DEF Told
      <3>4. CASE j # n
        BY <1>3, <2>1, <2>2, <3>2, <3>4 DEF Told
      <3> QED
        BY <3>3, <3>4
    <2> QED
      BY <2>1, <2>2, <2>3, <2>4 DEF Told
  <1>6. ASSUME NEW b \in A, E[b] # None
        PROVE  (\E i \in DOMAIN T : T[i].by = b) /\ E[b].op # "delete"
    <2>1. E[b].op = "edit"
      BY <1>6, NoDeletion
    <2>2. PICK i \in DOMAIN S : S[i].by = b
      BY <1>1, <1>6 DEF Tells
    <2>3. b # None
      BY RoundTripAssumption DEF RoundTripAssumption
    <2> QED
      BY <1>3, <2>1, <2>2, <2>3
  <1> QED
    BY <1>3, <1>4, <1>5, <1>6 DEF Tells

\* A run writes w over v, and every run told of began before it.
LEMMA TellsOfRun ==
    ASSUME NEW S \in Seq(Entry), NEW v, NEW E, NEW m, NEW A \in SUBSET Run, NEW L,
           Column(E, m), Tells(S, v, E, m, A, L), v # Gone,
           NEW r \in Run, E[r] = None, ~Made(m, r), NEW w \in Version,
           NEW F, \A b \in Run \ {r} : F[b] = E[b],
           F[r] # None, F[r].before = v, F[r].after = w,
           NEW B, A \subseteq B, B \subseteq A \cup {r}, r \in B, NEW M, L \subseteq M,
           \A b \in A : E[b] # None \/ Made(m, b) => <<b, r>> \in M
    PROVE  Tells(Append(S, [by |-> r, v |-> w]), w, F, m, B, M)
  <1> DEFINE e == [by |-> r, v |-> w]
             T == Append(S, e)
             n == Len(S) + 1
  <1>1. e \in Entry /\ e.by = r /\ e.v = w /\ r # None
    BY RoundTripAssumption DEF Entry, RoundTripAssumption
  <1> HIDE DEF e
  <1>2. /\ DOMAIN T = DOMAIN S \cup {n} /\ T # <<>> /\ \A i \in DOMAIN S : T[i] = S[i]
        /\ T[n] = e /\ Last(T) = e /\ Len(S) \in Nat /\ DOMAIN S = 1 .. Len(S)
    BY <1>1, Grown
  <1> HIDE DEF T
  <1>3. S # <<>> /\ v = Last(S).v
    BY DEF Tells
  <1>4. Len(S) \in DOMAIN S /\ v = S[Len(S)].v
    BY <1>3, LastIs
  <1>5. ASSUME NEW i \in DOMAIN S, S[i].by # None
        PROVE  Told(T, i, F, m, B, M)
    <2>1. Told(S, i, E, m, A, L)
      BY <1>5 DEF Tells
    <2>2. S[i].by \in A /\ (E[S[i].by] # None \/ Made(m, S[i].by))
      BY <2>1 DEF Told
    <2>3. S[i].by # r /\ F[S[i].by] = E[S[i].by] /\ <<S[i].by, r>> \in M /\ S[i].by \in B
      BY <2>2
    <2>4. T[i] = S[i] /\ (i > 1 => T[i - 1] = S[i - 1])
      BY <1>2
    <2>5. \A j \in DOMAIN T : j > i =>
            IF T[j].by = None THEN F[T[i].by] # None => T[j].v # F[T[i].by].after
            ELSE <<T[i].by, T[j].by>> \in M
      <3>1. TAKE j \in DOMAIN T
      <3>2. HAVE j > i
      <3>3. CASE j = n
        BY <1>1, <1>2, <2>3, <2>4, <3>3
      <3>4. CASE j \in DOMAIN S
        BY <1>2, <2>1, <2>3, <2>4, <3>2, <3>4 DEF Told
      <3> QED
        BY <1>2, <3>3, <3>4
    <2> QED
      BY <2>1, <2>3, <2>4, <2>5 DEF Told
  <1>6. Told(T, n, F, m, B, M)
    <2>1. n > 1 /\ T[n - 1] = S[Len(S)] /\ \A j \in DOMAIN T : ~(j > n)
      BY <1>2, <1>4
    <2> QED
      BY <1>1, <1>2, <1>4, <2>1 DEF Told
  <1>7. ASSUME NEW b \in B, F[b] # None
        PROVE  /\ \E i \in DOMAIN T : T[i].by = b
               /\ F[b].op = "delete" => Last(T).by = b
    <2>1. CASE b = r
      BY <1>1, <1>2, <2>1
    <2>2. CASE b # r
      <3>1. b \in A /\ E[b] = F[b] /\ E[b] # None
        BY <1>7, <2>2
      <3>2. E[b].op = "edit"
        BY <3>1, NoDeletion
      <3>3. \E i \in DOMAIN S : S[i].by = b
        BY <1>3, <3>1 DEF Tells
      <3> QED
        BY <1>2, <3>1, <3>2, <3>3
    <2> QED
      BY <2>1, <2>2
  <1>8. w = IF T = <<>> THEN Gone ELSE Last(T).v
    BY <1>1, <1>2
  <1>9. \A i \in DOMAIN T : T[i].by # None => Told(T, i, F, m, B, M)
    BY <1>2, <1>5, <1>6
  <1>10. Tells(T, w, F, m, B, M)
    BY <1>2, <1>7, <1>8, <1>9 DEF Tells
  <1> QED
    BY <1>10 DEF T, e

\* A story that begins, with its maker or without.
LEMMA TellsAnew ==
    ASSUME NEW E, NEW m, NEW A, NEW L, \A b \in A : E[b] = None, NEW T, NEW w,
           \/ T = <<>> /\ w = Gone
           \/ \E x : (x = None \/ (x \in A /\ Made(m, x))) /\ T = <<[by |-> x, v |-> w]>>
    PROVE  Tells(T, w, E, m, A, L)
  <1>1. CASE T = <<>> /\ w = Gone
    BY <1>1 DEF Tells
  <1>2. ASSUME NEW x, x = None \/ (x \in A /\ Made(m, x)), T = <<[by |-> x, v |-> w]>>
        PROVE  Tells(T, w, E, m, A, L)
    <2>1. /\ T # <<>> /\ DOMAIN T = {1} /\ T[1] = [by |-> x, v |-> w] /\ Len(T) = 1
      BY <1>2
    <2>2. Last(T).v = w /\ T[1].by = x
      BY <2>1 DEF Last
    <2>3. x # None => Told(T, 1, E, m, A, L)
      BY <1>2, <2>1, <2>2 DEF Told
    <2> QED
      BY <2>1, <2>2, <2>3 DEF Tells
  <1> QED
    BY <1>1, <1>2

\* A discard peels a run's entry off a story: what it wrote over comes back when it was the
\* last, and nothing changes under what the user wrote since.
LEMMA TellsPeeled ==
    ASSUME NEW S \in Seq(Entry), NEW v, NEW E, NEW m, NEW A \in SUBSET Run, NEW L,
           Column(E, m), Tells(S, v, E, m, A, L),
           NEW b \in Run, ~Made(m, b), \A c \in Run : <<c, c>> \notin L,
           \A c \in A : <<b, c>> \in L => E[c] = None,
           NEW i \in DOMAIN S, S[i].by = b,
           NEW F, \A c \in Run \ {b} : F[c] = E[c],
           NEW w, (i = Len(S) /\ w = E[b].before) \/ (i # Len(S) /\ w = v)
    PROVE  Tells(RemoveAt(S, i), w, F, m, A \ {b}, L)
  <1> DEFINE T == RemoveAt(S, i)
             n == Len(S)
  <1>1. /\ DOMAIN S = 1 .. n /\ n \in Nat /\ n >= 1 /\ Last(S) = S[n] /\ n \in DOMAIN S /\ S # <<>>
    <2>1. S # <<>>
      <3>1. DOMAIN <<>> = {}
        OBVIOUS
      <3> QED
        BY <3>1
    <2> QED
      BY <2>1, LastIs
  <1>2. T \in Seq(Entry) /\ DOMAIN T = 1 .. n - 1 /\ Len(T) = n - 1
        /\ \A j \in 1 .. n - 1 : T[j] = IF j < i THEN S[j] ELSE S[j + 1]
    BY Removed
  <1> HIDE DEF T, n
  <1>3. b # None
    BY RoundTripAssumption DEF RoundTripAssumption
  <1>4. Told(S, i, E, m, A, L)
    BY <1>3 DEF Tells
  <1>5. b \in A /\ i > 1 /\ i \in Nat /\ E[b] # None /\ E[b].before = S[i - 1].v
    BY <1>1, <1>4 DEF Told
  <1>6. ASSUME NEW j \in DOMAIN S, j > i
        PROVE  S[j].by = None
    <2>1. ASSUME S[j].by # None
          PROVE  FALSE
      <3>1. <<b, S[j].by>> \in L
        BY <1>4, <1>6, <2>1 DEF Told
      <3>2. Told(S, j, E, m, A, L) /\ j > 1
        BY <1>1, <1>5, <1>6, <2>1 DEF Tells
      <3>3. S[j].by \in A /\ E[S[j].by] # None
        BY <3>2 DEF Told
      <3> QED
        BY <3>1, <3>3
    <2> QED
      BY <2>1
  <1>7. ASSUME NEW j \in DOMAIN S, j # i, S[j].by # None
        PROVE  /\ j \in DOMAIN T /\ j < i /\ T[j] = S[j] /\ S[j].by # b
               /\ Told(T, j, F, m, A \ {b}, L)
    <2>1. j < i /\ j \in 1 .. n - 1 /\ T[j] = S[j]
      BY <1>1, <1>2, <1>6, <1>7
    <2>2. Told(S, j, E, m, A, L)
      BY <1>7 DEF Tells
    <2>3. S[j].by # b
      BY <1>3, <2>1, <2>2 DEF Told
    <2>4. S[j].by \in A \ {b} /\ F[S[j].by] = E[S[j].by]
      BY <2>2, <2>3 DEF Told
    <2>5. j > 1 => T[j - 1] = S[j - 1]
      BY <1>1, <1>2, <2>1
    <2>6. \A k \in DOMAIN T : k > j => \E h \in DOMAIN S : h > j /\ T[k] = S[h]
      <3>1. TAKE k \in DOMAIN T
      <3>2. HAVE k > j
      <3>3. k \in DOMAIN S /\ k + 1 \in DOMAIN S /\ k + 1 > j
        BY <1>1, <1>2, <3>2
      <3> QED
        BY <1>2, <3>2, <3>3
    <2>7. \A k \in DOMAIN T : k > j =>
            IF T[k].by = None THEN F[T[j].by] # None => T[k].v # F[T[j].by].after
            ELSE <<T[j].by, T[k].by>> \in L
      <3>1. TAKE k \in DOMAIN T
      <3>2. HAVE k > j
      <3>3. PICK h \in DOMAIN S : h > j /\ T[k] = S[h]
        BY <2>6, <3>2
      <3> QED
        BY <2>1, <2>2, <2>4, <3>3 DEF Told
    <2>8. Told(T, j, F, m, A \ {b}, L)
      <3>1. T[j].by \in A \ {b} /\ F[T[j].by] = E[T[j].by]
        BY <2>1, <2>4
      <3>2. IF Made(m, S[j].by) THEN j = 1
            ELSE j > 1 /\ E[S[j].by] # None /\ E[S[j].by].before = S[j - 1].v
                 /\ E[S[j].by].after = S[j].v
        BY <2>2 DEF Told
      <3>3. IF Made(m, T[j].by) THEN j = 1
            ELSE j > 1 /\ F[T[j].by] # None /\ F[T[j].by].before = T[j - 1].v
                 /\ F[T[j].by].after = T[j].v
        BY <2>1, <2>4, <2>5, <3>2
      <3> QED
        BY <2>7, <3>1, <3>3 DEF Told
    <2> QED
      BY <1>2, <2>1, <2>3, <2>8
  <1>8. T # <<>> /\ Last(T) = T[n - 1] /\ n - 1 \in DOMAIN T
    <2>1. n - 1 \in DOMAIN T
      BY <1>1, <1>2, <1>5
    <2>2. T # <<>>
      <3>1. DOMAIN <<>> = {}
        OBVIOUS
      <3> QED
        BY <2>1, <3>1
    <2>3. Last(T) = T[n - 1]
      BY <1>2 DEF Last
    <2> QED
      BY <2>1, <2>2, <2>3
  <1>9. w = Last(T).v
    <2>1. CASE i = n
      <3>1. n - 1 < i /\ n - 1 \in 1 .. n - 1
        BY <1>1, <1>5, <2>1
      <3>2. T[n - 1] = S[i - 1]
        BY <1>2, <2>1, <3>1
      <3> QED
        BY <1>5, <1>8, <2>1, <3>2 DEF n
    <2>2. CASE i # n
      <3>1. ~(n - 1 < i) /\ n - 1 \in 1 .. n - 1 /\ n - 1 + 1 = n
        BY <1>1, <1>5, <2>2
      <3>2. T[n - 1] = S[n]
        BY <1>2, <3>1
      <3>3. v = S[n].v
        BY <1>1 DEF Tells
      <3> QED
        BY <1>8, <2>2, <3>2, <3>3 DEF n
    <2> QED
      BY <2>1, <2>2
  <1>10. \A j \in DOMAIN T : T[j].by # None => Told(T, j, F, m, A \ {b}, L)
    <2>1. TAKE j \in DOMAIN T
    <2>2. HAVE T[j].by # None
    <2>3. j \in DOMAIN S /\ j + 1 \in DOMAIN S
      BY <1>1, <1>2
    <2>4. CASE j < i
      <3>1. T[j] = S[j] /\ j # i
        BY <1>1, <1>2, <1>5, <2>3, <2>4
      <3> QED
        BY <1>7, <2>2, <2>3, <3>1
    <2>5. CASE ~(j < i)
      BY <1>1, <1>2, <1>6, <2>2, <2>3, <2>5
    <2> QED
      BY <2>4, <2>5
  <1>11. ASSUME NEW c \in A \ {b}, F[c] # None
         PROVE  (\E j \in DOMAIN T : T[j].by = c) /\ F[c].op # "delete"
    <2>1. c \in A /\ c # b /\ F[c] = E[c] /\ c # None
      BY RoundTripAssumption DEF RoundTripAssumption
    <2>2. PICK j \in DOMAIN S : S[j].by = c
      BY <1>1, <1>11, <2>1 DEF Tells
    <2>3. j # i /\ S[j].by # None
      BY <2>1, <2>2
    <2>4. E[c].op = "delete" => S[n].by = c
      BY <1>1, <1>11, <2>1 DEF Tells
    <2>5. S[n].by = None \/ S[n].by = b
      BY <1>1, <1>6
    <2> QED
      BY <1>7, <2>1, <2>2, <2>3, <2>4, <2>5
  <1>12. Tells(T, w, F, m, A \ {b}, L)
    BY <1>8, <1>9, <1>10, <1>11 DEF Tells
  <1> QED
    BY <1>12 DEF T

\* What a run made and a discard cannot take is nobody's from then on.
LEMMA TellsNobody ==
    ASSUME NEW S \in Seq(Entry), NEW v, NEW E, NEW m, NEW A \in SUBSET Run, NEW L,
           Tells(S, v, E, m, A, L), NEW b \in Run, Made(m, b), E[b] = None
    PROVE  Tells([i \in DOMAIN S |-> IF i \in {j \in DOMAIN S : S[j].by = b}
                                     THEN [S[i] EXCEPT !.by = None] ELSE S[i]],
                 v, E, None, A \ {b}, L)
  <1> DEFINE T == [i \in DOMAIN S |-> IF i \in {j \in DOMAIN S : S[j].by = b}
                                      THEN [S[i] EXCEPT !.by = None] ELSE S[i]]
  <1>1. DOMAIN T = DOMAIN S
    OBVIOUS
  <1>2. \A i \in DOMAIN S : T[i].v = S[i].v /\ T[i].by = IF S[i].by = b THEN None ELSE S[i].by
    <2>1. TAKE i \in DOMAIN S
    <2>2. S[i] \in Entry
      OBVIOUS
    <2>3. T[i] = IF S[i].by = b THEN [S[i] EXCEPT !.by = None] ELSE S[i]
      OBVIOUS
    <2> HIDE DEF T
    <2> QED
      BY <2>2, <2>3 DEF Entry
  <1>3. Len(T) = Len(S) /\ T \in Seq(Entry)
    <2>1. DOMAIN T = 1 .. Len(S) /\ Len(S) \in Nat
      OBVIOUS
    <2>2. \A i \in 1 .. Len(S) : T[i] \in Entry
      <3>1. TAKE i \in 1 .. Len(S)
      <3>2. S[i] \in Entry
        OBVIOUS
      <3> QED
        BY <3>2 DEF Entry
    <2>3. T = [i \in 1 .. Len(S) |-> T[i]]
      OBVIOUS
    <2> HIDE DEF T
    <2> QED
      BY <2>1, <2>2, <2>3
  <1> HIDE DEF T
  <1>4. v = IF T = <<>> THEN Gone ELSE Last(T).v
    <2>1. CASE S = <<>>
      <3>1. T = <<>>
        BY <1>3, <2>1, EmptySeq
      <3> QED
        BY <2>1, <3>1 DEF Tells
    <2>2. CASE S # <<>>
      <3>1. Len(S) \in DOMAIN S /\ Last(S) = S[Len(S)]
        BY <2>2, LastIs
      <3>2. T # <<>>
        BY <1>3, <2>2, EmptySeq
      <3>3. Last(T).v = Last(S).v
        BY <1>2, <1>3, <3>1 DEF Last
      <3> QED
        BY <2>2, <3>2, <3>3 DEF Tells
    <2> QED
      BY <2>1, <2>2
  <1>5. ASSUME NEW i \in DOMAIN T, T[i].by # None
        PROVE  Told(T, i, E, None, A \ {b}, L)
    <2>1. S[i].by # b /\ T[i].by = S[i].by /\ i \in DOMAIN S /\ S[i].by # None
      BY <1>1, <1>2, <1>5
    <2>2. Told(S, i, E, m, A, L) /\ ~Made(m, S[i].by) /\ ~Made(None, S[i].by)
      BY <2>1 DEF Tells, Made
    <2>3. i > 1 => i - 1 \in DOMAIN S /\ T[i - 1].v = S[i - 1].v
      BY <1>1, <1>2, <2>1
    <2>4. \A j \in DOMAIN T : j > i =>
            IF T[j].by = None THEN E[T[i].by] # None => T[j].v # E[T[i].by].after
            ELSE <<T[i].by, T[j].by>> \in L
      <3>1. TAKE j \in DOMAIN T
      <3>2. HAVE j > i
      <3>3. j \in DOMAIN S /\ i >= 1
        BY <1>1, <2>1
      <3>4. S[j].by # b
        <4>1. ASSUME S[j].by = b
              PROVE  FALSE
          <5>1. b # None
            BY RoundTripAssumption DEF RoundTripAssumption
          <5>2. Told(S, j, E, m, A, L)
            BY <3>3, <4>1, <5>1 DEF Tells
          <5>3. Made(m, S[j].by)
            BY <4>1
          <5>4. j = 1
            BY <5>2, <5>3 DEF Told
          <5>5. i \in Nat /\ i >= 1 /\ j > i
            BY <2>1, <3>2
          <5> QED
            BY <5>4, <5>5
        <4> QED
          BY <4>1
      <3>5. T[j].v = S[j].v /\ T[j].by = S[j].by
        BY <1>2, <3>3, <3>4
      <3> QED
        BY <2>1, <2>2, <3>2, <3>3, <3>5 DEF Told
    <2> QED
      BY <1>2, <2>1, <2>2, <2>3, <2>4 DEF Told
  <1>6. ASSUME NEW c \in A \ {b}, E[c] # None
        PROVE  IF T = <<>> THEN E[c].op = "edit"
               ELSE (\E i \in DOMAIN T : T[i].by = c) /\ (E[c].op = "delete" => Last(T).by = c)
    <2>1. T = <<>> <=> S = <<>>
      BY <1>3, EmptySeq
    <2>2. CASE S = <<>>
      BY <1>6, <2>1, <2>2 DEF Tells
    <2>3. CASE S # <<>>
      <3>1. (\E i \in DOMAIN S : S[i].by = c) /\ (E[c].op = "delete" => Last(S).by = c)
        BY <1>6, <2>3 DEF Tells
      <3>2. Len(S) \in DOMAIN S /\ Last(S) = S[Len(S)] /\ Last(T) = T[Len(S)]
        BY <1>3, <2>3, LastIs DEF Last
      <3> QED
        BY <1>1, <1>2, <2>1, <2>3, <3>1, <3>2
    <2> QED
      BY <2>2, <2>3
  <1>7. Tells(T, v, E, None, A \ {b}, L)
    BY <1>4, <1>5, <1>6 DEF Tells
  <1> QED
    BY <1>7 DEF T

\* A run that is not told of leaves a story as it is.
LEMMA TellsUntold ==
    ASSUME NEW S, NEW v, NEW E, NEW m, NEW A \in SUBSET Run, NEW L,
           Tells(S, v, E, m, A, L), NEW b \in Run, \A i \in DOMAIN S : S[i].by # b,
           NEW F, \A c \in Run \ {b} : F[c] = E[c]
    PROVE  Tells(S, v, F, m, A \ {b}, L)
  <1>1. ASSUME NEW i \in DOMAIN S, S[i].by # None
        PROVE  Told(S, i, F, m, A \ {b}, L)
    <2>1. Told(S, i, E, m, A, L)
      BY <1>1 DEF Tells
    <2>2. S[i].by \in A \ {b} /\ F[S[i].by] = E[S[i].by]
      BY <2>1 DEF Told
    <2> QED
      BY <2>1, <2>2 DEF Told
  <1> QED
    BY <1>1 DEF Tells

\* Records, batches and the order runs began in are what stories take them for.
LEMMA Columns ==
    ASSUME TypeOK, LegInv, NEW t \in Transaction
    PROVE  /\ Column(Records(t), made[t]) /\ Standing \in SUBSET Run
           /\ \A b \in Run : Records(t)[b] = edits[b][t]
           /\ story[t] \in Seq(Entry) /\ stored[t] \in Version
  <1>1. \A b \in Run : Records(t)[b] = edits[b][t]
    BY DEF Records
  <1>2. Standing \in SUBSET Run
    <2>1. \A i \in DOMAIN begun : begun[i] \in Run
      BY DEF TypeOK
    <2> QED
      BY <2>1 DEF Standing, ToSet
  <1>3. ASSUME NEW b \in Run, edits[b][t] # None
        PROVE  /\ edits[b][t] \in Record /\ ~Made(made[t], b)
               /\ edits[b][t].op = "edit" => edits[b][t].after # Gone
               /\ edits[b][t].op = "delete" => edits[b][t].after = Gone
    <2>1. edits[b][t] \in Record
      BY <1>3 DEF TypeOK
    <2>2. ~Made(made[t], b)
      BY <1>3 DEF LegInv, RunsWrite, RunRight, Made
    <2>3. /\ edits[b][t].op = "edit" => edits[b][t].after.legs # <<>>
          /\ edits[b][t].op = "delete" => edits[b][t].after = Gone
      BY <1>3 DEF LegInv, VersionsWhole
    <2> QED
      BY <2>1, <2>2, <2>3, GoneIs
  <1>4. Column(Records(t), made[t])
    BY <1>1, <1>3 DEF Column
  <1> QED
    BY <1>1, <1>2, <1>4 DEF TypeOK

LEMMA Orders ==
    ASSUME TypeOK
    PROVE  /\ \A b, c : Later(b, c) => ~Later(c, b)
           /\ \A b : ~Later(b, b)
           /\ \A b, c \in ToSet(begun) : b = c \/ Later(b, c) \/ Later(c, b)
  <1>1. IsInjective(begun) /\ DOMAIN begun \subseteq Int
    BY DEF TypeOK
  <1>2. \A i, j \in DOMAIN begun : begun[i] = begun[j] => i = j
    BY <1>1 DEF IsInjective
  <1>3. \A i, j \in DOMAIN begun : i < j => ~(j < i) /\ i # j
    BY <1>1
  <1>4. \A b, c : Later(b, c) => ~Later(c, b)
    BY <1>2, <1>3 DEF Later
  <1>5. \A b : ~Later(b, b)
    BY <1>4
  <1>6. \A i, j \in DOMAIN begun : i = j \/ i < j \/ j < i
    BY <1>1
  <1>7. \A b, c \in ToSet(begun) : b = c \/ Later(b, c) \/ Later(c, b)
    <2>1. TAKE b, c \in ToSet(begun)
    <2>2. PICK i \in DOMAIN begun : begun[i] = b
      BY DEF ToSet
    <2>3. PICK j \in DOMAIN begun : begun[j] = c
      BY DEF ToSet
    <2> QED
      BY <1>6, <2>2, <2>3 DEF Later
  <1> QED
    BY <1>4, <1>5, <1>7

\* A transaction whose own tables stay keeps its story while a batch opens.
LEMMA StoryElsewhere ==
    ASSUME TypeOK, LegInv, StoryInv, NEW r \in Run, OpenBatch(r), UNCHANGED discarded,
           NEW u \in Transaction, u \notin echoed, stored'[u] = stored[u], story'[u] = story[u],
           made'[u] = made[u], \A b \in Run : edits'[b][u] = edits[b][u]
    PROVE  Tells(story'[u], stored'[u], Records(u)', made'[u], Standing', Order')
  <1>1. Tells(story[u], stored[u], Records(u), made[u], Standing, Order)
    BY DEF StoryInv
  <1>2. Records(u)' = Records(u)
    BY DEF Records
  <1>3. Standing \subseteq Standing' /\ Standing' \subseteq Standing \cup {r}
    BY Opened DEF Standing
  <1>4. Order \subseteq Order'
    BY Opened DEF Order
  <1>5. r \notin Standing /\ r \in Standing' => Records(u)[r] = None
    <2>1. r \notin Standing /\ r \in Standing' => r \notin ToSet(begun)
      BY DEF Standing
    <2>2. r \notin ToSet(begun) => edits[r][u] = None
      BY DEF LegInv, RunsWrite, RunRight
    <2> QED
      BY <2>1, <2>2 DEF Records
  <1> DEFINE E == Records(u)
             A == Standing
             B == Standing'
             L == Order
             M == Order'
  <1>6. Tells(story[u], stored[u], E, made[u], A, L) /\ A \subseteq B /\ L \subseteq M
        /\ \A b \in B \ A : E[b] = None
    BY <1>1, <1>3, <1>4, <1>5
  <1> HIDE DEF E, A, B, L, M
  <1>7. Tells(story[u], stored[u], E, made[u], B, M)
    BY <1>6, TellsOn
  <1> QED
    BY <1>2, <1>7 DEF E, B, M

\* The runs told of began before r, unless they are in echoed.
LEMMA ToldBefore ==
    ASSUME TypeOK, LegInv, LegInv', NEW r \in Run, NEW t \in Transaction, OpenBatch(r),
           UNCHANGED <<discarded, file>>, made'[t] = made[t], Reads(r, t), edits[r][t] = None,
           ~Crosses(r, t), NEW b \in Standing, edits[b][t] # None \/ Made(made[t], b)
    PROVE  <<b, r>> \in Order'
  <1>1. b \in Run /\ b \in ToSet(begun) /\ b \notin discarded
    BY Columns DEF Standing
  <1>2. r \in ToSet(begun')
    BY Opened
  <1>3. CASE Made(made[t], b)
    <2>1. Reads(r, t)'
      BY DEF Reads
    <2>2. Later(b, r)'
      <3>1. /\ made'[t] # None /\ made'[t].run = b /\ RunRight(r)'
        BY <1>3 DEF Made, LegInv, RunsWrite
      <3> QED
        BY <1>2, <2>1, <3>1 DEF RunRight
    <2> QED
      BY <1>1, <2>2 DEF Order
  <1>4. CASE edits[b][t] # None
    <2>1. b # r /\ ~Later(r, b)
      BY <1>1, <1>4 DEF Crosses
    <2>2. Later(b, r)'
      <3>1. CASE r \in ToSet(begun)
        <4>1. Later(b, r)
          BY <1>1, <2>1, <3>1, Orders
        <4> QED
          BY <4>1, Opened
      <3>2. CASE r \notin ToSet(begun)
        BY <1>1, <3>2, Opened
      <3> QED
        BY <3>1, <3>2
    <2> QED
      BY <1>1, <2>2 DEF Order
  <1> QED
    BY <1>3, <1>4

\* A run writes to a transaction that stands.
LEMMA RunTells ==
    ASSUME TypeOK, LegInv, LegInv', StoryInv, NEW r \in Run, NEW t \in Transaction,
           RunWrites(r, t), edits'[r][t] # None, OpenBatch(r), Tell(r, t, stored'[t]),
           UNCHANGED <<discarded, file, made>>
    PROVE  StoryInv'
  <1> DEFINE S == story[t]
             v == stored[t]
             w == stored'[t]
             E == Records(t)
             F == Records(t)'
             m == made[t]
             A == Standing
             B == Standing'
             L == Order
             M == Order'
  <1>1. /\ edits[r][t] = None /\ w \in Version
        /\ \A u \in Transaction \ {t} : stored'[u] = stored[u]
        /\ \A b \in Run, u \in Transaction : edits'[b][u] = edits[b][u] \/ (b = r /\ u = t)
        /\ NewRecord(r, t)
    BY DEF RunWrites, Touches
  <1>2. Reads(r, t) /\ v # Gone /\ edits'[r][t].before = v /\ edits'[r][t].after = w
    BY <1>1 DEF NewRecord, Stands
  <1>3. /\ story'[t] = Append(S, [by |-> IF r \in discarded THEN None ELSE r, v |-> w])
        /\ \A u \in Transaction \ {t} : story'[u] = story[u]
        /\ echoed \subseteq echoed'
        /\ t \notin echoed' => IF r \in discarded THEN ~Echoes(t, w) ELSE ~Crosses(r, t)
    BY DEF Tell, TypeOK
  <1>4. ASSUME NEW u \in Transaction, u \notin echoed', u # t
        PROVE  Tells(story'[u], stored'[u], Records(u)', made'[u], Standing', Order')
    <2>1. u \notin echoed /\ stored'[u] = stored[u] /\ story'[u] = story[u] /\ made'[u] = made[u]
      BY <1>1, <1>3, <1>4
    <2>2. \A b \in Run : edits'[b][u] = edits[b][u]
      BY <1>1, <1>4
    <2> QED
      BY <2>1, <2>2, StoryElsewhere
  <1>5. ASSUME t \notin echoed'
        PROVE  Tells(story'[t], w, F, m, B, M)
    <2>1. /\ Column(E, m) /\ A \in SUBSET Run /\ S \in Seq(Entry)
          /\ \A b \in Run : E[b] = edits[b][t]
      BY Columns
    <2>2. Tells(S, v, E, m, A, L)
      BY <1>3, <1>5 DEF StoryInv
    <2>3. \A b \in Run : F[b] = edits'[b][t]
      BY DEF Records
    <2>4. \A b \in Run \ {r} : F[b] = E[b]
      BY <1>1, <2>1, <2>3
    <2>5. E[r] = None /\ F[r] # None /\ F[r].before = v /\ F[r].after = w /\ ~Made(m, r)
      <3>1. ~Made(m, r)
        BY <1>2 DEF LegInv, RunsWrite, RunRight, Made
      <3> QED
        BY <1>1, <1>2, <2>1, <2>3, <3>1
    <2>6. A \subseteq B /\ B \subseteq A \cup {r} /\ (IF r \in discarded THEN B = A ELSE r \in B)
      BY Opened DEF Standing, TypeOK
    <2>7. L \subseteq M
      BY Opened DEF Order
    <2>8. CASE r \in discarded
      <3>1. \A b \in A : E[b] # None => E[b].after # w
        BY <1>3, <1>5, <2>1, <2>8 DEF Echoes, EditsOf
      <3>2. story'[t] = Append(S, [by |-> None, v |-> w]) /\ r \notin A
        BY <1>3, <2>8 DEF Standing
      <3> HIDE DEF S, v, w, E, F, m, A, B, L, M
      <3>3. Tells(story'[t], w, E, m, A, L)
        BY <1>1, <1>2, <2>1, <2>2, <3>1, <3>2, TellsOfUser, OverAppended
      <3>4. \A b \in A : F[b] = E[b]
        BY <2>1, <2>4, <3>2
      <3> QED
        BY <2>6, <2>7, <2>8, <3>3, <3>4, TellsOn
    <2>9. CASE r \notin discarded
      <3>1. \A b \in A : E[b] # None \/ Made(m, b) => <<b, r>> \in M
        <4>1. ASSUME NEW b \in A, E[b] # None \/ Made(m, b)
              PROVE  <<b, r>> \in M
          <5>1. edits[b][t] # None \/ Made(made[t], b)
            BY <2>1, <4>1
          <5>2. ~Crosses(r, t)
            BY <1>3, <1>5, <2>9
          <5> QED
            BY <1>1, <1>2, <5>1, <5>2, ToldBefore
        <4> QED
          BY <4>1
      <3>2. story'[t] = Append(S, [by |-> r, v |-> w])
        BY <1>3, <2>9
      <3> HIDE DEF S, v, w, E, F, m, A, B, L, M
      <3>3. Tells(Append(S, [by |-> r, v |-> w]), w, F, m, B, M)
        BY <1>1, <1>2, <2>1, <2>2, <2>4, <2>5, <2>6, <2>7, <2>9, <3>1, TellsOfRun
      <3> QED
        BY <3>2, <3>3
    <2> QED
      BY <2>8, <2>9
  <1>6. made'[t] = m
    OBVIOUS
  <1> QED
    BY <1>4, <1>5, <1>6 DEF StoryInv

LEMMA EditTransactionTells ==
    ASSUME TypeOK, LegInv, StoryInv, NEW r \in Run, NEW a \in todo[r], EditTransaction(r, a)
    PROVE  StoryInv'
  <1>1. /\ a.txn \in Transaction /\ RunWrites(r, a.txn)
        /\ stored'[a.txn] = [legs |-> EditLegs(a), mark |-> "flagged"]
    BY EditTransactionWrites
  <1>2. OpenBatch(r) /\ Tell(r, a.txn, stored'[a.txn]) /\ UNCHANGED <<discarded, file, made>>
    BY <1>1 DEF EditTransaction, Carried
  <1>3. edits'[r][a.txn] # None
    BY EditTransactionWrites
  <1>4. LegInv'
    BY EditTransactionKeeps
  <1> QED
    BY <1>1, <1>2, <1>3, <1>4, RunTells

LEMMA CreateTransactionTells ==
    ASSUME TypeOK, LegInv, StoryInv, NEW r \in Run, NEW a \in todo[r], CreateTransaction(r, a)
    PROVE  StoryInv'
  <1>1. PICK t \in FreshTransactions :
             /\ Tell(r, t, stored'[t]) /\ stored' = [stored EXCEPT ![t] = stored'[t]]
             /\ made' = [made EXCEPT ![t] = [file |-> file[r].name, run |-> r]] /\ edits' = edits
    BY CreateTransactionWrites
  <1>2. OpenBatch(r) /\ UNCHANGED discarded
    BY DEF CreateTransaction
  <1>3. /\ t \in Transaction /\ story[t] = <<>> /\ \A b \in Run : edits[b][t] = None
    BY FreshUnread
  <1>4. made'[t] # None /\ made'[t].run = r /\ \A u \in Transaction \ {t} :
            stored'[u] = stored[u] /\ made'[u] = made[u]
    <2>1. /\ made'[t] = [file |-> file[r].name, run |-> r]
          /\ \A u \in Transaction \ {t} : stored'[u] = stored[u] /\ made'[u] = made[u]
      BY <1>1, <1>3 DEF TypeOK
    <2>2. None \notin Maker
      BY OpeningAssumption DEF OpeningAssumption
    <2>3. [file |-> file[r].name, run |-> r] \in Maker
      <3>1. file[r] # None
        BY DEF CreateTransaction, At, TypeOK
      <3> QED
        BY <3>1 DEF TypeOK, Maker
    <2> QED
      BY <2>1, <2>2, <2>3
  <1>5. /\ story'[t] = Append(<<>>, [by |-> IF r \in discarded THEN None ELSE r, v |-> stored'[t]])
        /\ \A u \in Transaction \ {t} : story'[u] = story[u]
        /\ echoed \subseteq echoed'
    BY <1>1, <1>3 DEF Tell, TypeOK
  <1>6. ASSUME NEW u \in Transaction, u \notin echoed', u # t
        PROVE  Tells(story'[u], stored'[u], Records(u)', made'[u], Standing', Order')
    BY <1>1, <1>2, <1>4, <1>5, <1>6, StoryElsewhere
  <1>7. Tells(story'[t], stored'[t], Records(t)', made'[t], Standing', Order')
    <2> DEFINE x == IF r \in discarded THEN None ELSE r
               w == stored'[t]
               E == Records(t)'
               B == Standing'
               M == Order'
    <2>1. story'[t] = <<[by |-> x, v |-> w]>>
      BY <1>5
    <2>2. \A b \in B : E[b] = None
      <3>1. \A b \in B : b \in Run
        <4>1. TypeOK' /\ LegInv'
          BY CreateTransactionKeeps
        <4>2. \A i \in DOMAIN begun' : begun'[i] \in Run
          BY <4>1 DEF TypeOK
        <4> QED
          BY <4>2 DEF Standing, ToSet
      <3> QED
        BY <1>1, <1>3, <3>1 DEF Records
    <2>3. x = None \/ (x \in B /\ Made(made'[t], x))
      BY <1>2, <1>4, Opened DEF Standing, Made
    <2> HIDE DEF x, w, E, B, M
    <2>4. Tells(story'[t], w, E, made'[t], B, M)
      BY <2>1, <2>2, <2>3, TellsAnew
    <2> QED
      BY <2>4 DEF w, E, B, M
  <1> QED
    BY <1>6, <1>7 DEF StoryInv

LEMMA DeleteTransactionTells ==
    ASSUME TypeOK, LegInv, StoryInv, NEW r \in Run, NEW a \in todo[r], DeleteTransaction(r, a)
    PROVE  StoryInv'
  <1>1. a.txn \in Transaction /\ RunWrites(r, a.txn) /\ stored'[a.txn] = Gone
    BY DeleteTransactionWrites
  <1>2. OpenBatch(r) /\ Tell(r, a.txn, stored'[a.txn]) /\ UNCHANGED <<discarded, file, made>>
    BY <1>1 DEF DeleteTransaction, Carried
  <1>3. edits'[r][a.txn] # None
    BY DeleteTransactionWrites
  <1>4. LegInv'
    BY DeleteTransactionKeeps
  <1> QED
    BY <1>1, <1>2, <1>3, <1>4, RunTells

\* The user writes to a transaction that stands.
LEMMA UserTells ==
    ASSUME TypeOK, LegInv, StoryInv, NEW t \in Transaction, Stands(t), NEW w \in Version,
           UserWrites(t, w), UNCHANGED <<edits, begun, discarded, made>>
    PROVE  StoryInv'
  <1>1. /\ \A u \in Transaction : Records(u)' = Records(u)
        /\ Standing' = Standing /\ Order' = Order
    BY DEF Records, Standing, Order, Later
  <1>2. /\ stored'[t] = w /\ echoed \subseteq echoed'
        /\ t \notin echoed' => ~Echoes(t, w)
        /\ \A u \in Transaction \ {t} : stored'[u] = stored[u] /\ story'[u] = story[u]
    BY DEF UserWrites, TypeOK
  <1>3. story'[t] = IF story[t] # <<>> /\ Last(story[t]).by = None THEN Amended(story[t], w)
                    ELSE Append(story[t], [by |-> None, v |-> w])
    BY DEF UserWrites, TypeOK, Amended
  <1>4. Over(story'[t], story[t], w)
    BY <1>3, Columns, OverAppended, OverAmended
  <1>5. ASSUME t \notin echoed'
        PROVE  Tells(story'[t], w, Records(t), made[t], Standing, Order)
    <2>1. /\ Column(Records(t), made[t]) /\ Standing \in SUBSET Run /\ story[t] \in Seq(Entry)
          /\ \A b \in Run : Records(t)[b] = edits[b][t]
      BY Columns
    <2>2. \A b \in Standing : Records(t)[b] # None => Records(t)[b].after # w
      BY <1>2, <1>5, <2>1 DEF Echoes, EditsOf
    <2>3. Tells(story[t], stored[t], Records(t), made[t], Standing, Order) /\ stored[t] # Gone
      BY <1>2, <1>5 DEF StoryInv, Stands
    <2> QED
      BY <1>4, <2>1, <2>2, <2>3, TellsOfUser
  <1>6. ASSUME NEW u \in Transaction, u \notin echoed'
        PROVE  Tells(story'[u], stored'[u], Records(u)', made'[u], Standing', Order')
    <2>1. CASE u = t
      BY <1>1, <1>2, <1>5, <1>6, <2>1
    <2>2. CASE u # t
      BY <1>1, <1>2, <1>6, <2>2 DEF StoryInv
    <2> QED
      BY <2>1, <2>2
  <1> QED
    BY <1>6 DEF StoryInv

LEMMA WriteLegsTells ==
    ASSUME TypeOK, LegInv, StoryInv, NEW t \in Transaction, NEW legs \in Seq(Leg),
           WriteLegs(t, legs)
    PROVE  StoryInv'
  <1> DEFINE w == [stored[t] EXCEPT !.legs = legs]
  <1>1. w \in Version
    <2>1. stored[t] \in Version
      BY DEF TypeOK
    <2> QED
      BY <2>1 DEF Version
  <1>2. Stands(t) /\ UserWrites(t, w) /\ UNCHANGED <<edits, begun, discarded, made>>
    BY DEF WriteLegs, Change
  <1> QED
    BY <1>1, <1>2, UserTells

LEMMA ReconcileTells ==
    ASSUME TypeOK, LegInv, StoryInv, NEW t \in Transaction, NEW m \in Mark, Reconcile(t, m)
    PROVE  StoryInv'
  <1> DEFINE w == [stored[t] EXCEPT !.mark = m]
  <1>1. w \in Version
    <2>1. stored[t] \in Version
      BY DEF TypeOK
    <2> QED
      BY <2>1 DEF Version
  <1>2. Stands(t) /\ UserWrites(t, w) /\ UNCHANGED <<edits, begun, discarded, made>>
    BY DEF Reconcile, Change
  <1> QED
    BY <1>1, <1>2, UserTells

LEMMA DeleteKeepingTells ==
    ASSUME TypeOK, LegInv, StoryInv, NEW t \in Transaction, DeleteKeeping(t)
    PROVE  StoryInv'
  <1>1. Stands(t) /\ UserWrites(t, Gone) /\ UNCHANGED <<edits, begun, discarded, made>>
    BY DEF DeleteKeeping, Change
  <1> QED
    BY <1>1, GoneIs, UserTells

\* What is deleted with its references has no story; records of its edits may stand.
LEMMA DeleteForgettingTells ==
    ASSUME TypeOK, LegInv, StoryInv, NEW t \in Transaction, DeleteForgetting(t)
    PROVE  StoryInv'
  <1>1. /\ Stands(t) /\ UNCHANGED <<edits, begun, discarded, echoed>>
        /\ stored'[t] = Gone /\ story'[t] = <<>>
        /\ \A u \in Transaction \ {t} :
              stored'[u] = stored[u] /\ story'[u] = story[u] /\ made'[u] = made[u]
    BY DEF DeleteForgetting, Change, TypeOK
  <1>2. /\ \A u \in Transaction : Records(u)' = Records(u)
        /\ Standing' = Standing /\ Order' = Order
    BY <1>1 DEF Records, Standing, Order, Later
  <1>3. ASSUME t \notin echoed'
        PROVE  Tells(<<>>, Gone, Records(t), made'[t], Standing, Order)
    <2>1. /\ Column(Records(t), made[t]) /\ Standing \in SUBSET Run /\ story[t] \in Seq(Entry)
      BY Columns
    <2>2. Tells(story[t], stored[t], Records(t), made[t], Standing, Order) /\ stored[t] # Gone
      BY <1>1, <1>3 DEF StoryInv, Stands
    <2>3. \A b \in Standing : Records(t)[b] # None => Records(t)[b].op = "edit"
      BY <2>1, <2>2, NoDeletion
    <2> QED
      BY <2>3 DEF Tells
  <1>4. ASSUME NEW u \in Transaction, u \notin echoed'
        PROVE  Tells(story'[u], stored'[u], Records(u)', made'[u], Standing', Order')
    <2>1. CASE u = t
      BY <1>1, <1>2, <1>3, <1>4, <2>1
    <2>2. CASE u # t
      BY <1>1, <1>2, <1>4, <2>2 DEF StoryInv
    <2> QED
      BY <2>1, <2>2
  <1> QED
    BY <1>4 DEF StoryInv

\* References and plans are no story's.
LEMMA NothingTells ==
    ASSUME StoryInv, UNCHANGED <<stored, edits, begun, discarded, made, story, echoed>>
    PROVE  StoryInv'
  <1>1. /\ \A u \in Transaction : Records(u)' = Records(u)
        /\ Standing' = Standing /\ Order' = Order
    BY DEF Records, Standing, Order, Later
  <1>2. \A u \in Transaction : u \notin echoed' =>
          Tells(story'[u], stored'[u], Records(u)', made'[u], Standing', Order')
    BY <1>1 DEF StoryInv
  <1> QED
    BY <1>2 DEF StoryInv

\* A discarded batch is a run that never happened.
LEMMA DiscardTells ==
    ASSUME TypeOK, LegInv, StoryInv, NEW b \in Run, Discard(b)
    PROVE  StoryInv'
  <1>1. /\ b \in ToSet(begun) /\ b \notin discarded /\ discarded' = discarded \cup {b}
        /\ Dependants(b) = {} /\ UNCHANGED <<begun, echoed>>
        /\ \A t \in Transaction : stored'[t] = Left(b, t) /\ story'[t] = Taken(b, t)
        /\ \A c \in Run, t \in Transaction :
                edits'[c][t] = IF c = b THEN None ELSE edits[c][t]
    BY DiscardTables DEF Discard
  <1>2. Standing' = Standing \ {b} /\ Order' = Order /\ b \in Standing /\ b # None
    BY <1>1, RoundTripAssumption DEF Standing, Order, Later, RoundTripAssumption
  <1>3. \A t \in Transaction : \A c \in Run :
          Records(t)'[c] = IF c = b THEN None ELSE Records(t)[c]
    BY <1>1 DEF Records
  <1>4. ASSUME NEW t \in Transaction, t \notin echoed', edits[b][t] # None \/ \E y \in BatchRefs(b) : refs[y].owner = t,
               NEW c \in Standing, <<b, c>> \in Order
        PROVE  edits[c][t] = None
    <2>1. c \in Run \ discarded /\ Later(b, c)
      BY <1>4, Columns DEF Standing, Order
    <2>2. c \notin Dependants(b)
      BY <1>1
    <2> QED
      BY <1>4, <2>1, <2>2 DEF Dependants
  <1>5. ASSUME NEW t \in Transaction, t \notin echoed'
        PROVE  Tells(Taken(b, t), Left(b, t), Records(t)', made'[t], Standing \ {b}, Order)
    <2> DEFINE S == story[t]
               v == stored[t]
               w == Left(b, t)
               E == Records(t)
               F == Records(t)'
               m == made[t]
               A == Standing
               L == Order
               I == {i \in DOMAIN S : S[i].by = b}
               Whole == Ids(v.legs) \subseteq {refs[x].leg : x \in BatchRefs(b)}
    <2>1. /\ Column(E, m) /\ A \in SUBSET Run /\ S \in Seq(Entry) /\ v \in Version
          /\ \A c \in Run : E[c] = edits[c][t]
      BY Columns
    <2>2. Tells(S, v, E, m, A, L)
      BY <1>1, <1>5 DEF StoryInv
    <2>3. F[b] = None /\ \A c \in Run \ {b} : F[c] = E[c]
      BY <1>3
    <2>4. made'[t] = IF Made(m, b) THEN None ELSE m
      BY DEF Discard, Made
    <2>5. CASE Made(m, b)
      <3>1. E[b] = None
        BY <2>1, <2>5 DEF Column
      <3>2. t \notin Returned(b) /\ t \notin Kept(b)
        BY <2>1, <3>1 DEF Returned, Kept, EditedBy
      <3>3. Taken(b, t) = IF Len(S) = 1 /\ Whole THEN <<>>
                          ELSE IF w = v
                          THEN [i \in DOMAIN S |-> IF i \in I THEN [S[i] EXCEPT !.by = None] ELSE S[i]]
                          ELSE IF w = Gone THEN <<>> ELSE <<[by |-> None, v |-> w]>>
        BY <2>5 DEF Taken, Made
      <3>4. CASE Len(S) = 1 /\ Whole
        <4>1. ASSUME NEW p \in Ids(v.legs)
              PROVE  p \in Owned(b)
          <5>1. PICK x \in BatchRefs(b) : refs[x].leg = p
            BY <3>4, <4>1
          <5>2. p # None
            BY <2>1, <4>1, IdsType
          <5>3. refs[x].owner = t
            BY <4>1, <5>1, <5>2, LegOwner DEF BatchRefs, ApplyRefs
          <5> QED
            BY <3>2, <5>1, <5>2, <5>3 DEF Owned, Plan
        <4>2. w = Gone
          <5>1. Back(b, t) = v
            BY <3>2, BackIs
          <5>2. \A p : p \notin Ids(w.legs)
            BY <4>1, <5>1, LeftIs
          <5>3. w \in Version /\ (w.legs = <<>> => w = Gone)
            BY LeftIs
          <5>4. w.legs \in Seq(Leg) /\ DOMAIN w.legs = {}
            BY <5>2, <5>3 DEF Ids, Version
          <5>5. w.legs = <<>>
            <6> DEFINE q == w.legs
            <6>1. q \in Seq(Leg) /\ DOMAIN q = {}
              BY <5>4
            <6> HIDE DEF q
            <6>2. DOMAIN q = 1 .. Len(q) /\ Len(q) \in Nat
              BY <6>1
            <6>3. 1 \notin 1 .. Len(q)
              BY <6>1, <6>2
            <6>4. Len(q) = 0
              BY <6>2, <6>3
            <6>5. q = <<>>
              BY <6>1, <6>4, EmptySeq
            <6> QED
              BY <6>5 DEF q
          <5> QED
            BY <5>3, <5>5
        <4>3. \A c \in A \ {b} : F[c] = None
          <5>1. ASSUME NEW c \in A \ {b}, E[c] # None
                PROVE  FALSE
            <6>1. c # None /\ c # b /\ c \in Run
              BY <2>1, RoundTripAssumption DEF RoundTripAssumption
            <6>2. S # <<>> /\ DOMAIN S = {1}
              <7>1. DOMAIN S = 1 .. Len(S)
                BY <2>1
              <7> QED
                BY <3>4, <7>1
            <6>3. PICK i \in DOMAIN S : S[i].by = c
              BY <2>2, <5>1, <6>2 DEF Tells
            <6>4. Told(S, i, E, m, A, L)
              BY <2>2, <6>1, <6>3 DEF Tells
            <6>5. i > 1
              BY <2>5, <6>1, <6>3, <6>4 DEF Told, Made
            <6> QED
              BY <6>2, <6>3, <6>5
          <5> QED
            BY <2>1, <2>3, <5>1
        <4>4. Taken(b, t) = <<>>
          BY <3>3, <3>4
        <4> HIDE DEF S, v, w, E, F, m, A, L, I, Whole
        <4>5. Tells(Taken(b, t), w, F, made'[t], A \ {b}, L)
          BY <4>2, <4>3, <4>4, TellsAnew
        <4> QED
          BY <4>5 DEF w, F, A, L
      <3>5. CASE ~(Len(S) = 1 /\ Whole) /\ w = v
        <4>1. Taken(b, t) = [i \in DOMAIN S |-> IF i \in I THEN [S[i] EXCEPT !.by = None] ELSE S[i]]
          BY <3>3, <3>5
        <4>2. \A c \in Run : F[c] = E[c]
          BY <2>3, <3>1
        <4>3. made'[t] = None
          BY <2>4, <2>5
        <4> HIDE DEF S, v, w, E, F, m, A, L, Whole
        <4>a. Tells([i \in DOMAIN S |-> IF i \in {j \in DOMAIN S : S[j].by = b}
                                      THEN [S[i] EXCEPT !.by = None] ELSE S[i]],
                    v, E, None, A \ {b}, L)
          <5> HIDE DEF I
          <5> QED
            BY <2>1, <2>2, <2>5, <3>1, TellsNobody
        <4>4. Tells(Taken(b, t), v, E, None, A \ {b}, L)
          BY <4>1, <4>a DEF I
        <4>5. Tells(Taken(b, t), v, F, None, A \ {b}, L)
          BY <2>1, <4>2, <4>4, TellsOn
        <4> QED
          BY <3>5, <4>3, <4>5 DEF w, F, A, L
      <3>6. CASE ~(Len(S) = 1 /\ Whole) /\ w # v
        <4>1. \E y \in BatchRefs(b) : refs[y].owner = t
          BY <3>2, <3>6, LeftWhole
        <4>2. \A c \in A \ {b} : F[c] = None
          <5>1. ASSUME NEW c \in A \ {b}, edits[c][t] # None
                PROVE  FALSE
            <6>1. c \in Run /\ RunRight(c)
              BY <2>1 DEF LegInv, RunsWrite
            <6>2. Later(b, c)
              BY <2>5, <5>1, <6>1 DEF RunRight, Made
            <6>3. <<b, c>> \in L
              BY <6>1, <6>2 DEF Order
            <6> QED
              BY <1>4, <1>5, <4>1, <5>1, <6>3
          <5> QED
            BY <2>1, <2>3, <5>1
        <4>3. Taken(b, t) = IF w = Gone THEN <<>> ELSE <<[by |-> None, v |-> w]>>
          BY <3>3, <3>6
        <4> HIDE DEF S, v, w, E, F, m, A, L, I, Whole
        <4>4. Tells(Taken(b, t), w, F, made'[t], A \ {b}, L)
          BY <4>2, <4>3, TellsAnew
        <4> QED
          BY <4>4 DEF w, F, A, L
      <3> QED
        BY <3>4, <3>5, <3>6
    <2>6. CASE ~Made(m, b) /\ I = {}
      <3>1. Taken(b, t) = S /\ \A i \in DOMAIN S : S[i].by # b
        BY <2>6 DEF Taken, Made
      <3>2. w = v
        <4>1. CASE E[b] # None
          <5>1. S = <<>> /\ E[b].op = "edit"
            BY <1>2, <2>2, <3>1, <4>1 DEF Tells
          <5>2. v = Gone /\ E[b].after # Gone
            BY <2>1, <2>2, <4>1, <5>1 DEF Tells, Column
          <5>3. t \in Kept(b)
            BY <2>1, <4>1, <5>1, <5>2 DEF Kept, EditedBy, UnchangedSince
          <5> QED
            BY <5>3, LeftWhole
        <4>2. CASE E[b] = None
          <5>1. t \notin Returned(b)
            BY <2>1, <4>2 DEF Returned, Kept, EditedBy
          <5>2. \A y \in BatchRefs(b) : refs[y].owner # t
            BY <2>1, <2>6, <4>2 DEF LegInv, RunsWrite, Made
          <5> QED
            BY <5>1, <5>2, LeftWhole
        <4> QED
          BY <4>1, <4>2
      <3>3. made'[t] = m
        BY <2>4, <2>6
      <3> HIDE DEF S, v, w, E, F, m, A, L, I, Whole
      <3>4. Tells(S, v, F, m, A \ {b}, L)
        BY <2>1, <2>2, <2>3, <3>1, TellsUntold
      <3> QED
        BY <3>1, <3>2, <3>3, <3>4 DEF w, F, A, L
    <2>7. CASE ~Made(m, b) /\ I # {}
      <3> DEFINE n == CHOOSE i \in I : \A j \in I : i >= j
      <3>1. Taken(b, t) = RemoveAt(S, n)
        BY <2>7 DEF Taken, Made
      <3>2. n \in I /\ \A j \in I : n >= j
        <4>1. I \in SUBSET (1 .. Len(S)) /\ Len(S) \in Nat
          BY <2>1
        <4> HIDE DEF I
        <4> QED
          BY <2>7, <4>1, Newest
      <3> HIDE DEF n
      <3>3. n \in DOMAIN S /\ S[n].by = b
        BY <3>2
      <3>4. Told(S, n, E, m, A, L)
        BY <1>2, <2>2, <3>3 DEF Tells
      <3>5. E[b] # None /\ E[b].after = S[n].v /\ n > 1
        BY <2>7, <3>3, <3>4 DEF Told
      <3>6. \A c \in A : <<b, c>> \in L => E[c] = None
        BY <1>4, <1>5, <2>1, <3>5
      <3>7. /\ S # <<>> /\ Len(S) \in DOMAIN S /\ Last(S) = S[Len(S)] /\ Len(S) \in Nat
            /\ DOMAIN S = 1 .. Len(S)
        <4>1. DOMAIN <<>> = {}
          OBVIOUS
        <4>2. S # <<>>
          BY <3>3, <4>1
        <4> QED
          BY <2>1, <4>2, LastIs
      <3>8. v = S[Len(S)].v
        BY <2>2, <3>7 DEF Tells
      <3>9. E[b].op \in {"edit", "delete"}
        BY <1>1, <2>1, <3>5 DEF Column, Record
      <3>10. (n = Len(S) /\ w = E[b].before) \/ (n # Len(S) /\ w = v)
        <4>1. CASE n = Len(S)
          <5>1. t \in Returned(b)
            BY <2>1, <3>5, <3>8, <3>9, <4>1 DEF Returned, Kept, EditedBy, UnchangedSince
          <5> QED
            BY <2>1, <4>1, <5>1, LeftWhole
        <4>2. CASE n # Len(S)
          <5>1. Len(S) > n /\ Len(S) \notin I /\ S[Len(S)].by # b
            BY <3>2, <3>3, <3>7, <4>2
          <5>2. E[b].op = "edit"
            BY <1>2, <2>2, <3>5, <3>7, <3>9, <5>1 DEF Tells
          <5>3. S[Len(S)].by = None
            <6>1. ASSUME S[Len(S)].by # None
                  PROVE  FALSE
              <7>1. <<b, S[Len(S)].by>> \in L
                BY <3>3, <3>4, <3>7, <5>1, <6>1 DEF Told
              <7>a. Len(S) > 1
                BY <3>3, <3>5, <3>7, <5>1
              <7>b. Told(S, Len(S), E, m, A, L)
                BY <2>2, <3>7, <6>1 DEF Tells
              <7>2. Told(S, Len(S), E, m, A, L) /\ Len(S) > 1
                BY <7>a, <7>b
              <7>3. S[Len(S)].by \in A /\ E[S[Len(S)].by] # None
                BY <7>2 DEF Told
              <7> QED
                BY <3>6, <7>1, <7>3
            <6> QED
              BY <6>1
          <5>4. v # E[b].after
            BY <3>3, <3>4, <3>5, <3>7, <3>8, <5>1, <5>3 DEF Told
          <5>5. t \in Kept(b)
            BY <1>1, <2>1, <3>5, <5>2, <5>4 DEF Kept, EditedBy, UnchangedSince
          <5> QED
            BY <4>2, <5>5, LeftWhole
        <4> QED
          BY <4>1, <4>2
      <3>11. \A c \in Run : <<c, c>> \notin L
        BY Orders DEF Order
      <3>12. made'[t] = m
        BY <2>4, <2>7
      <3> HIDE DEF S, v, w, E, F, m, A, L, I, Whole
      <3>13. Tells(RemoveAt(S, n), w, F, m, A \ {b}, L)
        BY <2>1, <2>2, <2>3, <2>7, <3>3, <3>6, <3>10, <3>11, TellsPeeled
      <3> QED
        BY <3>1, <3>12, <3>13 DEF w, F, A, L
    <2> QED
      BY <2>5, <2>6, <2>7
  <1>6. \A t \in Transaction : t \notin echoed' =>
          Tells(story'[t], stored'[t], Records(t)', made'[t], Standing', Order')
    BY <1>1, <1>2, <1>5
  <1> QED
    BY <1>6 DEF StoryInv

-----------------------------------------------------------------------------
(* Batches peel off.                                                       *)

LEMMA InitStories ==
    ASSUME Init
    PROVE  StoryInv
  <1>1. /\ \A b \in Run : \A t \in Transaction : edits[b][t] = None
        /\ begun = <<>>
        /\ \A t \in Transaction :
              story[t] = IF Stands(t) THEN <<[by |-> None, v |-> stored[t]]>> ELSE <<>>
    BY DEF Init
  <1>2. Standing = {}
    BY <1>1 DEF Standing, ToSet
  <1>3. ASSUME NEW t \in Transaction
        PROVE  Tells(story[t], stored[t], Records(t), made[t], Standing, Order)
    <2>1. \/ story[t] = <<>> /\ stored[t] = Gone
          \/ story[t] = <<[by |-> None, v |-> stored[t]]>>
      BY <1>1 DEF Stands
    <2>2. \A b \in Standing : Records(t)[b] = None
      BY <1>2
    <2> QED
      BY <2>1, <2>2, TellsAnew
  <1> QED
    BY <1>3 DEF StoryInv

LEMMA UserActsTell ==
    ASSUME TypeOK, LegInv, StoryInv, NEW t \in Transaction,
           \/ EditByUser(t)
           \/ \E i \in 1 .. Len(stored[t].legs), line \in Line : Adopt(t, i, line)
           \/ \E m \in Mark : Reconcile(t, m)
           \/ DeleteKeeping(t) \/ DeleteForgetting(t)
    PROVE  StoryInv'
  <1>1. CASE EditByUser(t)
    BY <1>1, EditsWrite, WriteLegsTells
  <1>2. ASSUME NEW i \in 1 .. Len(stored[t].legs), NEW line \in Line, Adopt(t, i, line)
        PROVE  StoryInv'
    BY <1>2, NothingTells DEF Adopt, Change
  <1>3. CASE \E m \in Mark : Reconcile(t, m)
    BY <1>3, ReconcileTells
  <1>4. CASE DeleteKeeping(t)
    BY <1>4, DeleteKeepingTells
  <1>5. CASE DeleteForgetting(t)
    BY <1>5, DeleteForgettingTells
  <1> QED
    BY <1>1, <1>2, <1>3, <1>4, <1>5

LEMMA RunActsTell ==
    ASSUME TypeOK, LegInv, StoryInv, NEW r \in Run,
           \/ \E T \in SUBSET Transaction, n \in 0 .. scope.twins :
                \E wants \in [T -> scope.drafts] : ExportFile(r, T, wants, n)
           \/ \E q \in Run : TakeFile(r, q)
           \/ PlanFile(r) \/ StartApply(r) \/ CloseBatch(r)
           \/ \E a \in todo[r] :
                \/ EditTransaction(r, a) \/ CreateTransaction(r, a) \/ DeleteTransaction(r, a)
                \/ LeaveAlone(r, a) \/ StopOnSlot(r, a)
           \/ Discard(r)
    PROVE  StoryInv'
  <1>1. ASSUME NEW T \in SUBSET Transaction, NEW n \in 0 .. scope.twins,
               NEW wants \in [T -> scope.drafts], ExportFile(r, T, wants, n)
        PROVE  StoryInv'
    BY <1>1, NothingTells DEF ExportFile, tables, history
  <1>2. CASE \E q \in Run : TakeFile(r, q)
    BY <1>2, NothingTells DEF TakeFile, tables, history
  <1>3. CASE PlanFile(r) \/ StartApply(r) \/ CloseBatch(r)
    BY <1>3, NothingTells DEF PlanFile, StartApply, CloseBatch, tables, history
  <1>4. ASSUME NEW a \in todo[r], LeaveAlone(r, a) \/ StopOnSlot(r, a)
        PROVE  StoryInv'
    BY <1>4, NothingTells DEF LeaveAlone, StopOnSlot, tables, history
  <1>5. ASSUME NEW a \in todo[r],
               EditTransaction(r, a) \/ CreateTransaction(r, a) \/ DeleteTransaction(r, a)
        PROVE  StoryInv'
    BY <1>5, EditTransactionTells, CreateTransactionTells, DeleteTransactionTells
  <1>6. CASE Discard(r)
    BY <1>6, DiscardTells
  <1> QED
    BY <1>1, <1>2, <1>3, <1>4, <1>5, <1>6

LEMMA StoryStep ==
    ASSUME TypeOK, LegInv, StoryInv, [Next]_vars
    PROVE  StoryInv'
  <1>1. CASE UNCHANGED vars
    BY <1>1, NothingTells DEF vars
  <1>2. CASE \E r \in Run :
        \/ \E T \in SUBSET Transaction, n \in 0 .. scope.twins :
             \E wants \in [T -> scope.drafts] : ExportFile(r, T, wants, n)
        \/ \E q \in Run : TakeFile(r, q)
        \/ PlanFile(r) \/ StartApply(r) \/ CloseBatch(r)
        \/ \E a \in todo[r] :
             \/ EditTransaction(r, a) \/ CreateTransaction(r, a) \/ DeleteTransaction(r, a)
             \/ LeaveAlone(r, a) \/ StopOnSlot(r, a)
        \/ Discard(r)
    BY <1>2, RunActsTell
  <1>3. CASE \E t \in Transaction :
        \/ EditByUser(t)
        \/ \E i \in 1 .. Len(stored[t].legs), line \in Line : Adopt(t, i, line)
        \/ \E m \in Mark : Reconcile(t, m)
        \/ DeleteKeeping(t) \/ DeleteForgetting(t)
    BY <1>3, UserActsTell
  <1>4. ASSUME NEW e \in Editor,
        \/ \E t \in Transaction : ReadForEdit(e, t)
        \/ WriteEdit(e) \/ AbandonEdit(e)
        PROVE  StoryInv'
    <2>1. CASE WriteEdit(e)
      BY <2>1, EditsWrite, WriteLegsTells
    <2>2. CASE AbandonEdit(e) \/ \E t \in Transaction : ReadForEdit(e, t)
      BY <2>2, NothingTells DEF ReadForEdit, AbandonEdit, tables, history
    <2> QED
      BY <1>4, <2>1, <2>2
  <1>5. CASE \E x \in Ref : FreeSlot(x)
    BY <1>5, NothingTells DEF FreeSlot, Change
  <1> QED
    BY <1>1, <1>2, <1>3, <1>4, <1>5 DEF Next

LEMMA StoryAlways == Spec => [](TypeOK /\ LegInv /\ StoryInv)
  <1>1. Init => TypeOK /\ LegInv /\ StoryInv
    BY InitLegs, InitStories
  <1>2. (TypeOK /\ LegInv /\ StoryInv) /\ [Next]_vars => (TypeOK /\ LegInv /\ StoryInv)'
    BY LegStep, StoryStep
  <1> QED
    BY <1>1, <1>2, PTL DEF Spec

\* Discards peel off: in whatever order batches are discarded, and whatever the user wrote
\* before and since, a transaction is what the last standing write made of it, and no bank
\* reference loses its leg by the apply's own doing (discard.rs: Dependants, Recorded::read,
\* relink; "a discarded batch is a run that never happened").
THEOREM BatchesPeelOff == Spec => []DiscardsPeelOff
  <1>1. TypeOK /\ LegInv /\ StoryInv => DiscardsPeelOff
    BY DEF DiscardsPeelOff, LegInv, StoryInv, StoriesHold, Tells
  <1> QED
    BY <1>1, StoryAlways, PTL

-----------------------------------------------------------------------------
(* What a file added: the invariants.                                      *)

Slot == Value \X Nat

\* The positions of the legs d of a file's i-th new transaction and the slots they are,
\* when S are the slots of the transactions the file names.
PlaceOf(S, d, i) ==
    LET Before(k) == Cardinality({m \in 1 .. k - 1 : d[m] = d[k]})
        Each(k) == Cardinality({m \in DOMAIN d : d[m] = d[k]})
    IN  [k \in DOMAIN d |-> NthFree(Occurrences(S, d[k]), (i - 1) * Each(k) + Before(k))]
SlotSet(d, at) == {<<d[k], at[k]>> : k \in DOMAIN d}
AimOf(S, d, i) == SlotSet(d, PlaceOf(S, d, i))

Held == SlotsOf(ApplyRefs)
Theirs(f) == SlotsOf({x \in ApplyRefs : refs[x].owner \in DOMAIN f.wants})
Place(f, i) == PlaceOf(Theirs(f), NewDraft, i)
Aims(f, i) == AimOf(Theirs(f), NewDraft, i)

\* The slots t took from its maker.
OwnRefs(t) == {x \in ApplyRefs : refs[x].owner = t /\ refs[x].batch = made[t].run}
Homes(f, t) == {i \in 1 .. f.new : SlotsOf(OwnRefs(t)) \cap Aims(f, i) # {}}

\* A file is read under the name of the run that exported it; who makes a transaction reads
\* one, which does not name what it adds.
FilesRight ==
    /\ \A r \in Run : file[r] # None =>
        /\ file[r].new \in Nat /\ file[file[r].name] = file[r]
    /\ \A t \in Transaction : made[t] # None =>
        /\ phase[made[t].run] \in {"applying", "over"}
        /\ file[made[t].run].name = made[t].file
        /\ \A r \in Run : file[r] # None /\ file[r].name = made[t].file => ~Reads(r, t)

\* Slots are of values and numbers, and a transaction has no more of its maker's than it
\* was made with legs.
SlotsRight ==
    /\ \A x \in ApplyRefs : <<refs[x].key, refs[x].occurrence>> \in Slot
    /\ \A r \in Run : /\ DOMAIN slots[r] = {"held", "aimed"}
                      /\ slots[r].held \cup slots[r].aimed \subseteq Slot
                      /\ IsFiniteSet(slots[r].held \cup slots[r].aimed)
                      /\ IsFiniteSet({a \in todo[r] : a.op = "create"})
                      /\ \A a \in todo[r] : a.op = "create" => a.at \in [DOMAIN NewDraft -> Nat]
    /\ \A t \in Transaction : made[t] # None => Cardinality(OwnRefs(t)) <= Len(NewDraft)

\* The run r of f knows every slot f aims at: it is held, or planned.
Knows(r, f) ==
    /\ phase[r] = "planned" => \A i \in 1 .. f.new :
        Aims(f, i) \subseteq Held \/ \E a \in todo[r] : a.op = "create" /\ a.at = Place(f, i)
    /\ phase[r] = "applying" =>
        /\ slots[r].held \subseteq Held
        /\ \A i \in 1 .. f.new : Aims(f, i) \subseteq slots[r].held \cup slots[r].aimed
    /\ \A a \in todo[r] : a.op = "create" => \E i \in 1 .. f.new : a.at = Place(f, i)

KnowsSlots(f) == \A r \in Run : file[r] = f => Knows(r, f)

\* What f added has places of its own, whose slots are all held.
HasPlaces(f) ==
    \A t \in AddedBy(f) :
        /\ Homes(f, t) # {}
        /\ \A i \in Homes(f, t) : Aims(f, i) \subseteq Held
        /\ \A u \in AddedBy(f) \ {t} : Homes(f, t) \cap Homes(f, u) = {}

PlacesRight == \A f \in Files : f.name \notin unsettled => KnowsSlots(f) /\ HasPlaces(f)

SlotInv == FilesRight /\ SlotsRight /\ PlacesRight

-----------------------------------------------------------------------------
(* The n-th free number.                                                   *)

\* What is free up to k.
Open(taken, k) == {m \in 0 .. k : m \notin taken}

LEMMA OpenIs ==
    ASSUME NEW taken, NEW k \in Nat
    PROVE  IsFiniteSet(Open(taken, k)) /\ Cardinality(Open(taken, k)) \in Nat
  <1>1. IsFiniteSet(0 .. k)
    BY FS_Interval
  <1>2. Open(taken, k) \in SUBSET (0 .. k)
    BY DEF Open
  <1> QED
    BY <1>1, <1>2, FS_Subset, FS_CardinalityType

LEMMA NthFreeIs ==
    ASSUME NEW taken, taken \subseteq Nat, IsFiniteSet(taken), NEW n \in Nat
    PROVE  /\ NthFree(taken, n) \in Nat /\ NthFree(taken, n) \notin taken
           /\ Cardinality(Open(taken, NthFree(taken, n))) = n + 1
  <1> DEFINE all == 0 .. n + Cardinality(taken)
             S == all \ taken
             k == Nth(S, n + 1)
  <1>1. Cardinality(taken) \in Nat
    BY FS_CardinalityType
  <1>2. IsFiniteSet(all) /\ Cardinality(all) = n + Cardinality(taken) + 1
    <2> DEFINE top == n + Cardinality(taken)
    <2>1. top \in Nat /\ all = 0 .. top
      BY <1>1
    <2> HIDE DEF top
    <2>2. IsFiniteSet(0 .. top) /\ Cardinality(0 .. top) = top + 1
      <3>1. 0 \in Int /\ top \in Int /\ ~(0 > top) /\ top - 0 + 1 = top + 1
        BY <2>1
      <3> QED
        BY <3>1, FS_Interval
    <2> QED
      BY <2>1, <2>2 DEF top
  <1>3. /\ IsFiniteSet(all \cap taken) /\ Cardinality(all \cap taken) <= Cardinality(taken)
        /\ Cardinality(all \cap taken) \in Nat
    BY FS_Subset, FS_CardinalityType
  <1>4. IsFiniteSet(S) /\ Cardinality(S) = Cardinality(all) - Cardinality(all \cap taken)
    BY <1>2, FS_Difference
  <1>5. S \subseteq Nat /\ \A m \in S : m \notin taken
    BY <1>1
  <1>6. n + 1 \in 1 .. Cardinality(S)
    BY <1>1, <1>2, <1>3, <1>4
  <1>7. k \in S /\ Rank(S, k) = n + 1
    BY <1>4, <1>5, <1>6, NthIs
  <1>8. {m \in S : m <= k} = Open(taken, k)
    <2>1. k \in Nat /\ k <= n + Cardinality(taken)
      BY <1>1, <1>7
    <2> HIDE DEF k
    <2>2. \A m \in Nat : m <= k => m <= n + Cardinality(taken)
      BY <1>1, <2>1
    <2> QED
      BY <1>1, <2>1, <2>2 DEF Open
  <1>9. Cardinality(Open(taken, k)) = n + 1
    BY <1>7, <1>8 DEF Rank
  <1> QED
    BY <1>5, <1>7, <1>9 DEF NthFree

\* What is free is told by how much is free up to it.
LEMMA FreeOnce ==
    ASSUME NEW taken, NEW j \in Nat, NEW k \in Nat, j \notin taken, k \notin taken,
           Cardinality(Open(taken, j)) = Cardinality(Open(taken, k))
    PROVE  j = k
  <1>1. ASSUME NEW i \in Nat, NEW m \in Nat, m \notin taken, i < m
        PROVE  Cardinality(Open(taken, i)) # Cardinality(Open(taken, m))
    <2>1. Open(taken, i) \subseteq Open(taken, m) /\ m \in Open(taken, m) /\ m \notin Open(taken, i)
      BY <1>1 DEF Open
    <2> QED
      BY <2>1, OpenIs, FS_Subset
  <1>2. j < k \/ j = k \/ k < j
    OBVIOUS
  <1> QED
    BY <1>1, <1>2

\* What is taken beyond the n-th does not move it.
LEMMA NthFreeStays ==
    ASSUME NEW taken, taken \subseteq Nat, IsFiniteSet(taken), NEW n \in Nat,
           NEW more, more \subseteq Nat, IsFiniteSet(more),
           \A m \in more : m > NthFree(taken, n)
    PROVE  NthFree(taken \cup more, n) = NthFree(taken, n)
  <1> DEFINE k == NthFree(taken, n)
             j == NthFree(taken \cup more, n)
  <1>1. k \in Nat /\ k \notin taken /\ Cardinality(Open(taken, k)) = n + 1
    BY NthFreeIs
  <1>2. IsFiniteSet(taken \cup more)
    BY FS_Union
  <1>3. j \in Nat /\ j \notin taken \cup more /\ Cardinality(Open(taken \cup more, j)) = n + 1
    BY <1>2, NthFreeIs
  <1>4. k \notin more /\ \A m \in 0 .. k : m \notin more
    BY <1>1
  <1>5. Open(taken \cup more, k) = Open(taken, k)
    BY <1>4 DEF Open
  <1> QED
    BY <1>1, <1>3, <1>4, <1>5, FreeOnce

-----------------------------------------------------------------------------
(* Positions.                                                              *)

LEMMA FiniteImage ==
    ASSUME NEW S, IsFiniteSet(S), NEW f, DOMAIN f = S
    PROVE  IsFiniteSet({f[x] : x \in S})
  <1> DEFINE T == {f[x] : x \in S}
             g == [x \in S |-> f[x]]
  <1>1. g \in [S -> T] /\ \A y \in T : \E x \in S : g[x] = y
    OBVIOUS
  <1>2. g \in Surjection(S, T)
    BY <1>1 DEF Surjection
  <1> HIDE DEF g, T
  <1>3. IsFiniteSet(T)
    BY <1>2, FS_Surjection
  <1> QED
    BY <1>3 DEF T

LEMMA OccurrencesAre ==
    ASSUME NEW S, S \subseteq Slot, IsFiniteSet(S), NEW key
    PROVE  /\ Occurrences(S, key) \subseteq Nat /\ IsFiniteSet(Occurrences(S, key))
           /\ \A n : n \in Occurrences(S, key) <=> <<key, n>> \in S
  <1> DEFINE T == {q \in S : q[1] = key}
  <1>1. IsFiniteSet(T)
    BY FS_Subset
  <1>2. IsFiniteSet({s[2] : s \in T})
    <2> DEFINE f == [s \in T |-> s[2]]
    <2>1. IsFiniteSet({f[s] : s \in T})
      <3>1. DOMAIN f = T
        OBVIOUS
      <3> HIDE DEF f, T
      <3> QED
        BY <1>1, <3>1, FiniteImage
    <2>2. {f[s] : s \in T} = {s[2] : s \in T}
      OBVIOUS
    <2> QED
      BY <2>1, <2>2
  <1>3. \A q \in S : q[2] \in Nat /\ q = <<q[1], q[2]>>
    BY DEF Slot
  <1>4. ASSUME NEW n
        PROVE  n \in Occurrences(S, key) <=> <<key, n>> \in S
    <2>1. ASSUME <<key, n>> \in S
          PROVE  n \in Occurrences(S, key)
      <3>1. <<key, n>>[1] = key /\ <<key, n>>[2] = n
        OBVIOUS
      <3> QED
        BY <2>1, <3>1 DEF Occurrences
    <2>2. ASSUME n \in Occurrences(S, key)
          PROVE  <<key, n>> \in S
      <3>1. PICK q \in S : q[1] = key /\ q[2] = n
        BY <2>2 DEF Occurrences
      <3> QED
        BY <1>3, <3>1
    <2> QED
      BY <2>1, <2>2
  <1> QED
    BY <1>2, <1>3, <1>4 DEF Occurrences

LEMMA SlotsType ==
    ASSUME TypeOK, SlotsRight, NEW X
    PROVE  SlotsOf(X) \subseteq Slot /\ IsFiniteSet(SlotsOf(X))
  <1>1. X \cap ApplyRefs \subseteq Ref
    BY DEF ApplyRefs, Rows, TypeOK
  <1>2. IsFiniteSet(X \cap ApplyRefs)
    BY <1>1, FS_Subset, RoundTripAssumption DEF RoundTripAssumption
  <1>3. IsFiniteSet(SlotsOf(X))
    <2> DEFINE T == X \cap ApplyRefs
               f == [x \in T |-> <<refs[x].key, refs[x].occurrence>>]
    <2>1. IsFiniteSet({f[x] : x \in T})
      <3>1. DOMAIN f = T
        OBVIOUS
      <3> HIDE DEF f, T
      <3> QED
        BY <1>2, <3>1, FiniteImage DEF T
    <2>2. {f[x] : x \in T} = SlotsOf(X)
      BY DEF SlotsOf
    <2> QED
      BY <2>1, <2>2
  <1> QED
    BY <1>3 DEF SlotsOf, SlotsRight

\* A leg's number among all legs equal to it in the new transactions.
Turn(d, i, k) ==
    (i - 1) * Cardinality({m \in DOMAIN d : d[m] = d[k]})
        + Cardinality({m \in 1 .. k - 1 : d[m] = d[k]})

\* Turns of one transaction come before those of the next.
LEMMA TurnsApart ==
    ASSUME NEW d \in Seq(Value), NEW i \in Nat \ {0}, NEW k \in DOMAIN d
    PROVE  /\ Turn(d, i, k) \in Nat
           /\ \A j \in Nat \ {0}, n \in DOMAIN d : i < j /\ d[n] = d[k] => Turn(d, i, k) < Turn(d, j, n)
  <1> DEFINE Alike(m) == {l \in DOMAIN d : d[l] = d[m]}
             Earlier(m) == {l \in 1 .. m - 1 : d[l] = d[m]}
  <1>0. DOMAIN d = 1 .. Len(d) /\ Len(d) \in Nat
    OBVIOUS
  <1>1. \A m \in DOMAIN d : IsFiniteSet(Alike(m)) /\ Cardinality(Alike(m)) \in Nat
    <2>1. IsFiniteSet(DOMAIN d)
      BY <1>0, Counting
    <2> QED
      BY <2>1, FS_Subset, FS_CardinalityType
  <1>2. ASSUME NEW m \in DOMAIN d
        PROVE  /\ Cardinality(Earlier(m)) \in Nat
               /\ Cardinality(Earlier(m)) < Cardinality(Alike(m))
    <2>1. m \in Nat /\ m \notin Earlier(m) /\ m \in Alike(m) /\ Earlier(m) \subseteq Alike(m)
      BY <1>0
    <2>2. Earlier(m) \in SUBSET Alike(m) /\ Earlier(m) # Alike(m)
      BY <2>1
    <2> HIDE DEF Alike, Earlier
    <2> QED
      BY <1>1, <2>2, FS_Subset, FS_CardinalityType
  <1>3. \A m \in DOMAIN d : \A j \in Nat \ {0} :
          Turn(d, j, m) = (j - 1) * Cardinality(Alike(m)) + Cardinality(Earlier(m))
    BY DEF Turn
  <1>4. \A n \in DOMAIN d : d[n] = d[k] => Alike(n) = Alike(k)
    OBVIOUS
  <1> HIDE DEF Alike, Earlier
  <1>5. \A a, e \in Nat : a * e \in Nat
    OBVIOUS
  <1>6. ASSUME NEW a \in Nat, NEW b \in Nat, NEW e \in Nat, a < b
        PROVE  a * e + e <= b * e
    <2>1. PICK c \in Nat : b = a + 1 + c
      <3>1. b - a - 1 \in Nat /\ b = a + 1 + (b - a - 1)
        BY <1>6
      <3> QED
        BY <3>1
    <2>2. b * e = a * e + e + c * e
      BY <2>1
    <2>3. c * e \in Nat /\ a * e \in Nat /\ b * e \in Nat
      BY <1>5
    <2> QED
      BY <2>2, <2>3
  <1>7. i - 1 \in Nat /\ (i - 1) * Cardinality(Alike(k)) \in Nat
    BY <1>1, <1>5
  <1>8. ASSUME NEW j \in Nat \ {0}, NEW n \in DOMAIN d, i < j, d[n] = d[k]
        PROVE  Turn(d, i, k) < Turn(d, j, n)
    <2> DEFINE e == Cardinality(Alike(k))
               x == (i - 1) * e
               y == (j - 1) * e
               u == Cardinality(Earlier(k))
               v == Cardinality(Earlier(n))
    <2>1. e \in Nat /\ j - 1 \in Nat /\ i - 1 < j - 1
      BY <1>1, <1>8
    <2>2. x \in Nat /\ y \in Nat
      BY <1>5, <1>7, <2>1
    <2>3. x + e <= y
      BY <1>6, <1>7, <2>1
    <2>4. u \in Nat /\ v \in Nat /\ u < e
      BY <1>2
    <2>5. Turn(d, i, k) = x + u /\ Turn(d, j, n) = y + v
      BY <1>3, <1>4, <1>8
    <2> HIDE DEF e, x, y, u, v
    <2> QED
      BY <2>1, <2>2, <2>3, <2>4, <2>5
  <1>9. Turn(d, i, k) \in Nat
    BY <1>2, <1>3, <1>7
  <1> QED
    BY <1>8, <1>9

LEMMA PlaceIs ==
    ASSUME NEW S, S \subseteq Slot, IsFiniteSet(S), NEW d \in Seq(Value), NEW i \in Nat \ {0}
    PROVE  /\ PlaceOf(S, d, i) \in [DOMAIN d -> Nat]
           /\ \A k \in DOMAIN d : PlaceOf(S, d, i)[k] = NthFree(Occurrences(S, d[k]), Turn(d, i, k))
           /\ AimOf(S, d, i) \subseteq Slot
  <1>1. \A k \in DOMAIN d : PlaceOf(S, d, i)[k] = NthFree(Occurrences(S, d[k]), Turn(d, i, k))
    BY DEF PlaceOf, Turn
  <1>2. \A k \in DOMAIN d : NthFree(Occurrences(S, d[k]), Turn(d, i, k)) \in Nat
    BY TurnsApart, OccurrencesAre, NthFreeIs
  <1>3. PlaceOf(S, d, i) = [k \in DOMAIN d |-> PlaceOf(S, d, i)[k]]
    BY DEF PlaceOf
  <1>4. PlaceOf(S, d, i) \in [DOMAIN d -> Nat]
    BY <1>1, <1>2, <1>3
  <1>5. \A k \in DOMAIN d : d[k] \in Value
    OBVIOUS
  <1> QED
    BY <1>1, <1>4, <1>5 DEF AimOf, SlotSet, Slot

\* Two new transactions of a file aim at different slots.
LEMMA PlacesApart ==
    ASSUME NEW S, S \subseteq Slot, IsFiniteSet(S), NEW d \in Seq(Value),
           NEW i \in Nat \ {0}, NEW j \in Nat \ {0}, AimOf(S, d, i) \cap AimOf(S, d, j) # {}
    PROVE  i = j
  <1>1. PICK k \in DOMAIN d, n \in DOMAIN d :
          <<d[k], PlaceOf(S, d, i)[k]>> = <<d[n], PlaceOf(S, d, j)[n]>>
    BY DEF AimOf, SlotSet
  <1> DEFINE O == Occurrences(S, d[k])
             x == Turn(d, i, k)
             y == Turn(d, j, n)
  <1>2. d[k] = d[n] /\ NthFree(O, x) = NthFree(O, y)
    BY <1>1, PlaceIs
  <1>3. O \subseteq Nat /\ IsFiniteSet(O)
    BY OccurrencesAre
  <1>4. x \in Nat /\ y \in Nat /\ (i < j => x < y) /\ (j < i => y < x)
    BY <1>2, TurnsApart
  <1> HIDE DEF O, x, y
  <1>5. Cardinality(Open(O, NthFree(O, x))) = x + 1 /\ Cardinality(Open(O, NthFree(O, y))) = y + 1
    BY <1>3, <1>4, NthFreeIs
  <1>6. x = y
    BY <1>2, <1>4, <1>5
  <1> QED
    BY <1>4, <1>6

\* Slots taken beyond those aimed at move no aim.
LEMMA PlaceStays ==
    ASSUME NEW S, S \subseteq Slot, IsFiniteSet(S), NEW d \in Seq(Value), NEW i \in Nat \ {0},
           NEW more, more \subseteq Slot, IsFiniteSet(more),
           \A m \in more, s \in AimOf(S, d, i) : m[1] = s[1] => m[2] > s[2]
    PROVE  PlaceOf(S \cup more, d, i) = PlaceOf(S, d, i)
  <1>1. S \cup more \subseteq Slot /\ IsFiniteSet(S \cup more)
    BY FS_Union
  <1>2. ASSUME NEW k \in DOMAIN d
        PROVE  PlaceOf(S \cup more, d, i)[k] = PlaceOf(S, d, i)[k]
    <2> DEFINE O == Occurrences(S, d[k])
               M == Occurrences(more, d[k])
               x == Turn(d, i, k)
    <2>1. /\ PlaceOf(S, d, i)[k] = NthFree(O, x)
          /\ PlaceOf(S \cup more, d, i)[k] = NthFree(Occurrences(S \cup more, d[k]), x)
      BY <1>1, PlaceIs
    <2>2. /\ O \subseteq Nat /\ IsFiniteSet(O) /\ M \subseteq Nat /\ IsFiniteSet(M)
          /\ \A n : n \in M <=> <<d[k], n>> \in more
      BY OccurrencesAre
    <2>3. Occurrences(S \cup more, d[k]) = O \cup M
      BY DEF Occurrences
    <2>4. x \in Nat
      BY TurnsApart
    <2>5. <<d[k], NthFree(O, x)>> \in AimOf(S, d, i)
      BY <2>1 DEF AimOf, SlotSet
    <2>6. \A m \in M : m > NthFree(O, x)
      <3>1. TAKE m \in M
      <3>2. <<d[k], m>> \in more
        BY <2>2
      <3>3. <<d[k], m>>[1] = <<d[k], NthFree(O, x)>>[1]
            => <<d[k], m>>[2] > <<d[k], NthFree(O, x)>>[2]
        BY <2>5, <3>2
      <3> QED
        BY <3>3
    <2> HIDE DEF O, M, x
    <2>7. NthFree(O \cup M, x) = NthFree(O, x)
      BY <2>2, <2>4, <2>6, NthFreeStays
    <2> QED
      BY <2>1, <2>3, <2>7
  <1>3. PlaceOf(S \cup more, d, i) \in [DOMAIN d -> Nat]
    BY <1>1, PlaceIs
  <1>4. PlaceOf(S, d, i) \in [DOMAIN d -> Nat]
    BY PlaceIs
  <1> DEFINE P == PlaceOf(S \cup more, d, i)
             Q == PlaceOf(S, d, i)
  <1>5. P \in [DOMAIN d -> Nat] /\ Q \in [DOMAIN d -> Nat] /\ \A k \in DOMAIN d : P[k] = Q[k]
    BY <1>2, <1>3, <1>4
  <1> HIDE DEF P, Q
  <1>6. P = Q
    BY <1>5
  <1> QED
    BY <1>6 DEF P, Q

-----------------------------------------------------------------------------
(* Slots and what they are taken by.                                       *)

LEMMA DraftIs ==
    ASSUME TypeOK
    PROVE  /\ NewDraft \in Seq(Value) /\ DOMAIN NewDraft = 1 .. Len(NewDraft)
           /\ Len(NewDraft) \in Nat /\ Len(NewDraft) # 0
  <1>1. NewDraft \in Seq(Value) /\ NewDraft # <<>>
    BY DEF NewDraft, TypeOK
  <1> QED
    BY <1>1, EmptySeq

LEMMA FilesAre ==
    ASSUME TypeOK, FilesRight, NEW f \in Files
    PROVE  /\ f # None /\ f.new \in Nat /\ f.name \in Run /\ f = file[f.name]
           /\ DOMAIN f.wants = DOMAIN f.snap
           /\ \E r \in Run : file[r] = f /\ phase[r] # "idle"
           /\ \A i \in 1 .. f.new : i \in Nat \ {0}
           /\ \A g \in Files : g.name = f.name => g = f
  <1>1. PICK r \in Run : file[r] = f /\ f # None
    BY DEF Files
  <1>2. \A g \in Files : g = file[g.name]
    BY DEF Files, FilesRight
  <1>3. f.new \in Nat /\ f.name \in Run /\ DOMAIN f.wants = DOMAIN f.snap /\ phase[r] # "idle"
    BY <1>1 DEF FilesRight, TypeOK
  <1> QED
    BY <1>1, <1>2, <1>3

LEMMA PositionsAre ==
    ASSUME NEW f, NEW i
    PROVE  Positions(f, i) = Place(f, i) /\ SlotsAt(Positions(f, i)) = Aims(f, i)
  <1>1. Positions(f, i) = Place(f, i)
    BY DEF Positions, Place, PlaceOf, Theirs
  <1> QED
    BY <1>1 DEF SlotsAt, Aims, AimOf, SlotSet, Place

LEMMA OwnRefsAre ==
    ASSUME TypeOK, NEW t \in Transaction
    PROVE  /\ HasSlots(t) <=> made[t] # None /\ Cardinality(OwnRefs(t)) = Len(NewDraft)
           /\ OwnRefs(t) \subseteq ApplyRefs /\ IsFiniteSet(OwnRefs(t))
           /\ Cardinality(OwnRefs(t)) \in Nat
           /\ SlotsOf(OwnRefs(t)) = {<<refs[x].key, refs[x].occurrence>> : x \in OwnRefs(t)}
  <1>1. RefsOf(t) \cap BatchRefs(made[t].run) = OwnRefs(t)
    BY DEF RefsOf, BatchRefs, OwnRefs, ApplyRefs
  <1>2. OwnRefs(t) \subseteq Ref /\ OwnRefs(t) \subseteq ApplyRefs
    BY DEF OwnRefs, ApplyRefs, Rows, TypeOK
  <1>3. IsFiniteSet(OwnRefs(t))
    BY <1>2, FS_Subset, RoundTripAssumption DEF RoundTripAssumption
  <1>4. SlotsOf(OwnRefs(t)) = {<<refs[x].key, refs[x].occurrence>> : x \in OwnRefs(t)}
    <2>1. OwnRefs(t) \cap ApplyRefs = OwnRefs(t)
      BY <1>2
    <2> QED
      BY <2>1 DEF SlotsOf
  <1> QED
    BY <1>1, <1>2, <1>3, <1>4, FS_CardinalityType DEF HasSlots

LEMMA AddedIs ==
    ASSUME TypeOK, NEW f, NEW t
    PROVE  t \in AddedBy(f) <=> /\ t \in Transaction /\ made[t] # None /\ made[t].file = f.name
                                /\ Cardinality(OwnRefs(t)) = Len(NewDraft)
  BY OwnRefsAre DEF AddedBy

\* Places and aims of f, when the slots of the transactions it names are what they were.
LEMMA AimsOn ==
    ASSUME NEW f, Theirs(f)' = Theirs(f), NewDraft' = NewDraft, NEW i
    PROVE  Aims(f, i)' = Aims(f, i) /\ Place(f, i)' = Place(f, i)
  BY DEF Aims, Place

\* A run that applies may have fewer writes left.
FewerLeft ==
    \A q \in Run : \/ todo'[q] = todo[q]
                   \/ phase[q] = "applying" /\ todo'[q] \subseteq todo[q]

\* Rows of apply go, none come, and freeing their slots is told.
LEMMA RowsGo ==
    ASSUME TypeOK, SlotInv, TypeOK', UNCHANGED <<phase, file, slots>>, FewerLeft, NewDraft' = NewDraft,
           \A x \in ApplyRefs' : x \in ApplyRefs /\ Same(refs'[x], refs[x]),
           unsettled \subseteq unsettled', Beside(ApplyRefs \ ApplyRefs') \subseteq unsettled',
           \A t \in Transaction : made'[t] = made[t] \/ made'[t] = None
    PROVE  SlotInv'
  <1> DEFINE Lost == ApplyRefs \ ApplyRefs'
  <1>1. FilesRight'
    BY DEF SlotInv, FilesRight, Reads, TypeOK
  <1>2. ASSUME NEW t \in Transaction, made'[t] # None
        PROVE  /\ made'[t] = made[t] /\ OwnRefs(t)' = OwnRefs(t) \ Lost
               /\ Cardinality(OwnRefs(t)') <= Cardinality(OwnRefs(t))
               /\ Cardinality(OwnRefs(t)') = Cardinality(OwnRefs(t)) => OwnRefs(t)' = OwnRefs(t)
    <2>1. made'[t] = made[t]
      BY <1>2
    <2>2. OwnRefs(t)' = OwnRefs(t) \ Lost
      BY <2>1 DEF OwnRefs, Same
    <2>3. OwnRefs(t)' \in SUBSET OwnRefs(t)
      BY <2>2
    <2> QED
      BY <2>1, <2>2, <2>3, OwnRefsAre, FS_Subset
  <1>3. SlotsRight'
    <2>1. \A x \in ApplyRefs' : <<refs'[x].key, refs'[x].occurrence>> \in Slot
      BY DEF SlotInv, SlotsRight, Same
    <2>2. \A t \in Transaction : made'[t] # None => Cardinality(OwnRefs(t)') <= Len(NewDraft')
      <3>1. TAKE t \in Transaction
      <3>2. HAVE made'[t] # None
      <3>3. Cardinality(OwnRefs(t)) <= Len(NewDraft)
        BY <1>2, <3>2 DEF SlotInv, SlotsRight
      <3>4. Cardinality(OwnRefs(t)) \in Nat /\ Cardinality(OwnRefs(t)') \in Nat /\ Len(NewDraft) \in Nat
        <4>1. IsFiniteSet(OwnRefs(t)')
          BY <1>2, <3>2, OwnRefsAre, FS_Subset
        <4> QED
          BY <4>1, OwnRefsAre, FS_CardinalityType, DraftIs
      <3> QED
        BY <1>2, <3>2, <3>3, <3>4
    <2>3. ASSUME NEW q \in Run
          PROVE  /\ IsFiniteSet({c \in todo'[q] : c.op = "create"})
                 /\ \A c \in todo'[q] : c.op = "create" => c.at \in [DOMAIN NewDraft -> Nat]
      <3>1. {c \in todo'[q] : c.op = "create"} \in SUBSET {c \in todo[q] : c.op = "create"}
        BY DEF FewerLeft
      <3>2. /\ IsFiniteSet({c \in todo[q] : c.op = "create"})
            /\ \A c \in todo[q] : c.op = "create" => c.at \in [DOMAIN NewDraft -> Nat]
        BY DEF SlotInv, SlotsRight
      <3> QED
        BY <3>1, <3>2, FS_Subset
    <2>4. \A q \in Run : /\ DOMAIN slots'[q] = {"held", "aimed"}
                         /\ slots'[q].held \cup slots'[q].aimed \subseteq Slot
                         /\ IsFiniteSet(slots'[q].held \cup slots'[q].aimed)
      BY DEF SlotInv, SlotsRight
    <2> HIDE DEF Lost
    <2> QED
      BY <2>1, <2>2, <2>3, <2>4 DEF SlotsRight
  <1>4. ASSUME NEW f \in Files', f.name \notin unsettled'
        PROVE  KnowsSlots(f)' /\ HasPlaces(f)'
    <2>1. /\ f \in Files /\ KnowsSlots(f) /\ HasPlaces(f)
      BY <1>4 DEF SlotInv, PlacesRight, Files
    <2>2. ASSUME NEW x \in Lost
          PROVE  /\ HasSlots(refs[x].owner) /\ made[refs[x].owner] = [file |-> f.name, run |-> refs[x].batch]
                 /\ refs[x].owner \in Transaction
                 /\ \A q \in Run : file[q] = f => ~Goes(q)
      <3>1. f.name \notin Beside(Lost)
        BY <1>4
      <3>2. x \in Lost \cap ApplyRefs
        OBVIOUS
      <3>3. refs[x].owner \in Transaction
        BY DEF ApplyRefs, TypeOK
      <3> HIDE DEF Lost
      <3> QED
        BY <2>1, <3>1, <3>2, <3>3 DEF Beside
    <2>3. \A x \in Lost : refs[x].owner \notin DOMAIN f.wants
      <3>1. TAKE x \in Lost
      <3>2. made[refs[x].owner] # None /\ made[refs[x].owner].file = f.name /\ refs[x].owner \in Transaction
        <4> DEFINE u == refs[x].owner
        <4>1. HasSlots(u) /\ made[u] = [file |-> f.name, run |-> refs[x].batch] /\ u \in Transaction
          BY <2>2
        <4> HIDE DEF u
        <4>2. made[u] # None /\ made[u].file = f.name
          BY <4>1 DEF HasSlots
        <4> QED
          BY <4>1, <4>2 DEF u
      <3>3. PICK r \in Run : file[r] = f /\ f # None
        BY <2>1 DEF Files
      <3>4. ~Reads(r, refs[x].owner)
        BY <3>2, <3>3 DEF SlotInv, FilesRight
      <3> QED
        BY <2>1, <3>3, <3>4, FilesAre DEF Reads, SlotInv
    <2>4. Theirs(f)' = Theirs(f)
      <3>1. {x \in ApplyRefs : refs[x].owner \in DOMAIN f.wants}'
            = {x \in ApplyRefs : refs[x].owner \in DOMAIN f.wants}
        BY <2>3 DEF Same
      <3> DEFINE T == {x \in ApplyRefs : refs[x].owner \in DOMAIN f.wants}
      <3>2. T' = T /\ T \subseteq ApplyRefs /\ T' \subseteq ApplyRefs'
        BY <3>1
      <3> HIDE DEF T
      <3>3. SlotsOf(T)' = SlotsOf(T)
        <4>1. (T \cap ApplyRefs)' = T \cap ApplyRefs
          BY <3>2
        <4>2. \A x \in T \cap ApplyRefs : refs'[x].key = refs[x].key /\ refs'[x].occurrence = refs[x].occurrence
          BY <3>2 DEF Same
        <4> QED
          BY <4>1, <4>2 DEF SlotsOf
      <3> QED
        BY <3>3 DEF Theirs, T
    <2>5. \A i : Aims(f, i)' = Aims(f, i) /\ Place(f, i)' = Place(f, i)
      BY <2>4, AimsOn
    <2>6. /\ Held' \subseteq Held
          /\ \A s \in Held \ Held' : \E x \in Lost : s = <<refs[x].key, refs[x].occurrence>>
      BY DEF Held, SlotsOf, Same
    <2>7. KnowsSlots(f)'
      <3>1. ASSUME NEW r \in Run, file[r] = f
            PROVE  Knows(r, f)'
        <4>1. Knows(r, f)
          BY <2>1, <3>1 DEF KnowsSlots
        <4>2. CASE Lost = {}
          <5>1. Held' = Held
            BY <2>6, <4>2
          <5> QED
            BY <2>5, <4>1, <5>1 DEF Knows, FewerLeft
        <4>3. CASE Lost # {}
          <5>1. phase[r] # "planned" /\ phase[r] # "applying"
            BY <2>2, <3>1, <4>3 DEF Goes
          <5> QED
            BY <2>5, <4>1, <5>1 DEF Knows, FewerLeft
        <4> QED
          BY <4>2, <4>3
      <3> QED
        BY <3>1 DEF KnowsSlots
    <2>8. ASSUME NEW t \in AddedBy(f)'
          PROVE  /\ t \in AddedBy(f) /\ OwnRefs(t)' = OwnRefs(t) /\ Homes(f, t)' = Homes(f, t)
                 /\ \A x \in OwnRefs(t) : x \notin Lost
      <3>1. t \in Transaction /\ made'[t] # None /\ made'[t].file = f.name
            /\ Cardinality(OwnRefs(t)') = Len(NewDraft)
        <4>1. t \in Transaction /\ HasSlots(t)' /\ made'[t].file = f.name
          BY DEF AddedBy
        <4>2. (RefsOf(t) \cap BatchRefs(made[t].run))' = OwnRefs(t)'
          BY DEF RefsOf, BatchRefs, OwnRefs, ApplyRefs
        <4> QED
          BY <4>1, <4>2 DEF HasSlots
      <3>2. /\ made'[t] = made[t] /\ OwnRefs(t)' = OwnRefs(t) \ Lost
            /\ Len(NewDraft) <= Cardinality(OwnRefs(t))
            /\ Cardinality(OwnRefs(t)) = Len(NewDraft) => OwnRefs(t)' = OwnRefs(t)
        BY <1>2, <3>1
      <3>3. Cardinality(OwnRefs(t)) <= Len(NewDraft) /\ Cardinality(OwnRefs(t)) \in Nat
            /\ Len(NewDraft) \in Nat
        BY <3>1, <3>2, OwnRefsAre, DraftIs DEF SlotInv, SlotsRight
      <3>4. Cardinality(OwnRefs(t)) = Len(NewDraft)
        BY <3>2, <3>3
      <3>5. t \in AddedBy(f)
        BY <3>1, <3>2, <3>4, AddedIs
      <3>6. OwnRefs(t)' = OwnRefs(t) /\ \A x \in OwnRefs(t) : x \notin Lost
        BY <3>2, <3>4
      <3> HIDE DEF Lost
      <3>7. SlotsOf(OwnRefs(t))' = SlotsOf(OwnRefs(t))
        <4>1. \A x \in OwnRefs(t) : x \in ApplyRefs /\ x \in ApplyRefs'
          BY <3>6 DEF OwnRefs
        <4>2. \A x \in OwnRefs(t) : refs'[x].key = refs[x].key /\ refs'[x].occurrence = refs[x].occurrence
          BY <4>1 DEF Same
        <4> QED
          BY <3>6, <4>1, <4>2 DEF SlotsOf
      <3>8. Homes(f, t)' = Homes(f, t)
        BY <2>5, <3>7 DEF Homes
      <3> QED
        BY <3>5, <3>6, <3>8
    <2>9. HasPlaces(f)'
      <3>1. ASSUME NEW t \in AddedBy(f)', NEW i \in Homes(f, t)'
            PROVE  Aims(f, i)' \subseteq Held'
        <4>1. t \in AddedBy(f) /\ i \in Homes(f, t) /\ Aims(f, i) \subseteq Held
          BY <2>1, <2>8 DEF HasPlaces
        <4>2. ASSUME NEW s \in Aims(f, i), s \notin Held'
              PROVE  FALSE
          <5>1. PICK x \in Lost : s = <<refs[x].key, refs[x].occurrence>>
            BY <2>6, <4>1, <4>2
          <5> DEFINE u == refs[x].owner
          <5>2. HasSlots(u) /\ made[u] = [file |-> f.name, run |-> refs[x].batch] /\ u \in Transaction
            BY <2>2
          <5>3. x \in OwnRefs(u)
            BY <5>2 DEF OwnRefs
          <5>4. u \in AddedBy(f)
            BY <5>2 DEF AddedBy
          <5>5. u # t
            BY <2>8, <5>3
          <5>6. s \in SlotsOf(OwnRefs(u))
            BY <5>1, <5>2, <5>3, OwnRefsAre
          <5>7. i \in Homes(f, u)
            BY <4>1, <4>2, <5>6 DEF Homes
          <5> QED
            BY <2>1, <4>1, <5>4, <5>5, <5>7 DEF HasPlaces
        <4> QED
          BY <2>5, <4>2
      <3>2. \A t \in AddedBy(f)' : Homes(f, t)' # {}
        BY <2>1, <2>8 DEF HasPlaces
      <3>3. \A t \in AddedBy(f)' : \A u \in AddedBy(f)' \ {t} : Homes(f, t)' \cap Homes(f, u)' = {}
        BY <2>1, <2>8 DEF HasPlaces
      <3> QED
        BY <3>1, <3>2, <3>3 DEF HasPlaces
    <2> QED
      BY <2>7, <2>9
  <1> QED
    BY <1>1, <1>3, <1>4 DEF SlotInv, PlacesRight

\* Rows may let go of their legs, and an import's rows may come.
LEMMA RowsStay ==
    ASSUME TypeOK, LegInv, SlotInv, TypeOK', UNCHANGED <<phase, file, slots>>, FewerLeft,
           NewDraft' = NewDraft,
           \A x \in Ref : \/ refs'[x] = refs[x]
                          \/ x \in Rows /\ Same(refs'[x], refs[x])
                          \/ x \notin Rows /\ refs'[x].importer = "bank",
           \A t \in Transaction : made'[t] = made[t] \/ made'[t] = None,
           unsettled \subseteq unsettled'
    PROVE  SlotInv'
  <1>1. ApplyRefs \subseteq Ref /\ ApplyRefs' \subseteq Ref
    BY DEF ApplyRefs, Rows, TypeOK
  <1>2. ASSUME NEW x \in Ref
        PROVE  /\ x \in ApplyRefs <=> refs[x].importer = "bc-apply"
               /\ x \in ApplyRefs' <=> refs'[x].importer = "bc-apply"
    BY RowIs DEF ApplyRefs, Rows, Row, NoRef, TypeOK
  <1>3. ASSUME NEW x \in Ref
        PROVE  x \in ApplyRefs' <=> x \in ApplyRefs
    <2>1. CASE refs'[x] = refs[x]
      BY <1>2, <2>1
    <2>2. CASE Same(refs'[x], refs[x])
      BY <1>2, <2>2 DEF Same
    <2>3. CASE x \notin Rows /\ refs'[x].importer = "bank"
      BY <1>2, <2>3 DEF ApplyRefs
    <2> QED
      BY <2>1, <2>2, <2>3
  <1>4. ApplyRefs' = ApplyRefs
    BY <1>1, <1>3
  <1>5. \A x \in ApplyRefs' : x \in ApplyRefs /\ Same(refs'[x], refs[x])
    <2>1. TAKE x \in ApplyRefs'
    <2>2. x \in Ref /\ x \in ApplyRefs /\ x \in Rows /\ DOMAIN refs[x] = Fields
      BY <1>1, <1>4 DEF ApplyRefs, LegInv, RowsWhole
    <2> QED
      BY <2>2 DEF Same
  <1>6. Beside(ApplyRefs \ ApplyRefs') = {}
    BY <1>4 DEF Beside
  <1> QED
    BY <1>5, <1>6, RowsGo

\* Rows of X go.
LEMMA RowsFreed ==
    ASSUME TypeOK, LegInv, SlotInv, TypeOK', UNCHANGED <<phase, file, slots>>, FewerLeft,
           NewDraft' = NewDraft, NEW X,
           \A x \in Ref : \/ refs'[x] = NoRef /\ (x \in Rows => x \in X)
                          \/ x \in Rows /\ Same(refs'[x], refs[x]),
           \A t \in Transaction : made'[t] = made[t] \/ made'[t] = None,
           unsettled' = unsettled \cup Beside(X)
    PROVE  SlotInv'
  <1>1. ApplyRefs \subseteq Ref /\ ApplyRefs' \subseteq Ref /\ ApplyRefs \subseteq Rows
    BY DEF ApplyRefs, Rows, TypeOK
  <1>2. ASSUME NEW x \in ApplyRefs'
        PROVE  x \in ApplyRefs /\ Same(refs'[x], refs[x])
    <2>1. x \in Ref /\ refs'[x] # NoRef /\ refs'[x].importer = "bc-apply"
      BY <1>1 DEF ApplyRefs, Rows, Row
    <2>2. x \in Rows /\ Same(refs'[x], refs[x])
      BY <2>1
    <2> QED
      BY <2>1, <2>2 DEF Same, ApplyRefs
  <1>3. ASSUME NEW x \in ApplyRefs \ ApplyRefs'
        PROVE  x \in X
    <2>1. x \in Ref /\ x \in Rows /\ refs[x].importer = "bc-apply"
      BY <1>1 DEF ApplyRefs
    <2>2. CASE Same(refs'[x], refs[x])
      <3>1. refs'[x].importer = "bc-apply"
        BY <2>1, <2>2 DEF Same
      <3>2. refs'[x] # NoRef
        BY <3>1, RowIs
      <3>3. x \in ApplyRefs'
        BY <2>1, <3>1, <3>2 DEF ApplyRefs, Rows, Row, TypeOK
      <3> QED
        BY <3>3
    <2> QED
      BY <2>1, <2>2
  <1>4. Beside(ApplyRefs \ ApplyRefs') \subseteq Beside(X)
    BY <1>3 DEF Beside
  <1> QED
    BY <1>2, <1>4, RowsGo

LEMMA ChangeKeeps ==
    ASSUME Change
    PROVE  UNCHANGED <<phase, file, slots>> /\ FewerLeft /\ NewDraft' = NewDraft
  BY DEF Change, runs, NewDraft, FewerLeft

LEMMA TombstonedIs ==
    ASSUME LegInv, NEW P, NEW x \in Ref
    PROVE  Tombstoned(P)[x] = refs[x] \/ (x \in Rows /\ Same(Tombstoned(P)[x], refs[x]))
  <1>1. CASE x \in RefsOn(P)
    <2>1. x \in Rows /\ Tombstoned(P)[x] = [refs[x] EXCEPT !.leg = None] /\ DOMAIN refs[x] = Fields
      BY <1>1 DEF Tombstoned, RefsOn, LegInv, RowsWhole
    <2>2. Same([refs[x] EXCEPT !.leg = None], refs[x])
      BY <2>1, Unnamed
    <2> QED
      BY <2>1, <2>2
  <1> QED
    BY <1>1 DEF Tombstoned

LEMMA WithoutPlaces ==
    ASSUME TypeOK, LegInv, SlotInv, TypeOK', UNCHANGED <<phase, file, slots>>, FewerLeft,
           NewDraft' = NewDraft, NEW X, refs' = Without(X), unsettled' = unsettled \cup Beside(X),
           \A u \in Transaction : made'[u] = made[u] \/ made'[u] = None
    PROVE  SlotInv'
  <1>1. ASSUME NEW x \in Ref
        PROVE  \/ refs'[x] = NoRef /\ (x \in Rows => x \in X)
               \/ x \in Rows /\ Same(refs'[x], refs[x])
    <2>1. CASE x \in X
      BY <2>1 DEF Without
    <2>2. CASE x \notin X /\ x \in Rows
      <3>1. refs'[x] = refs[x] /\ DOMAIN refs[x] = Fields
        BY <2>2 DEF Without, LegInv, RowsWhole
      <3> QED
        BY <2>2, <3>1 DEF Same
    <2>3. CASE x \notin X /\ x \notin Rows
      BY <2>3 DEF Without, Rows, Row, TypeOK
    <2> QED
      BY <2>1, <2>2, <2>3
  <1> QED
    BY <1>1, RowsFreed

LEMMA OrphanedSame ==
    ASSUME TypeOK, LegInv, NEW t \in Transaction, NEW x \in Ref
    PROVE  Orphaned(t)[x] = refs[x] \/ (x \in Rows /\ Same(Orphaned(t)[x], refs[x]))
  <1>1. CASE x \in RefsOf(t)
    <2>1. Orphaned(t)[x] = [refs[x] EXCEPT !.leg = None, !.live = FALSE] /\ x \in Rows
      BY <1>1 DEF Orphaned, RefsOf
    <2>2. DOMAIN refs[x] = Fields
      BY <2>1 DEF LegInv, RowsWhole
    <2>3. Same([refs[x] EXCEPT !.leg = None, !.live = FALSE], refs[x])
      BY <2>2, Unnamed
    <2> QED
      BY <2>1, <2>3
  <1> QED
    BY <1>1 DEF Orphaned

LEMMA EditsPlace ==
    ASSUME TypeOK, LegInv, SlotInv, TypeOK',
           (\E t \in Transaction : EditByUser(t)) \/ (\E e \in Editor : WriteEdit(e))
    PROVE  SlotInv'
  <1>1. PICK t \in Transaction, legs \in Seq(Leg) : WriteLegs(t, legs)
    BY EditsWrite
  <1>2. Change /\ refs' = Tombstoned(Ids(stored[t].legs) \ Ids(legs)) /\ UNCHANGED <<made, unsettled>>
    BY <1>1 DEF WriteLegs
  <1> QED
    BY <1>2, ChangeKeeps, TombstonedIs, RowsStay

LEMMA UserActsPlace ==
    ASSUME TypeOK, LegInv, SlotInv, TypeOK', NEW t \in Transaction,
           \/ EditByUser(t)
           \/ \E i \in 1 .. Len(stored[t].legs), line \in Line : Adopt(t, i, line)
           \/ \E m \in Mark : Reconcile(t, m)
           \/ DeleteKeeping(t) \/ DeleteForgetting(t)
    PROVE  SlotInv'
  <1>2. CASE EditByUser(t)
    BY <1>2, EditsPlace
  <1>3. ASSUME NEW i \in 1 .. Len(stored[t].legs), NEW line \in Line, Adopt(t, i, line)
        PROVE  SlotInv'
    <2> DEFINE n == Nth(FreshRefs, 1)
               row == [importer |-> "bank", key |-> line, occurrence |-> 0, owner |-> t,
                       leg |-> stored[t].legs[i].id, live |-> TRUE, batch |-> None]
    <2>1. /\ Change /\ FreshRefs # {} /\ refs' = [refs EXCEPT ![n] = row]
          /\ UNCHANGED <<made, unsettled>>
      BY <1>3 DEF Adopt
    <2>2. n \in FreshRefs
      BY <2>1, Minted, FirstIs
    <2>3. n \in Ref /\ n \notin Rows
      BY <2>2, FreshIs
    <2>4. row.importer = "bank"
      OBVIOUS
    <2> HIDE DEF n, row
    <2>5. \A x \in Ref : refs'[x] = refs[x] \/ (x \notin Rows /\ refs'[x].importer = "bank")
      BY <2>1, <2>3, <2>4 DEF TypeOK
    <2> QED
      BY <2>1, <2>5, ChangeKeeps, RowsStay
  <1>4. CASE \E m \in Mark : Reconcile(t, m)
    <2>1. Change /\ UNCHANGED <<refs, made, unsettled>>
      BY <1>4 DEF Reconcile
    <2> QED
      BY <2>1, ChangeKeeps, RowsStay
  <1>5. CASE DeleteKeeping(t)
    <2>1. Change /\ refs' = Orphaned(t) /\ UNCHANGED <<made, unsettled>>
      BY <1>5 DEF DeleteKeeping
    <2>2. \A x \in Ref : refs'[x] = refs[x] \/ (x \in Rows /\ Same(refs'[x], refs[x]))
      BY <2>1, OrphanedSame
    <2> QED
      BY <2>1, <2>2, ChangeKeeps, RowsStay
  <1>6. CASE DeleteForgetting(t)
    <2>1. /\ Change /\ refs' = Without(RefsOf(t)) /\ unsettled' = unsettled \cup Beside(RefsOf(t))
          /\ \A u \in Transaction : made'[u] = made[u] \/ made'[u] = None
      BY <1>6 DEF DeleteForgetting, TypeOK
    <2> QED
      BY <2>1, ChangeKeeps, WithoutPlaces
  <1> QED
    BY <1>2, <1>3, <1>4, <1>5, <1>6

LEMMA FreeSlotPlaces ==
    ASSUME TypeOK, LegInv, SlotInv, TypeOK', NEW x \in Ref, FreeSlot(x)
    PROVE  SlotInv'
  <1>1. /\ Change /\ refs' = Without({x}) /\ unsettled' = unsettled \cup Beside({x})
        /\ UNCHANGED made
    BY DEF FreeSlot
  <1> QED
    BY <1>1, ChangeKeeps, WithoutPlaces

LEMMA DiscardPlaces ==
    ASSUME TypeOK, LegInv, SlotInv, TypeOK', NEW b \in Run, Discard(b)
    PROVE  SlotInv'
  <1> DEFINE X == {x \in Rows : refs'[x] = NoRef}
  <1>1. /\ UNCHANGED <<phase, file, todo, slots, scope>> /\ unsettled' = unsettled \cup Beside(X)
        /\ \A t \in Transaction : made'[t] = made[t] \/ made'[t] = None
    BY DEF Discard, runs, TypeOK
  <1>2. NewDraft' = NewDraft /\ FewerLeft
    BY <1>1 DEF NewDraft, FewerLeft
  <1>3. ASSUME NEW x \in Ref
        PROVE  \/ refs'[x] = NoRef /\ (x \in Rows => x \in X)
               \/ x \in Rows /\ Same(refs'[x], refs[x])
    <2>1. refs'[x] = RefAfter(b, x)
      BY DEF Discard
    <2>2. CASE refs'[x] = NoRef
      BY <2>2
    <2>3. CASE refs'[x] # NoRef
      BY <2>1, <2>3, RefAfterIs
    <2> QED
      BY <2>2, <2>3
  <1> HIDE DEF X
  <1> QED
    BY <1>1, <1>2, <1>3, RowsFreed

-----------------------------------------------------------------------------
(* Runs that write nothing know their slots.                               *)

\* What r holds, aims at and plans is of slots.
SlotsRightOf(r) ==
    /\ DOMAIN slots[r] = {"held", "aimed"}
    /\ slots[r].held \cup slots[r].aimed \subseteq Slot
    /\ IsFiniteSet(slots[r].held \cup slots[r].aimed)
    /\ IsFiniteSet({a \in todo[r] : a.op = "create"})
    /\ \A a \in todo[r] : a.op = "create" => a.at \in [DOMAIN NewDraft -> Nat]

LEMMA TablesStay ==
    ASSUME UNCHANGED <<refs, made, scope>>
    PROVE  /\ ApplyRefs' = ApplyRefs /\ Held' = Held /\ NewDraft' = NewDraft
           /\ \A t : OwnRefs(t)' = OwnRefs(t) /\ SlotsOf(OwnRefs(t))' = SlotsOf(OwnRefs(t))
           /\ \A f : Theirs(f)' = Theirs(f) /\ AddedBy(f)' = AddedBy(f)
           /\ \A f, i : Aims(f, i)' = Aims(f, i) /\ Place(f, i)' = Place(f, i)
           /\ \A f, t : Homes(f, t)' = Homes(f, t)
  <1>1. ApplyRefs' = ApplyRefs /\ NewDraft' = NewDraft
    BY DEF ApplyRefs, Rows, Row, NewDraft
  <1>2. Held' = Held
    BY <1>1 DEF Held, SlotsOf
  <1>3. \A t : OwnRefs(t)' = OwnRefs(t)
    BY <1>1 DEF OwnRefs
  <1>4. \A t : SlotsOf(OwnRefs(t))' = SlotsOf(OwnRefs(t))
    BY <1>1, <1>3 DEF SlotsOf
  <1>5. \A f : Theirs(f)' = Theirs(f)
    BY <1>1 DEF Theirs, SlotsOf
  <1>6. \A f : AddedBy(f)' = AddedBy(f)
    BY <1>1 DEF AddedBy, HasSlots, RefsOf, BatchRefs, Rows, Row
  <1>7. \A f, i : Aims(f, i)' = Aims(f, i) /\ Place(f, i)' = Place(f, i)
    BY <1>1, <1>5 DEF Aims, Place
  <1>8. \A f, t : Homes(f, t)' = Homes(f, t)
    BY <1>4, <1>7 DEF Homes
  <1> QED
    BY <1>1, <1>2, <1>3, <1>4, <1>5, <1>6, <1>7, <1>8

LEMMA OneRun ==
    ASSUME TypeOK, SlotInv, NEW r \in Run, UNCHANGED <<refs, scope, made, unsettled>>,
           \A q \in Run \ {r} : /\ phase'[q] = phase[q] /\ file'[q] = file[q]
                                /\ todo'[q] = todo[q] /\ slots'[q] = slots[q],
           FilesRight', SlotsRightOf(r)',
           \A f : file'[r] = f /\ f.name \notin unsettled => Knows(r, f)',
           \A f \in Files' \ Files : AddedBy(f) = {}
    PROVE  SlotInv'
  <1>1. SlotsRight'
    <2>1. ASSUME NEW q \in Run
          PROVE  SlotsRightOf(q)'
      <3>1. CASE q # r
        BY <3>1, TablesStay DEF SlotInv, SlotsRight, SlotsRightOf
      <3> QED
        BY <3>1
    <2>2. \A q \in Run : SlotsRightOf(q)'
      BY <2>1
    <2>3. \A t \in Transaction : made'[t] # None => Cardinality(OwnRefs(t)') <= Len(NewDraft')
      BY TablesStay DEF SlotInv, SlotsRight
    <2>4. \A x \in ApplyRefs' : <<refs'[x].key, refs'[x].occurrence>> \in Slot
      BY TablesStay DEF SlotInv, SlotsRight
    <2> QED
      BY <2>2, <2>3, <2>4 DEF SlotsRight, SlotsRightOf
  <1>2. ASSUME NEW f \in Files', f.name \notin unsettled'
        PROVE  KnowsSlots(f)' /\ HasPlaces(f)'
    <2>1. f \in Files => KnowsSlots(f) /\ HasPlaces(f)
      BY <1>2 DEF SlotInv, PlacesRight
    <2>2. HasPlaces(f)'
      <3>1. CASE f \in Files
        BY <2>1, <3>1, TablesStay DEF HasPlaces
      <3>2. CASE f \notin Files
        BY <3>2, TablesStay DEF HasPlaces
      <3> QED
        BY <3>1, <3>2
    <2>3. ASSUME NEW q \in Run, file'[q] = f
          PROVE  Knows(q, f)'
      <3>1. CASE q = r
        BY <1>2, <2>3, <3>1
      <3>2. CASE q # r
        <4>1. file[q] = f /\ f \in Files
          BY <1>2, <2>3, <3>2 DEF Files
        <4>2. Knows(q, f)
          BY <2>1, <4>1 DEF KnowsSlots
        <4> QED
          BY <3>2, <4>2, TablesStay DEF Knows
      <3> QED
        BY <3>1, <3>2
    <2> QED
      BY <2>2, <2>3 DEF KnowsSlots
  <1> QED
    BY <1>1, <1>2 DEF SlotInv, PlacesRight

\* A run that goes on with its file.
LEMMA SameFile ==
    ASSUME TypeOK, SlotInv, NEW r \in Run, UNCHANGED <<tables, file, scope, history>>,
           \A q \in Run \ {r} : phase'[q] = phase[q] /\ todo'[q] = todo[q] /\ slots'[q] = slots[q],
           phase[r] \in {"applying", "over"} => phase'[r] \in {"applying", "over"},
           SlotsRightOf(r)',
           \A f \in Files : file[r] = f /\ f.name \notin unsettled => Knows(r, f)',
           file[r] # None
    PROVE  SlotInv'
  <1>1. UNCHANGED <<refs, scope, made, unsettled>>
    BY DEF tables, history
  <1>2. Files' = Files
    BY DEF Files
  <1>3. \A t \in Transaction : made[t] # None => made[t].run \in Run
    BY DEF TypeOK, Maker
  <1>4. FilesRight'
    BY <1>1, <1>3 DEF SlotInv, FilesRight, Reads
  <1>5. \A f : file'[r] = f /\ f.name \notin unsettled => Knows(r, f)'
    BY DEF Files
  <1> QED
    BY <1>1, <1>2, <1>4, <1>5, OneRun

\* Nobody made anything for a file yet to be exported.
LEMMA NothingMade ==
    ASSUME TypeOK, FilesRight, NEW t \in Transaction, made[t] # None
    PROVE  /\ made[t].run \in Run /\ made[t].file \in Run
           /\ file[made[t].file] # None /\ file[made[t].file] = file[made[t].run]
           /\ phase[made[t].run] \in {"applying", "over"}
  <1>1. made[t].run \in Run /\ made[t].file \in Run
    BY DEF TypeOK, Maker
  <1>2. phase[made[t].run] \in {"applying", "over"} /\ file[made[t].run].name = made[t].file
    BY DEF FilesRight
  <1>3. file[made[t].run] # None
    BY <1>1, <1>2 DEF TypeOK
  <1> QED
    BY <1>1, <1>2, <1>3 DEF FilesRight

LEMMA IdleIs ==
    ASSUME TypeOK, LegInv, NEW r \in Run, phase[r] = "idle"
    PROVE  file[r] = None /\ todo[r] = {}
  BY DEF TypeOK, LegInv, RunsWrite, RunRight

LEMMA ExportFilePlaces ==
    ASSUME TypeOK, LegInv, SlotInv, NEW r \in Run, NEW T \in SUBSET Transaction,
           NEW n \in 0 .. scope.twins, NEW wants, ExportFile(r, T, wants, n)
    PROVE  SlotInv'
  <1>1. PICK g : g = [name |-> r, snap |-> [t \in T |-> stored[t]], wants |-> wants, new |-> n]
    OBVIOUS
  <1>2. /\ UNCHANGED <<refs, scope, made, unsettled, todo, slots>> /\ phase[r] = "idle"
        /\ phase' = [phase EXCEPT ![r] = "drafted"] /\ file' = [file EXCEPT ![r] = g]
    BY <1>1 DEF ExportFile, tables, history
  <1>3. file[r] = None /\ todo[r] = {}
    BY <1>2, IdleIs
  <1>4. DOMAIN file = Run /\ DOMAIN phase = Run /\ file'[r] = g /\ phase'[r] = "drafted"
        /\ \A q \in Run \ {r} : file'[q] = file[q] /\ phase'[q] = phase[q]
    BY <1>2 DEF TypeOK
  <1>5. g.name = r /\ g.new \in Nat /\ FilesRight
    <2>1. scope.twins \in Nat
      BY DEF TypeOK
    <2> QED
      BY <1>1, <2>1 DEF SlotInv
  <1>6. \A t \in Transaction : made[t] # None => made[t].file # r /\ made[t].run # r
    BY <1>2, <1>3, <1>5, NothingMade
  <1>7. FilesRight'
    <2>1. \A q \in Run : file'[q] # None => file'[q].new \in Nat /\ file'[file'[q].name] = file'[q]
      <3>1. TAKE q \in Run
      <3>2. CASE q = r
        BY <1>4, <1>5, <3>2
      <3>3. CASE q # r /\ file[q] # None
        <4>1. file[q].new \in Nat /\ file[file[q].name] = file[q] /\ file[q].name \in Run
          BY <1>5, <3>3 DEF FilesRight, TypeOK
        <4>2. file[q].name # r
          BY <1>3, <3>3, <4>1
        <4> QED
          BY <1>4, <3>3, <4>1, <4>2
      <3> QED
        BY <1>4, <3>2, <3>3
    <2>2. ASSUME NEW t \in Transaction, made'[t] # None
          PROVE  /\ phase'[made'[t].run] \in {"applying", "over"}
                 /\ file'[made'[t].run].name = made'[t].file
                 /\ \A q \in Run : file'[q] # None /\ file'[q].name = made'[t].file => ~Reads(q, t)'
      <3>1. made'[t] = made[t] /\ made[t] # None /\ made[t].run \in Run
        BY <1>2, <1>5, <2>2, NothingMade
      <3>2. made[t].file # r /\ made[t].run # r
        BY <1>6, <3>1
      <3>3. phase[made[t].run] \in {"applying", "over"} /\ file[made[t].run].name = made[t].file
        BY <1>5, <3>1 DEF FilesRight
      <3>4. ASSUME NEW q \in Run, file'[q] # None, file'[q].name = made'[t].file
            PROVE  ~Reads(q, t)'
        <4>1. q # r
          BY <1>4, <1>5, <3>1, <3>2, <3>4
        <4>2. ~Reads(q, t)
          BY <1>4, <1>5, <3>1, <3>4, <4>1 DEF FilesRight
        <4> QED
          BY <1>4, <4>1, <4>2 DEF Reads
      <3> QED
        BY <1>4, <3>1, <3>2, <3>3, <3>4
    <2> QED
      BY <2>1, <2>2 DEF FilesRight
  <1>8. SlotsRightOf(r)'
    BY <1>2, TablesStay DEF SlotInv, SlotsRight, SlotsRightOf
  <1>9. \A f : file'[r] = f /\ f.name \notin unsettled => Knows(r, f)'
    BY <1>2, <1>3, <1>4 DEF Knows
  <1>10. \A f \in Files' \ Files : AddedBy(f) = {}
    <2>1. ASSUME NEW f \in Files' \ Files
          PROVE  f = g
      BY <1>4, <2>1 DEF Files
    <2>2. AddedBy(g) = {}
      BY <1>5, <1>6 DEF AddedBy, HasSlots
    <2> QED
      BY <2>1, <2>2
  <1>11. \A q \in Run \ {r} : /\ phase'[q] = phase[q] /\ file'[q] = file[q]
                              /\ todo'[q] = todo[q] /\ slots'[q] = slots[q]
    BY <1>2, <1>4
  <1> QED
    BY <1>2, <1>7, <1>8, <1>9, <1>10, <1>11, OneRun

LEMMA TakeFilePlaces ==
    ASSUME TypeOK, LegInv, SlotInv, NEW r \in Run, NEW p \in Run, TakeFile(r, p)
    PROVE  SlotInv'
  <1>1. /\ UNCHANGED <<refs, scope, made, unsettled, todo, slots>> /\ phase[r] = "idle"
        /\ phase' = [phase EXCEPT ![r] = "drafted"] /\ file' = [file EXCEPT ![r] = file[p]]
        /\ phase[p] # "idle"
    BY DEF TakeFile, tables, history
  <1>2. file[r] = None /\ todo[r] = {} /\ file[p] # None
    BY <1>1, IdleIs DEF TypeOK
  <1>3. DOMAIN file = Run /\ DOMAIN phase = Run /\ file'[r] = file[p] /\ phase'[r] = "drafted"
        /\ \A q \in Run \ {r} : file'[q] = file[q] /\ phase'[q] = phase[q]
    BY <1>1 DEF TypeOK
  <1>4. FilesRight
    BY DEF SlotInv
  <1>5. \A t \in Transaction : made[t] # None => made[t].file # r /\ made[t].run # r
    BY <1>1, <1>2, <1>4, NothingMade
  <1>6. \A q \in Run : file[q] # None => file[q].name # r /\ file[q].name \in Run
    BY <1>2, <1>4 DEF FilesRight, TypeOK
  <1>7. FilesRight'
    <2>1. \A q \in Run : file'[q] # None => file'[q].new \in Nat /\ file'[file'[q].name] = file'[q]
      BY <1>2, <1>3, <1>4, <1>6 DEF FilesRight
    <2>2. ASSUME NEW t \in Transaction, made'[t] # None
          PROVE  /\ phase'[made'[t].run] \in {"applying", "over"}
                 /\ file'[made'[t].run].name = made'[t].file
                 /\ \A q \in Run : file'[q] # None /\ file'[q].name = made'[t].file => ~Reads(q, t)'
      <3>1. made'[t] = made[t] /\ made[t] # None /\ made[t].run \in Run
        BY <1>1, <1>4, <2>2, NothingMade
      <3>2. phase[made[t].run] \in {"applying", "over"} /\ file[made[t].run].name = made[t].file
            /\ made[t].run # r
        BY <1>4, <1>5, <3>1 DEF FilesRight
      <3>3. ASSUME NEW q \in Run, file'[q] # None, file'[q].name = made'[t].file
            PROVE  ~Reads(q, t)'
        <4>1. PICK u \in Run : file'[q] = file[u]
          BY <1>3
        <4>2. ~Reads(u, t)
          BY <1>4, <3>1, <3>3, <4>1 DEF FilesRight
        <4> QED
          BY <4>1, <4>2 DEF Reads
      <3> QED
        BY <1>3, <3>1, <3>2, <3>3
    <2> QED
      BY <2>1, <2>2 DEF FilesRight
  <1>8. SlotsRightOf(r)'
    BY <1>1, TablesStay DEF SlotInv, SlotsRight, SlotsRightOf
  <1>9. \A f : file'[r] = f /\ f.name \notin unsettled => Knows(r, f)'
    BY <1>1, <1>2, <1>3 DEF Knows
  <1>10. Files' \subseteq Files
    BY <1>3 DEF Files
  <1>11. \A q \in Run \ {r} : /\ phase'[q] = phase[q] /\ file'[q] = file[q]
                              /\ todo'[q] = todo[q] /\ slots'[q] = slots[q]
    BY <1>1, <1>3
  <1> QED
    BY <1>1, <1>7, <1>8, <1>9, <1>10, <1>11, OneRun

LEMMA PlanFilePlaces ==
    ASSUME TypeOK, LegInv, SlotInv, NEW r \in Run, PlanFile(r)
    PROVE  SlotInv'
  <1> PICK f : f = file[r]
    OBVIOUS
  <1>1. /\ phase[r] = "drafted" /\ phase' = [phase EXCEPT ![r] = "planned"]
        /\ todo' = [todo EXCEPT ![r] = Edits(f) \cup Deletions(f) \cup Creates(f)]
        /\ UNCHANGED <<tables, file, slots, scope, history>>
    BY DEF PlanFile
  <1>2. f \in Files /\ f # None
    BY <1>1 DEF Files, TypeOK
  <1>3. DOMAIN todo = Run /\ DOMAIN phase = Run /\ phase'[r] = "planned"
        /\ todo'[r] = Edits(f) \cup Deletions(f) \cup Creates(f)
        /\ \A q \in Run \ {r} : phase'[q] = phase[q] /\ todo'[q] = todo[q] /\ slots'[q] = slots[q]
    BY <1>1 DEF TypeOK
  <1>4. UNCHANGED <<refs, made, scope>>
    BY <1>1 DEF tables, history
  <1>5. \A i \in 1 .. f.new : i \in Nat \ {0}
    BY <1>2, FilesAre DEF SlotInv
  <1>6. f.new \in Nat
    BY <1>2, FilesAre DEF SlotInv
  <1> DEFINE N == {n \in 1 .. f.new : ~StoredWhole(Positions(f, n))}
             places == {Positions(f, i) : i \in N}
  <1>7. Creates(f) = {[op |-> "create", at |-> at] : at \in places}
    BY DEF Creates
  <1>8. {a \in todo'[r] : a.op = "create"} = Creates(f)
    BY <1>3 DEF Edits, Deletions, Creates
  <1>9. IsFiniteSet(Creates(f))
    <2>1. IsFiniteSet(N)
      <3>1. IsFiniteSet(1 .. f.new) /\ N \in SUBSET (1 .. f.new)
        BY <1>6, Counting
      <3> QED
        BY <3>1, FS_Subset
    <2> DEFINE g == [i \in N |-> Positions(f, i)]
               h == [at \in places |-> [op |-> "create", at |-> at]]
    <2>2. DOMAIN g = N /\ DOMAIN h = places /\ places = {g[i] : i \in N}
          /\ Creates(f) = {h[at] : at \in places}
      BY <1>7
    <2> HIDE DEF N, places, g, h
    <2>3. IsFiniteSet(places)
      BY <2>1, <2>2, FiniteImage
    <2> QED
      BY <2>2, <2>3, FiniteImage
  <1>10. ASSUME NEW i \in 1 .. f.new
         PROVE  Positions(f, i) \in [DOMAIN NewDraft -> Nat]
    <2>1. Theirs(f) \subseteq Slot /\ IsFiniteSet(Theirs(f))
      BY SlotsType DEF Theirs, SlotInv
    <2> QED
      BY <1>5, <2>1, DraftIs, PlaceIs, PositionsAre DEF Place
  <1>11. \A a \in Creates(f) : \E i \in 1 .. f.new : a.at = Positions(f, i)
    BY <1>7
  <1>12. SlotsRightOf(r)'
    <2>1. slots' = slots /\ NewDraft' = NewDraft
      BY <1>1, <1>4, TablesStay
    <2>2. /\ slots[r].held \cup slots[r].aimed \subseteq Slot
          /\ IsFiniteSet(slots[r].held \cup slots[r].aimed) /\ DOMAIN slots[r] = {"held", "aimed"}
      BY DEF SlotInv, SlotsRight
    <2>3. \A a \in todo'[r] : a.op = "create" => a.at \in [DOMAIN NewDraft -> Nat]
      BY <1>8, <1>10, <1>11
    <2> QED
      BY <1>8, <1>9, <2>1, <2>2, <2>3 DEF SlotsRightOf
  <1>13. Knows(r, f)'
    <2>1. ASSUME NEW i \in 1 .. f.new
          PROVE  \/ Aims(f, i) \subseteq Held
                 \/ \E a \in todo'[r] : a.op = "create" /\ a.at = Place(f, i)
      <3>1. CASE StoredWhole(Positions(f, i))
        BY <3>1, PositionsAre DEF StoredWhole, Held
      <3>2. CASE ~StoredWhole(Positions(f, i))
        <4>1. [op |-> "create", at |-> Positions(f, i)] \in Creates(f)
          BY <1>7, <3>2
        <4>2. [op |-> "create", at |-> Positions(f, i)].at = Place(f, i)
          BY PositionsAre
        <4> QED
          BY <1>3, <4>1, <4>2
      <3> QED
        BY <3>1, <3>2
    <2>2. \A a \in todo'[r] : a.op = "create" => \E i \in 1 .. f.new : a.at = Place(f, i)
      BY <1>8, <1>11, PositionsAre
    <2>3. /\ Held' = Held
          /\ \A i : Aims(f, i)' = Aims(f, i) /\ Place(f, i)' = Place(f, i)
      BY <1>4, TablesStay
    <2> QED
      BY <1>3, <2>1, <2>2, <2>3 DEF Knows
  <1> HIDE DEF N, places
  <1> QED
    BY <1>1, <1>2, <1>3, <1>12, <1>13, SameFile

LEMMA SlotsAtIs ==
    ASSUME TypeOK, NEW at \in [DOMAIN NewDraft -> Nat]
    PROVE  SlotsAt(at) \subseteq Slot /\ IsFiniteSet(SlotsAt(at))
  <1>1. NewDraft \in Seq(Value) /\ DOMAIN NewDraft = 1 .. Len(NewDraft) /\ Len(NewDraft) \in Nat
    BY DraftIs
  <1> DEFINE g == [k \in DOMAIN NewDraft |-> <<NewDraft[k], at[k]>>]
  <1>2. DOMAIN g = DOMAIN NewDraft /\ SlotsAt(at) = {g[k] : k \in DOMAIN NewDraft}
    BY DEF SlotsAt
  <1>3. IsFiniteSet(DOMAIN NewDraft)
    BY <1>1, Counting
  <1>4. SlotsAt(at) \subseteq Slot
    BY <1>1 DEF SlotsAt, Slot
  <1> HIDE DEF g
  <1> QED
    BY <1>2, <1>3, <1>4, FiniteImage

LEMMA StartApplyPlaces ==
    ASSUME TypeOK, LegInv, SlotInv, NEW r \in Run, StartApply(r)
    PROVE  SlotInv'
  <1> DEFINE W == {w \in todo[r] : w.op = "create"}
             aimed == UNION {SlotsAt(a.at) : a \in W}
  <1>1. /\ phase[r] = "planned" /\ phase' = [phase EXCEPT ![r] = "applying"]
        /\ slots' = [slots EXCEPT ![r] = [held |-> Held, aimed |-> aimed]]
        /\ UNCHANGED <<tables, file, todo, scope, history>>
    BY DEF StartApply, Held
  <1>2. /\ DOMAIN slots = Run /\ DOMAIN phase = Run /\ phase'[r] = "applying"
        /\ DOMAIN slots'[r] = {"held", "aimed"} /\ slots'[r].held = Held /\ slots'[r].aimed = aimed
        /\ \A q \in Run \ {r} : phase'[q] = phase[q] /\ todo'[q] = todo[q] /\ slots'[q] = slots[q]
    BY <1>1 DEF TypeOK
  <1>3. UNCHANGED <<refs, made, scope>> /\ file[r] # None
    BY <1>1 DEF tables, history, TypeOK
  <1>4. SlotsRightOf(r)
    BY DEF SlotInv, SlotsRight, SlotsRightOf
  <1>5. aimed \subseteq Slot /\ IsFiniteSet(aimed)
    <2>1. ASSUME NEW a \in W
          PROVE  SlotsAt(a.at) \subseteq Slot /\ IsFiniteSet(SlotsAt(a.at))
      BY <1>4, SlotsAtIs DEF SlotsRightOf
    <2>2. IsFiniteSet(W)
      BY <1>4 DEF SlotsRightOf
    <2> DEFINE g == [a \in W |-> SlotsAt(a.at)]
               all == {SlotsAt(a.at) : a \in W}
    <2>3. DOMAIN g = W /\ all = {g[a] : a \in W}
      OBVIOUS
    <2>4. \A S \in all : IsFiniteSet(S)
      BY <2>1
    <2>5. aimed = UNION all
      OBVIOUS
    <2>6. aimed \subseteq Slot
      BY <2>1
    <2> HIDE DEF W, g, all, aimed
    <2>7. IsFiniteSet(all)
      BY <2>2, <2>3, FiniteImage
    <2> QED
      BY <2>4, <2>5, <2>6, <2>7, FS_UNION
  <1>6. Held \subseteq Slot /\ IsFiniteSet(Held)
    BY SlotsType DEF Held, SlotInv
  <1>7. SlotsRightOf(r)'
    <2>1. IsFiniteSet(Held \cup aimed)
      BY <1>5, <1>6, FS_Union
    <2>2. todo' = todo /\ NewDraft' = NewDraft
      BY <1>1, <1>3, TablesStay
    <2> HIDE DEF aimed, W
    <2> QED
      BY <1>2, <1>4, <1>5, <1>6, <2>1, <2>2 DEF SlotsRightOf
  <1>8. ASSUME NEW f \in Files, file[r] = f, f.name \notin unsettled
        PROVE  Knows(r, f)'
    <2>1. Knows(r, f)
      BY <1>8 DEF SlotInv, PlacesRight, KnowsSlots
    <2>2. /\ Held' = Held
          /\ \A i : Aims(f, i)' = Aims(f, i) /\ Place(f, i)' = Place(f, i)
      BY <1>3, TablesStay
    <2>3. ASSUME NEW i \in 1 .. f.new
          PROVE  Aims(f, i) \subseteq Held \cup aimed
      <3>1. CASE Aims(f, i) \subseteq Held
        BY <3>1
      <3>2. ASSUME NEW a \in todo[r], a.op = "create", a.at = Place(f, i)
            PROVE  Aims(f, i) \subseteq Held \cup aimed
        <4>1. SlotsAt(a.at) = Aims(f, i)
          BY <3>2, PositionsAre
        <4> QED
          BY <3>2, <4>1
      <3> QED
        BY <1>1, <2>1, <3>1, <3>2 DEF Knows
    <2> HIDE DEF aimed, W
    <2> QED
      BY <1>1, <1>2, <2>1, <2>2, <2>3 DEF Knows
  <1> HIDE DEF aimed, W
  <1> QED
    BY <1>1, <1>2, <1>3, <1>7, <1>8, SameFile

LEMMA NothingWrittenPlaces ==
    ASSUME TypeOK, LegInv, SlotInv, NEW r \in Run,
           \/ StartApply(r) \/ CloseBatch(r)
           \/ \E a \in todo[r] : LeaveAlone(r, a) \/ StopOnSlot(r, a)
    PROVE  SlotInv'
  <1>1. SlotsRightOf(r)
    BY DEF SlotInv, SlotsRight, SlotsRightOf
  <1>2. IsFiniteSet({}) /\ NoSlots.held \cup NoSlots.aimed = {}
        /\ DOMAIN NoSlots = {"held", "aimed"}
    BY FS_EmptySet DEF NoSlots
  <1>3. ASSUME CloseBatch(r) \/ \E a \in todo[r] : StopOnSlot(r, a)
        PROVE  SlotInv'
    <2>1. /\ phase[r] = "applying" /\ UNCHANGED <<tables, file, scope, history>>
          /\ phase'[r] = "over" /\ todo'[r] = {} /\ slots'[r] = NoSlots
          /\ \A q \in Run \ {r} : phase'[q] = phase[q] /\ todo'[q] = todo[q] /\ slots'[q] = slots[q]
      BY <1>3 DEF CloseBatch, StopOnSlot, At, TypeOK
    <2>2. SlotsRightOf(r)'
      <3>1. {a \in todo'[r] : a.op = "create"} = {}
        BY <2>1
      <3> QED
        BY <1>2, <2>1, <3>1 DEF SlotsRightOf
    <2>3. \A f : Knows(r, f)'
      BY <2>1 DEF Knows
    <2> QED
      BY <2>1, <2>2, <2>3, SameFile DEF TypeOK
  <1>4. ASSUME NEW a \in todo[r], LeaveAlone(r, a)
        PROVE  SlotInv'
    <2>1. /\ phase[r] = "applying" /\ UNCHANGED <<tables, phase, file, slots, scope, history>>
          /\ todo'[r] = todo[r] \ {a} /\ \A q \in Run \ {r} : todo'[q] = todo[q]
      BY <1>4 DEF LeaveAlone, At, Carried, TypeOK
    <2>2. UNCHANGED <<refs, made, scope>>
      BY <2>1 DEF tables, history
    <2>3. SlotsRightOf(r)'
      <3>1. {c \in todo'[r] : c.op = "create"} \in SUBSET {c \in todo[r] : c.op = "create"}
        BY <2>1
      <3>2. IsFiniteSet({c \in todo'[r] : c.op = "create"})
        BY <1>1, <3>1, FS_Subset DEF SlotsRightOf
      <3> QED
        BY <1>1, <2>1, <2>2, <3>2, TablesStay DEF SlotsRightOf
    <2>4. ASSUME NEW f \in Files, file[r] = f, f.name \notin unsettled
          PROVE  Knows(r, f)'
      <3>1. Knows(r, f)
        BY <2>4 DEF SlotInv, PlacesRight, KnowsSlots
      <3>2. /\ Held' = Held
            /\ \A i : Aims(f, i)' = Aims(f, i) /\ Place(f, i)' = Place(f, i)
        BY <2>2, TablesStay
      <3> QED
        BY <2>1, <3>1, <3>2 DEF Knows
    <2> QED
      BY <2>1, <2>3, <2>4, SameFile DEF TypeOK
  <1> QED
    BY <1>3, <1>4, StartApplyPlaces

-----------------------------------------------------------------------------
(* Claiming.                                                               *)

LEMMA GreatestIs ==
    ASSUME NEW S, S \subseteq Nat, IsFiniteSet(S), S # {}
    PROVE  \E m \in S : \A o \in S : o <= m
  <1> DEFINE m == Nth(S, Cardinality(S))
  <1>1. Cardinality(S) \in Nat /\ Cardinality(S) # 0
    BY FS_CardinalityType, FS_EmptySet
  <1>2. Cardinality(S) \in 1 .. Cardinality(S)
    BY <1>1
  <1>3. m \in S /\ Rank(S, m) = Cardinality(S)
    BY <1>2, NthIs
  <1> HIDE DEF m
  <1>4. \A o \in S : o <= m
    <2>1. TAKE o \in S
    <2>2. Rank(S, o) \in 1 .. Cardinality(S) /\ (m < o => Rank(S, m) < Rank(S, o))
      BY <1>3, RankGrows
    <2>3. ~(m < o)
      BY <1>1, <1>3, <2>2
    <2> QED
      BY <1>3, <2>3
  <1> QED
    BY <1>3, <1>4

\* The number after the greatest of K, or the first.
Beyond(K) == IF K = {} THEN 0 ELSE 1 + (CHOOSE m \in K : \A o \in K : o <= m)

LEMMA BeyondIs ==
    ASSUME NEW K, K \subseteq Nat, IsFiniteSet(K)
    PROVE  Beyond(K) \in Nat /\ \A o \in K : o < Beyond(K)
  <1>1. CASE K = {}
    BY <1>1 DEF Beyond
  <1>2. CASE K # {}
    <2> DEFINE P(m) == \A o \in K : o <= m
               g == CHOOSE m \in K : P(m)
    <2>1. \E m \in K : P(m)
      BY <1>2, GreatestIs
    <2> HIDE DEF P
    <2>2. g \in K /\ P(g)
      BY <2>1
    <2>3. Beyond(K) = 1 + g
      BY <1>2 DEF Beyond, P
    <2> HIDE DEF g
    <2> QED
      BY <2>2, <2>3 DEF P
  <1> QED
    BY <1>1, <1>2

\* A claimed slot is the one wished for, when it is free, or beyond all known.
LEMMA ClaimsAre ==
    ASSUME NEW known, NEW keys \in Seq(Value), NEW wish,
           known.held \cup known.aimed \subseteq Slot, IsFiniteSet(known.held \cup known.aimed),
           \A k \in DOMAIN keys \cap DOMAIN wish : wish[k] \in Nat
    PROVE  LET got == Claims(known, keys, wish)
               Free(k) == k \in DOMAIN wish /\ <<keys[k], wish[k]>> \notin known.held IN
           /\ got.at \in [DOMAIN keys -> Nat]
           /\ got.held = known.held \cup {<<keys[k], got.at[k]>> : k \in DOMAIN keys}
           /\ got.held \subseteq Slot /\ IsFiniteSet(got.held \cup known.aimed)
           /\ \A k \in DOMAIN keys :
                IF Free(k) THEN got.at[k] = wish[k]
                ELSE \A n : <<keys[k], n>> \in known.held \cup known.aimed => n < got.at[k]
  <1> DEFINE Free(k) == k \in DOMAIN wish /\ <<keys[k], wish[k]>> \notin known.held
             Late == {k \in DOMAIN keys : ~Free(k)}
             Known(key) == Occurrences(known.held \cup known.aimed, key)
             Peers(k) == {m \in Late : keys[m] = keys[k]}
             got == Claims(known, keys, wish)
             new == {<<keys[k], got.at[k]>> : k \in DOMAIN keys}
  <1>1. \A k \in DOMAIN keys :
          got.at[k] = IF k \in Late THEN Beyond(Known(keys[k])) + Rank(Peers(k), k) - 1 ELSE wish[k]
    BY DEF Claims, Beyond
  <1>2. got.held = known.held \cup new /\ got.at = [k \in DOMAIN keys |-> got.at[k]]
    BY DEF Claims
  <1>3. DOMAIN keys = 1 .. Len(keys) /\ Len(keys) \in Nat /\ IsFiniteSet(DOMAIN keys)
    BY Counting
  <1>4. \A k \in DOMAIN keys : keys[k] \in Value
    OBVIOUS
  <1>5. ASSUME NEW k \in DOMAIN keys, k \in Late
        PROVE  /\ got.at[k] \in Nat
               /\ \A n : <<keys[k], n>> \in known.held \cup known.aimed => n < got.at[k]
    <2>1. /\ Known(keys[k]) \subseteq Nat /\ IsFiniteSet(Known(keys[k]))
          /\ \A n : n \in Known(keys[k]) <=> <<keys[k], n>> \in known.held \cup known.aimed
      BY OccurrencesAre
    <2>2. Beyond(Known(keys[k])) \in Nat /\ \A o \in Known(keys[k]) : o < Beyond(Known(keys[k]))
      BY <2>1, BeyondIs
    <2>3. Peers(k) \subseteq Nat /\ IsFiniteSet(Peers(k)) /\ k \in Peers(k)
      <3>1. Peers(k) \in SUBSET DOMAIN keys /\ k \in Peers(k)
        BY <1>5
      <3> HIDE DEF Peers
      <3>2. IsFiniteSet(Peers(k))
        BY <1>3, <3>1, FS_Subset
      <3>3. DOMAIN keys \subseteq Nat
        BY <1>3
      <3> QED
        BY <3>1, <3>2, <3>3
    <2>4. Rank(Peers(k), k) \in Nat /\ Rank(Peers(k), k) >= 1
      <3> HIDE DEF Peers
      <3>1. Rank(Peers(k), k) \in Nat /\ Rank(Peers(k), k) \in 1 .. Cardinality(Peers(k))
            /\ Cardinality(Peers(k)) \in Nat
        BY <2>3, RankGrows
      <3> QED
        BY <3>1
    <2>5. got.at[k] = Beyond(Known(keys[k])) + Rank(Peers(k), k) - 1
      BY <1>1, <1>5
    <2> HIDE DEF Known, Peers, Late, got
    <2> QED
      BY <2>1, <2>2, <2>4, <2>5
  <1>6. ASSUME NEW k \in DOMAIN keys, k \notin Late
        PROVE  got.at[k] = wish[k] /\ wish[k] \in Nat
    BY <1>1, <1>6
  <1>7. \A k \in DOMAIN keys : got.at[k] \in Nat
    BY <1>5, <1>6
  <1>8. got.at \in [DOMAIN keys -> Nat]
    BY <1>2, <1>7
  <1>9. new \subseteq Slot
    BY <1>4, <1>7 DEF Slot
  <1>10. IsFiniteSet(new)
    <2> DEFINE g == [k \in DOMAIN keys |-> <<keys[k], got.at[k]>>]
    <2>1. DOMAIN g = DOMAIN keys /\ new = {g[k] : k \in DOMAIN keys}
      OBVIOUS
    <2> HIDE DEF g, new, got
    <2> QED
      BY <1>3, <2>1, FiniteImage
  <1>11. got.held \subseteq Slot /\ IsFiniteSet(got.held \cup known.aimed)
    <2>1. got.held \cup known.aimed = new \cup (known.held \cup known.aimed)
      BY <1>2
    <2> HIDE DEF new, got
    <2> QED
      BY <1>2, <1>9, <1>10, <2>1, FS_Union
  <1>12. \A k \in DOMAIN keys :
           IF Free(k) THEN got.at[k] = wish[k]
           ELSE \A n : <<keys[k], n>> \in known.held \cup known.aimed => n < got.at[k]
    BY <1>5, <1>6
  <1> HIDE DEF Late, Known, Peers
  <1> QED
    BY <1>2, <1>8, <1>11, <1>12

\* Without wishes every slot is beyond all known.
LEMMA UnwishedAre ==
    ASSUME NEW known, NEW keys \in Seq(Value),
           known.held \cup known.aimed \subseteq Slot, IsFiniteSet(known.held \cup known.aimed)
    PROVE  LET got == Claims(known, keys, <<>>) IN
           /\ got.at \in [DOMAIN keys -> Nat]
           /\ got.held = known.held \cup SlotSet(keys, got.at)
           /\ got.held \subseteq Slot /\ IsFiniteSet(got.held \cup known.aimed)
           /\ \A k \in DOMAIN keys :
                \A n : <<keys[k], n>> \in known.held \cup known.aimed => n < got.at[k]
  <1> DEFINE wish == <<>>
             got == Claims(known, keys, wish)
  <1>1. DOMAIN wish = {}
    OBVIOUS
  <1> HIDE DEF wish
  <1>2. /\ got.at \in [DOMAIN keys -> Nat]
        /\ got.held = known.held \cup {<<keys[k], got.at[k]>> : k \in DOMAIN keys}
        /\ got.held \subseteq Slot /\ IsFiniteSet(got.held \cup known.aimed)
        /\ \A k \in DOMAIN keys :
             IF k \in DOMAIN wish /\ <<keys[k], wish[k]>> \notin known.held THEN got.at[k] = wish[k]
             ELSE \A n : <<keys[k], n>> \in known.held \cup known.aimed => n < got.at[k]
    <2>1. \A k \in DOMAIN keys \cap DOMAIN wish : wish[k] \in Nat
      BY <1>1
    <2> QED
      BY <2>1, ClaimsAre
  <1> HIDE DEF got
  <1>3. /\ got.at \in [DOMAIN keys -> Nat]
        /\ got.held = known.held \cup SlotSet(keys, got.at)
        /\ got.held \subseteq Slot /\ IsFiniteSet(got.held \cup known.aimed)
        /\ \A k \in DOMAIN keys :
             \A n : <<keys[k], n>> \in known.held \cup known.aimed => n < got.at[k]
    BY <1>1, <1>2 DEF SlotSet
  <1> QED
    BY <1>3 DEF got, wish

-----------------------------------------------------------------------------
(* Runs that write know their slots.                                       *)

LEMMA DeleteTransactionPlaces ==
    ASSUME TypeOK, LegInv, SlotInv, TypeOK', NEW r \in Run, NEW a \in todo[r],
           DeleteTransaction(r, a)
    PROVE  SlotInv'
  <1>1. /\ phase[r] = "applying" /\ a.op = "delete" /\ refs' = Orphaned(a.txn)
        /\ UNCHANGED <<phase, file, slots, scope, made, unsettled>>
        /\ todo' = [todo EXCEPT ![r] = todo[r] \ {a}]
    BY DEF DeleteTransaction, At, Carried
  <1>2. FewerLeft /\ NewDraft' = NewDraft
    BY <1>1 DEF FewerLeft, NewDraft, TypeOK
  <1>3. a.txn \in Transaction
    BY DeleteTransactionWrites
  <1>4. \A x \in Ref : refs'[x] = refs[x] \/ (x \in Rows /\ Same(refs'[x], refs[x]))
    BY <1>1, <1>3, OrphanedSame
  <1> QED
    BY <1>1, <1>2, <1>4, RowsStay

\* r puts rows at the slots at of the values on t; the others stay.
Attaches(r, t, values, at) ==
    /\ ApplyRefs \subseteq ApplyRefs' /\ \A x \in ApplyRefs : Same(refs'[x], refs[x])
    /\ \A x \in ApplyRefs' \ ApplyRefs :
        /\ refs'[x].owner = t /\ refs'[x].batch = r
        /\ \E n \in DOMAIN values : refs'[x].key = values[n] /\ refs'[x].occurrence = at[n]
    /\ \A n \in DOMAIN values : \E x \in ApplyRefs' \ ApplyRefs :
        refs'[x].key = values[n] /\ refs'[x].occurrence = at[n]
    /\ IsFiniteSet(ApplyRefs' \ ApplyRefs)
    /\ Cardinality(ApplyRefs' \ ApplyRefs) <= Len(values)

LEMMA FreshApart ==
    ASSUME NEW m \in 1 .. Cardinality(FreshRefs), NEW n \in 1 .. Cardinality(FreshRefs),
           Nth(FreshRefs, m) = Nth(FreshRefs, n)
    PROVE  m = n
  <1>1. Rank(FreshRefs, Nth(FreshRefs, m)) = m /\ Rank(FreshRefs, Nth(FreshRefs, n)) = n
    BY Minted, NthIs
  <1> QED
    BY <1>1

LEMMA AttachedAre ==
    ASSUME TypeOK, LegInv, NEW r \in Run, NEW t, NEW news \in Seq(Leg), NEW at, NEW table,
           Len(news) <= Cardinality(FreshRefs),
           \A x \in Ref : table[x] = refs[x] \/ (x \in Rows /\ Same(table[x], refs[x])),
           refs' = Attach(table, r, t, news, at)
    PROVE  Attaches(r, t, Values(news), at)
  <1> DEFINE D == DOMAIN news
             ref(n) == Nth(FreshRefs, n)
             row(n) == [importer |-> "bc-apply", key |-> news[n].value, occurrence |-> at[n],
                        owner |-> t, leg |-> news[n].id, live |-> TRUE, batch |-> r]
  <1>1. /\ D = 1 .. Len(news) /\ Len(news) \in Nat /\ Cardinality(FreshRefs) \in Nat
        /\ D \subseteq 1 .. Cardinality(FreshRefs)
    BY Minted, FS_CardinalityType
  <1>2. \A n \in D : ref(n) \in Ref /\ ref(n) \notin Rows
    BY <1>1, Minted, NthIs, FreshIs
  <1>3. \A m, n \in D : ref(m) = ref(n) => m = n
    BY <1>1, FreshApart
  <1>4. ASSUME NEW n \in D
        PROVE  refs'[ref(n)] = row(n)
    <2> DEFINE x == ref(n)
               N == {k \in D : ref(k) = x}
    <2>1. N = {n} /\ x \in Ref
      BY <1>2, <1>3
    <2>2. refs'[x] = IF N = {} THEN table[x] ELSE row(CHOOSE m \in N : TRUE)
      BY <2>1 DEF Attach
    <2>3. (CHOOSE m \in N : TRUE) = n
      BY <2>1
    <2> HIDE DEF N, x, row
    <2> QED
      BY <2>1, <2>2, <2>3 DEF x
  <1>5. \A x \in Ref : (\A n \in D : ref(n) # x) => refs'[x] = table[x]
    BY DEF Attach
  <1>6. DOMAIN refs' = Ref
    BY DEF Attach
  <1>7. ApplyRefs \subseteq Ref /\ ApplyRefs \subseteq Rows /\ ApplyRefs' \subseteq Ref
    BY <1>6 DEF ApplyRefs, Rows, TypeOK
  <1> HIDE DEF ref
  <1>8. ASSUME NEW n \in D
        PROVE  /\ ref(n) \in ApplyRefs' \ ApplyRefs
               /\ refs'[ref(n)].owner = t /\ refs'[ref(n)].batch = r
               /\ refs'[ref(n)].key = news[n].value /\ refs'[ref(n)].occurrence = at[n]
    <2>1. refs'[ref(n)] = row(n)
      BY <1>4
    <2>2. refs'[ref(n)].importer = "bc-apply"
      BY <2>1
    <2>3. refs'[ref(n)] # NoRef
      BY <2>2, RowIs
    <2>4. ref(n) \in ApplyRefs'
      BY <1>2, <1>6, <2>2, <2>3 DEF ApplyRefs, Rows, Row
    <2> QED
      BY <1>2, <1>7, <2>1, <2>4
  <1>9. ASSUME NEW x \in Ref, \A n \in D : ref(n) # x
        PROVE  /\ x \in ApplyRefs <=> x \in ApplyRefs'
               /\ x \in ApplyRefs => Same(refs'[x], refs[x])
    <2>1. refs'[x] = table[x]
      BY <1>5, <1>9
    <2>2. CASE refs'[x] = refs[x]
      <3>1. x \in ApplyRefs <=> x \in ApplyRefs'
        BY <1>6, <2>2 DEF ApplyRefs, Rows, Row, TypeOK
      <3>2. x \in ApplyRefs => DOMAIN refs[x] = Fields
        BY <1>7 DEF LegInv, RowsWhole
      <3> QED
        BY <2>2, <3>1, <3>2 DEF Same
    <2>3. CASE x \in Rows /\ Same(refs'[x], refs[x])
      <3>1. refs[x].importer \in {"bank", "bc-apply"} /\ refs'[x].importer = refs[x].importer
        BY <2>3 DEF LegInv, RowsWhole, Same
      <3>2. x \in Rows'
        BY <1>6, <3>1, RowIs DEF Rows, Row
      <3> QED
        BY <2>3, <3>1, <3>2 DEF ApplyRefs
    <2> QED
      BY <2>1, <2>2, <2>3
  <1>10. \A n \in D : ref(n) \notin ApplyRefs
    BY <1>8
  <1>11. ApplyRefs \subseteq ApplyRefs' /\ \A x \in ApplyRefs : Same(refs'[x], refs[x])
    BY <1>7, <1>9, <1>10
  <1>12. \A x \in ApplyRefs' \ ApplyRefs : \E n \in D : x = ref(n)
    BY <1>7, <1>9
  <1>13. /\ IsFiniteSet(ApplyRefs' \ ApplyRefs)
         /\ Cardinality(ApplyRefs' \ ApplyRefs) <= Len(news)
    <2> DEFINE g == [n \in D |-> ref(n)]
               T == ApplyRefs' \ ApplyRefs
    <2>1. g \in Surjection(D, T)
      BY <1>8, <1>12 DEF Surjection
    <2>2. IsFiniteSet(D) /\ Cardinality(D) = Len(news)
      BY <1>1, Counting
    <2> HIDE DEF g, T, D
    <2>3. IsFiniteSet(T) /\ Cardinality(T) <= Cardinality(D)
      BY <2>1, <2>2, FS_Surjection
    <2> QED
      BY <2>2, <2>3 DEF T
  <1>14. DOMAIN Values(news) = D /\ Len(Values(news)) = Len(news)
         /\ \A n \in D : Values(news)[n] = news[n].value
    BY <1>1 DEF Values
  <1> QED
    BY <1>8, <1>11, <1>12, <1>13, <1>14 DEF Attaches

LEMMA AttachedSlots ==
    ASSUME TypeOK, NEW r, NEW t, NEW values, NEW at, Attaches(r, t, values, at)
    PROVE  LET new == SlotSet(values, at) IN
           /\ Held' = Held \cup new
           /\ \A f : Theirs(f)' = IF t \in DOMAIN f.wants THEN Theirs(f) \cup new ELSE Theirs(f)
           /\ \A u : made'[u] = made[u] /\ (u = t => made[t].run # r) =>
                OwnRefs(u)' = OwnRefs(u) /\ SlotsOf(OwnRefs(u))' = SlotsOf(OwnRefs(u))
  <1> DEFINE new == SlotSet(values, at)
             Came == ApplyRefs' \ ApplyRefs
             slot(x) == <<refs[x].key, refs[x].occurrence>>
  <1>1. \A x \in ApplyRefs : x \in ApplyRefs' /\ slot(x)' = slot(x)
                             /\ refs'[x].owner = refs[x].owner /\ refs'[x].batch = refs[x].batch
    BY DEF Attaches, Same
  <1>2. \A x \in Came : slot(x)' \in new /\ refs'[x].owner = t /\ refs'[x].batch = r
    BY DEF Attaches, SlotSet
  <1>3. \A s \in new : \E x \in Came : slot(x)' = s
    BY DEF Attaches, SlotSet
  <1>4. \A X : SlotsOf(X) = {slot(x) : x \in X \cap ApplyRefs}
    BY DEF SlotsOf
  <1>5. Held = {slot(x) : x \in ApplyRefs} /\ Held' = {slot(x)' : x \in ApplyRefs'}
    BY DEF Held, SlotsOf
  <1>6. \A f : /\ Theirs(f) = {slot(x) : x \in {y \in ApplyRefs : refs[y].owner \in DOMAIN f.wants}}
               /\ Theirs(f)' = {slot(x)' : x \in {y \in ApplyRefs' : refs'[y].owner \in DOMAIN f.wants}}
    BY DEF Theirs, SlotsOf
  <1>7. ASSUME NEW u, made'[u] = made[u], u = t => made[t].run # r
        PROVE  OwnRefs(u)' = OwnRefs(u) /\ SlotsOf(OwnRefs(u))' = SlotsOf(OwnRefs(u))
    <2>1. OwnRefs(u)' = OwnRefs(u)
      BY <1>1, <1>2, <1>7 DEF OwnRefs
    <2>2. /\ SlotsOf(OwnRefs(u)) = {slot(x) : x \in OwnRefs(u)}
          /\ SlotsOf(OwnRefs(u))' = {slot(x)' : x \in OwnRefs(u)'}
      BY DEF SlotsOf, OwnRefs
    <2>3. \A x \in OwnRefs(u) : slot(x)' = slot(x)
      BY <1>1 DEF OwnRefs
    <2> HIDE DEF slot
    <2> QED
      BY <2>1, <2>2, <2>3
  <1>8. \A x \in ApplyRefs' : x \in ApplyRefs \/ x \in Came
    OBVIOUS
  <1>9. \A x \in Came : x \in ApplyRefs'
    OBVIOUS
  <1> HIDE DEF slot, new, Came
  <1>10. Held' = Held \cup new
    BY <1>1, <1>2, <1>3, <1>5, <1>8, <1>9
  <1>11. ASSUME NEW f
         PROVE  Theirs(f)' = IF t \in DOMAIN f.wants THEN Theirs(f) \cup new ELSE Theirs(f)
    <2> DEFINE X == {y \in ApplyRefs : refs[y].owner \in DOMAIN f.wants}
               Y == {y \in ApplyRefs' : refs'[y].owner \in DOMAIN f.wants}
    <2>1. Theirs(f) = {slot(x) : x \in X} /\ Theirs(f)' = {slot(x)' : x \in Y}
      BY <1>6
    <2>2. X \subseteq Y /\ \A x \in X : slot(x)' = slot(x)
      BY <1>1
    <2>3. \A x \in Y \ X : x \in Came /\ t \in DOMAIN f.wants
      BY <1>1, <1>2, <1>8
    <2>4. t \in DOMAIN f.wants => \A x \in Came : x \in Y
      BY <1>2, <1>9
    <2> HIDE DEF X, Y
    <2>5. CASE t \in DOMAIN f.wants
      BY <1>2, <1>3, <2>1, <2>2, <2>3, <2>4, <2>5
    <2>6. CASE t \notin DOMAIN f.wants
      BY <2>1, <2>2, <2>3, <2>6
    <2> QED
      BY <2>5, <2>6
  <1> QED
    BY <1>7, <1>10, <1>11 DEF new

\* r claims the slots at of the values, carries out one write and goes on.
Attaching(r, values, at) ==
    /\ UNCHANGED <<phase, file>> /\ FewerLeft /\ NewDraft' = NewDraft
    /\ phase[r] = "applying" /\ unsettled \subseteq unsettled'
    /\ slots'[r].held = slots[r].held \cup SlotSet(values, at)
    /\ slots'[r].aimed = slots[r].aimed /\ DOMAIN slots'[r] = {"held", "aimed"}
    /\ slots'[r].held \subseteq Slot /\ IsFiniteSet(slots'[r].held \cup slots'[r].aimed)
    /\ \A q \in Run \ {r} : slots'[q] = slots[q]

LEMMA AttachingRight ==
    ASSUME TypeOK, SlotInv, NEW r \in Run, NEW t, NEW values \in Seq(Value),
           NEW at \in [DOMAIN values -> Nat], Attaches(r, t, values, at), Attaching(r, values, at),
           \A u \in Transaction : made'[u] # None => Cardinality(OwnRefs(u)') <= Len(NewDraft)
    PROVE  SlotsRight'
  <1>1. ASSUME NEW x \in ApplyRefs'
        PROVE  <<refs'[x].key, refs'[x].occurrence>> \in Slot
    <2>1. CASE x \in ApplyRefs
      BY <2>1 DEF Attaches, Same, SlotInv, SlotsRight
    <2>2. CASE x \notin ApplyRefs
      <3>1. PICK n \in DOMAIN values : refs'[x].key = values[n] /\ refs'[x].occurrence = at[n]
        BY <2>2 DEF Attaches
      <3>2. values[n] \in Value /\ at[n] \in Nat
        OBVIOUS
      <3> QED
        BY <3>1, <3>2 DEF Slot
    <2> QED
      BY <2>1, <2>2
  <1>2. ASSUME NEW q \in Run
        PROVE  /\ slots'[q].held \cup slots'[q].aimed \subseteq Slot
               /\ IsFiniteSet(slots'[q].held \cup slots'[q].aimed)
               /\ DOMAIN slots'[q] = {"held", "aimed"}
    <2>1. /\ slots[q].held \cup slots[q].aimed \subseteq Slot
          /\ IsFiniteSet(slots[q].held \cup slots[q].aimed)
          /\ DOMAIN slots[q] = {"held", "aimed"}
      BY DEF SlotInv, SlotsRight
    <2> QED
      BY <2>1 DEF Attaching
  <1>3. ASSUME NEW q \in Run
        PROVE  /\ IsFiniteSet({c \in todo'[q] : c.op = "create"})
               /\ \A c \in todo'[q] : c.op = "create" => c.at \in [DOMAIN NewDraft -> Nat]
    <2>1. todo'[q] \subseteq todo[q]
      BY DEF Attaching, FewerLeft
    <2>2. /\ IsFiniteSet({c \in todo[q] : c.op = "create"})
          /\ \A c \in todo[q] : c.op = "create" => c.at \in [DOMAIN NewDraft -> Nat]
      BY DEF SlotInv, SlotsRight
    <2>3. {c \in todo'[q] : c.op = "create"} \in SUBSET {c \in todo[q] : c.op = "create"}
      BY <2>1
    <2>4. IsFiniteSet({c \in todo'[q] : c.op = "create"})
      BY <2>2, <2>3, FS_Subset
    <2> QED
      BY <2>1, <2>2, <2>4
  <1>4. NewDraft' = NewDraft
    BY DEF Attaching
  <1> QED
    BY <1>1, <1>2, <1>3, <1>4 DEF SlotsRight

\* While the aims of f are where they were, its runs know its slots.
LEMMA AttachingKnows ==
    ASSUME TypeOK, SlotInv, NEW r \in Run, NEW t, NEW values, NEW at,
           Attaches(r, t, values, at), Attaching(r, values, at),
           NEW f \in Files, f.name \notin unsettled',
           \A i \in 1 .. f.new : Aims(f, i)' = Aims(f, i) /\ Place(f, i)' = Place(f, i)
    PROVE  KnowsSlots(f)'
  <1>1. Held' = Held \cup SlotSet(values, at)
    BY AttachedSlots
  <1>2. ASSUME NEW q \in Run, file'[q] = f
        PROVE  Knows(q, f)'
    <2>1. phase' = phase /\ file[q] = f /\ f.name \notin unsettled
      BY <1>2 DEF Attaching
    <2>2. Knows(q, f)
      BY <2>1 DEF SlotInv, PlacesRight, KnowsSlots
    <2>3. todo'[q] \subseteq todo[q] /\ (phase[q] = "planned" => todo'[q] = todo[q])
      BY DEF Attaching, FewerLeft
    <2>4. phase[q] = "applying" =>
            /\ slots'[q].held \subseteq Held'
            /\ slots[q].held \cup slots[q].aimed \subseteq slots'[q].held \cup slots'[q].aimed
      BY <1>1, <2>2 DEF Attaching, Knows
    <2> QED
      BY <1>1, <2>1, <2>2, <2>3, <2>4 DEF Knows
  <1> QED
    BY <1>2 DEF KnowsSlots

LEMMA AddedNext ==
    ASSUME NEW f, NEW t \in AddedBy(f)'
    PROVE  /\ t \in Transaction /\ made'[t] # None /\ made'[t].file = f.name
           /\ Cardinality(OwnRefs(t)') = Len(NewDraft')
  <1>1. t \in Transaction /\ HasSlots(t)' /\ made'[t].file = f.name
    BY DEF AddedBy
  <1>2. (RefsOf(t) \cap BatchRefs(made[t].run))' = OwnRefs(t)'
    BY DEF RefsOf, BatchRefs, OwnRefs, ApplyRefs
  <1> QED
    BY <1>1, <1>2 DEF HasSlots

LEMMA AddedLegsAre ==
    ASSUME TypeOK, NEW a, a.legs \in Seq([id : Posting \cup {None}, value : Value]),
           Cardinality(New(a.legs)) <= Cardinality(FreshPostings)
    PROVE  /\ AddedLegs(a) \in Seq(Leg) /\ Len(AddedLegs(a)) = Cardinality(New(a.legs))
           /\ AddedValues(a) \in Seq(Value) /\ Values(AddedLegs(a)) = AddedValues(a)
           /\ New(a.legs) = {} => AddedValues(a) = <<>>
  <1> DEFINE K == New(a.legs)
             L == [id : Posting \cup {None}, value : Value]
             legs == EditLegs(a)
             p == Pick(a.legs, K)
             q == Pick(legs, K)
  <1>0. \A k \in DOMAIN a.legs : a.legs[k] \in L
    <2> DEFINE all == a.legs
    <2>1. all \in Seq(L)
      OBVIOUS
    <2> HIDE DEF all, L
    <2>2. \A k \in DOMAIN all : all[k] \in L
      BY <2>1
    <2> QED
      BY <2>2 DEF all
  <1>1. /\ legs \in Seq(Leg) /\ DOMAIN legs = DOMAIN a.legs /\ K \subseteq DOMAIN a.legs
        /\ Cardinality(K) \in Nat
    BY MintedLegs DEF EditLegs
  <1>2. /\ p \in Seq(L) /\ DOMAIN p = 1 .. Cardinality(K)
        /\ \A n \in DOMAIN p : Nth(K, n) \in K /\ p[n] = a.legs[Nth(K, n)]
        /\ K = {} => p = <<>>
    BY <1>1, Picked
  <1>3. /\ q \in Seq(Leg) /\ DOMAIN q = 1 .. Cardinality(K)
        /\ \A n \in DOMAIN q : Nth(K, n) \in K /\ q[n] = legs[Nth(K, n)]
    BY <1>1, Picked
  <1>4. \A k \in K : legs[k].value = a.legs[k].value
    <2>1. TAKE k \in K
    <2>2. legs[k] = [a.legs[k] EXCEPT !.id = Nth(FreshPostings, Rank(K, k))]
      BY <1>1 DEF EditLegs, WithIds
    <2>3. a.legs[k] \in L
      BY <1>0, <1>1
    <2> QED
      BY <2>2, <2>3
  <1>5. AddedLegs(a) = q /\ AddedValues(a) = Values(p)
    BY DEF AddedLegs, AddedValues
  <1> HIDE DEF p, q, legs, K
  <1>6. DOMAIN Values(p) = 1 .. Cardinality(K) /\ DOMAIN Values(q) = 1 .. Cardinality(K)
    BY <1>2, <1>3 DEF Values
  <1>7. \A n \in 1 .. Cardinality(K) : Values(q)[n] = Values(p)[n] /\ Values(p)[n] \in Value
    <2>1. TAKE n \in 1 .. Cardinality(K)
    <2>2. Values(q)[n] = legs[Nth(K, n)].value /\ Values(p)[n] = a.legs[Nth(K, n)].value
          /\ Nth(K, n) \in K
      <3>1. /\ q[n] = legs[Nth(K, n)] /\ p[n] = a.legs[Nth(K, n)] /\ Nth(K, n) \in K
            /\ n \in DOMAIN p /\ n \in DOMAIN q
        BY <1>2, <1>3
      <3>2. Values(q)[n] = q[n].value /\ Values(p)[n] = p[n].value
        BY <3>1 DEF Values
      <3> QED
        BY <3>1, <3>2
    <2>3. a.legs[Nth(K, n)] \in L
      BY <1>0, <1>1, <2>2
    <2> QED
      BY <1>4, <2>2, <2>3
  <1>8. Values(p) = [n \in 1 .. Cardinality(K) |-> Values(p)[n]]
        /\ Values(q) = [n \in 1 .. Cardinality(K) |-> Values(q)[n]]
    BY <1>6 DEF Values
  <1>9. Values(q) = Values(p) /\ Values(p) \in Seq(Value)
    <2>1. Values(q) = Values(p)
      BY <1>7, <1>8
    <2>2. Values(p) \in [1 .. Cardinality(K) -> Value]
      BY <1>7, <1>8
    <2> QED
      <3> DEFINE n == Cardinality(K)
                 w == Values(p)
      <3>1. n \in Nat /\ w \in [1 .. n -> Value]
        BY <1>1, <2>2
      <3> HIDE DEF n, w
      <3>2. w \in Seq(Value)
        BY <3>1, SeqDef
      <3> QED
        BY <2>1, <3>2 DEF w
  <1>10. Len(q) = Cardinality(K)
    BY <1>1, <1>3
  <1>11. K = {} => Values(p) = <<>>
    <2>1. SUFFICES ASSUME K = {}
                   PROVE  Values(p) = <<>>
      OBVIOUS
    <2>2. Cardinality(K) = 0
      BY <2>1, FS_EmptySet
    <2>3. Len(Values(p)) = 0
      BY <1>6, <1>9, <2>2
    <2> QED
      BY <1>9, <2>3, EmptySeq
  <1> QED
    BY <1>3, <1>5, <1>9, <1>10, <1>11 DEF K

LEMMA HomesKept ==
    ASSUME NEW f, NEW u, \A i \in 1 .. f.new : Aims(f, i)' = Aims(f, i),
           SlotsOf(OwnRefs(u))' = SlotsOf(OwnRefs(u))
    PROVE  Homes(f, u)' = Homes(f, u)
  BY DEF Homes

LEMMA PlacesKept ==
    ASSUME NEW f, HasPlaces(f), Held \subseteq Held',
           \A i \in 1 .. f.new : Aims(f, i)' = Aims(f, i),
           \A u \in AddedBy(f)' :
             u \in AddedBy(f) /\ SlotsOf(OwnRefs(u))' = SlotsOf(OwnRefs(u))
    PROVE  HasPlaces(f)'
  <1>1. \A u \in AddedBy(f)' : u \in AddedBy(f) /\ Homes(f, u)' = Homes(f, u)
    BY HomesKept
  <1>2. \A u \in AddedBy(f)' : \A i \in Homes(f, u) : i \in 1 .. f.new
    BY DEF Homes
  <1> QED
    BY <1>1, <1>2 DEF HasPlaces

\* The slots a run gives to a transaction its own file names are beyond what the file aims
\* at, and move none of it.
LEMMA OwnFileStays ==
    ASSUME TypeOK, SlotInv, NEW r \in Run, NEW f \in Files, file[r] = f, f.name \notin unsettled,
           phase[r] = "applying", NewDraft' = NewDraft, NEW values \in Seq(Value), NEW at,
           at = Claims(slots[r], values, <<>>).at,
           Theirs(f)' = Theirs(f) \cup SlotSet(values, at)
    PROVE  \A i \in 1 .. f.new : Aims(f, i)' = Aims(f, i) /\ Place(f, i)' = Place(f, i)
  <1> DEFINE new == SlotSet(values, at)
             known == slots[r].held \cup slots[r].aimed
  <1>1. Knows(r, f)
    BY DEF SlotInv, PlacesRight, KnowsSlots
  <1>2. /\ at \in [DOMAIN values -> Nat]
        /\ \A k \in DOMAIN values : \A n : <<values[k], n>> \in known => n < at[k]
    <2>1. known \subseteq Slot /\ IsFiniteSet(known)
      BY DEF SlotInv, SlotsRight
    <2> QED
      BY <2>1, UnwishedAre
  <1>3. new \subseteq Slot /\ IsFiniteSet(new)
    <2>1. new \subseteq Slot
      BY <1>2 DEF SlotSet, Slot
    <2>2. IsFiniteSet(new)
      <3> DEFINE g == [k \in DOMAIN values |-> <<values[k], at[k]>>]
      <3>1. DOMAIN g = DOMAIN values /\ new = {g[k] : k \in DOMAIN values}
        BY DEF SlotSet
      <3>2. IsFiniteSet(DOMAIN values)
        BY Counting
      <3> HIDE DEF g, new
      <3> QED
        BY <3>1, <3>2, FiniteImage
    <2> QED
      BY <2>1, <2>2
  <1>4. Theirs(f) \subseteq Slot /\ IsFiniteSet(Theirs(f)) /\ NewDraft \in Seq(Value)
    BY SlotsType, DraftIs DEF Theirs, SlotInv
  <1>5. ASSUME NEW i \in 1 .. f.new
        PROVE  Aims(f, i)' = Aims(f, i) /\ Place(f, i)' = Place(f, i)
    <2>1. i \in Nat \ {0}
      BY FilesAre DEF SlotInv
    <2>2. Aims(f, i) \subseteq known /\ Aims(f, i) \subseteq Slot
      BY <1>1, <1>4, <2>1, PlaceIs DEF Knows, Aims
    <2>3. ASSUME NEW m \in new, NEW s \in Aims(f, i), m[1] = s[1]
          PROVE  m[2] > s[2]
      <3>1. PICK k \in DOMAIN values : m = <<values[k], at[k]>>
        BY DEF SlotSet
      <3>2. s = <<s[1], s[2]>> /\ s[2] \in Nat /\ s \in known
        BY <2>2 DEF Slot
      <3>3. <<values[k], s[2]>> \in known
        BY <2>3, <3>1, <3>2
      <3>4. s[2] < at[k] /\ m[2] = at[k] /\ at[k] \in Nat
        BY <1>2, <3>1, <3>3
      <3> QED
        BY <3>2, <3>4
    <2> HIDE DEF new, known
    <2>4. PlaceOf(Theirs(f) \cup new, NewDraft, i) = PlaceOf(Theirs(f), NewDraft, i)
      BY <1>3, <1>4, <2>1, <2>3, PlaceStays DEF Aims
    <2>5. Place(f, i)' = Place(f, i)
      BY <2>4 DEF Place, new
    <2> QED
      BY <2>4, <2>5 DEF Aims, AimOf, new
  <1> QED
    BY <1>5

LEMMA EditTransactionAttaches ==
    ASSUME TypeOK, LegInv, SlotInv, NEW r \in Run, NEW a \in todo[r], EditTransaction(r, a)
    PROVE  /\ a.txn \in Transaction /\ Reads(r, a.txn) /\ AddedValues(a) \in Seq(Value)
           /\ New(a.legs) = {} => AddedValues(a) = <<>>
           /\ LegClaims(r, a).at \in [DOMAIN AddedValues(a) -> Nat]
           /\ Attaches(r, a.txn, AddedValues(a), LegClaims(r, a).at)
           /\ Attaching(r, AddedValues(a), LegClaims(r, a).at)
  <1> DEFINE t == a.txn
             values == AddedValues(a)
             at == LegClaims(r, a).at
             removed == Ids(stored[t].legs) \ Ids(EditLegs(a))
  <1>1. /\ phase[r] = "applying" /\ a.op = "edit" /\ Carried(r, a) /\ UNCHANGED <<scope, made>>
        /\ slots' = [slots EXCEPT ![r].held = LegClaims(r, a).held]
        /\ unsettled \subseteq unsettled' /\ Room(Cardinality(New(a.legs)))
        /\ refs' = Attach(Tombstoned(removed), r, t, AddedLegs(a), at)
    BY DEF EditTransaction, At
  <1>2. Pending(r, a)
    BY DEF LegInv, RunsWrite, RunRight
  <1>3. /\ a.legs \in Seq([id : Posting \cup {None}, value : Value])
        /\ Reads(r, t)
    BY <1>1, <1>2 DEF Pending, Reads
  <1>4. t \in Transaction
    BY EditTransactionWrites
  <1>5. /\ AddedLegs(a) \in Seq(Leg) /\ Len(AddedLegs(a)) = Cardinality(New(a.legs))
        /\ values \in Seq(Value) /\ Values(AddedLegs(a)) = values
        /\ New(a.legs) = {} => values = <<>>
    BY <1>1, <1>3, AddedLegsAre DEF Room
  <1>6. Attaches(r, t, values, at)
    <2>1. Len(AddedLegs(a)) <= Cardinality(FreshRefs)
      BY <1>1, <1>5 DEF Room
    <2>2. \A x \in Ref : \/ Tombstoned(removed)[x] = refs[x]
                         \/ x \in Rows /\ Same(Tombstoned(removed)[x], refs[x])
      BY TombstonedIs
    <2>3. Attaches(r, t, Values(AddedLegs(a)), at)
      BY <1>1, <1>5, <2>1, <2>2, AttachedAre
    <2> QED
      BY <1>5, <2>3
  <1>7. /\ at \in [DOMAIN values -> Nat]
        /\ LegClaims(r, a).held = slots[r].held \cup SlotSet(values, at)
        /\ LegClaims(r, a).held \subseteq Slot
        /\ IsFiniteSet(LegClaims(r, a).held \cup slots[r].aimed)
    <2>1. /\ slots[r].held \cup slots[r].aimed \subseteq Slot
          /\ IsFiniteSet(slots[r].held \cup slots[r].aimed)
      BY DEF SlotInv, SlotsRight
    <2> HIDE DEF values
    <2>2. LegClaims(r, a) = Claims(slots[r], values, <<>>)
      BY DEF LegClaims, values
    <2> QED
      BY <1>5, <2>1, <2>2, UnwishedAre
  <1>8. slots'[r].held = LegClaims(r, a).held /\ slots'[r].aimed = slots[r].aimed
        /\ DOMAIN slots'[r] = {"held", "aimed"}
        /\ \A q \in Run \ {r} : slots'[q] = slots[q]
    <2>1. DOMAIN slots = Run /\ slots'[r] = [slots[r] EXCEPT !.held = LegClaims(r, a).held]
      BY <1>1 DEF TypeOK
    <2>2. DOMAIN slots[r] = {"held", "aimed"}
      BY DEF SlotInv, SlotsRight
    <2> QED
      BY <1>1, <2>1, <2>2
  <1>9. FewerLeft /\ NewDraft' = NewDraft /\ UNCHANGED <<phase, file>>
    BY <1>1 DEF FewerLeft, NewDraft, Carried, TypeOK
  <1> HIDE DEF t, values, at, removed
  <1>10. Attaching(r, values, at)
    BY <1>1, <1>7, <1>8, <1>9 DEF Attaching
  <1> QED
    BY <1>3, <1>4, <1>5, <1>6, <1>7, <1>10 DEF t, values, at

LEMMA EditTransactionPlaces ==
    ASSUME TypeOK, LegInv, SlotInv, NEW r \in Run, NEW a \in todo[r], EditTransaction(r, a)
    PROVE  SlotInv'
  <1> PICK t, values, at : t = a.txn /\ values = AddedValues(a) /\ at = LegClaims(r, a).at
    OBVIOUS
  <1>1. /\ t \in Transaction /\ Reads(r, t) /\ values \in Seq(Value)
        /\ New(a.legs) = {} => values = <<>>
        /\ at \in [DOMAIN values -> Nat]
        /\ Attaches(r, t, values, at) /\ Attaching(r, values, at)
    BY EditTransactionAttaches
  <1>2. UNCHANGED made /\ unsettled' = unsettled \cup (IF New(a.legs) = {} THEN {} ELSE Moved(r, t))
    BY DEF EditTransaction
  <1>3. UNCHANGED <<phase, file>> /\ NewDraft' = NewDraft /\ phase[r] = "applying"
    BY <1>1 DEF Attaching
  <1>4. made[t] # None => made[t].run # r
    BY <1>1 DEF LegInv, RunsWrite, RunRight
  <1>5. /\ Held' = Held \cup SlotSet(values, at)
        /\ \A f : Theirs(f)' = IF t \in DOMAIN f.wants THEN Theirs(f) \cup SlotSet(values, at)
                               ELSE Theirs(f)
        /\ \A u : made[u] # None =>
             OwnRefs(u)' = OwnRefs(u) /\ SlotsOf(OwnRefs(u))' = SlotsOf(OwnRefs(u))
    BY <1>1, <1>2, <1>4, AttachedSlots
  <1>6. FilesRight'
    BY <1>2, <1>3 DEF SlotInv, FilesRight, Reads
  <1>7. SlotsRight'
    <2>1. \A u \in Transaction : made'[u] # None => Cardinality(OwnRefs(u)') <= Len(NewDraft)
      BY <1>2, <1>5 DEF SlotInv, SlotsRight
    <2> QED
      BY <1>1, <2>1, AttachingRight
  <1>8. ASSUME NEW f \in Files', f.name \notin unsettled'
        PROVE  KnowsSlots(f)' /\ HasPlaces(f)'
    <2>1. f \in Files /\ f.name \notin unsettled
      BY <1>2, <1>3, <1>8 DEF Files
    <2>2. KnowsSlots(f) /\ HasPlaces(f)
      BY <2>1 DEF SlotInv, PlacesRight
    <2>3. \A u \in AddedBy(f)' :
            u \in AddedBy(f) /\ SlotsOf(OwnRefs(u))' = SlotsOf(OwnRefs(u))
      <3>1. TAKE u \in AddedBy(f)'
      <3>2. /\ u \in Transaction /\ made[u] # None /\ made[u].file = f.name
            /\ Cardinality(OwnRefs(u)') = Len(NewDraft)
        BY <1>2, <1>3, AddedNext
      <3> QED
        BY <1>5, <3>2, AddedIs
    <2>4. ASSUME \A i \in 1 .. f.new : Aims(f, i)' = Aims(f, i) /\ Place(f, i)' = Place(f, i)
          PROVE  KnowsSlots(f)' /\ HasPlaces(f)'
      <3>1. KnowsSlots(f)'
        BY <1>1, <1>8, <2>1, <2>4, AttachingKnows
      <3>2. Held \subseteq Held'
        BY <1>5
      <3> QED
        BY <2>2, <2>3, <2>4, <3>1, <3>2, PlacesKept
    <2>5. CASE Theirs(f)' = Theirs(f)
      BY <1>3, <2>4, <2>5, AimsOn
    <2>6. CASE t \in DOMAIN f.wants /\ f = file[r]
      BY <1>1, <1>3, <1>5, <2>1, <2>4, <2>6, OwnFileStays DEF LegClaims
    <2>7. CASE t \in DOMAIN f.wants /\ f # file[r] /\ New(a.legs) # {}
      <3>1. f.name # file[r].name
        <4>1. file[r] \in Files
          BY <1>3 DEF Files, TypeOK
        <4> QED
          BY <2>1, <2>7, <4>1, FilesAre DEF SlotInv
      <3>2. \A q \in Run : file[q] = f => phase[q] = "drafted" /\ todo[q] = {}
        <4>1. TAKE q \in Run
        <4>2. file[q] = f => phase[q] = "drafted"
          BY <1>2, <1>8, <2>1, <2>7, <3>1 DEF Moved
        <4> QED
          BY <4>2 DEF LegInv, RunsWrite, RunRight
      <3>3. KnowsSlots(f)'
        <4>1. ASSUME NEW q \in Run, file'[q] = f
              PROVE  Knows(q, f)'
          <5>1. phase'[q] = "drafted" /\ todo'[q] = {}
            BY <1>1, <1>3, <3>2, <4>1 DEF Attaching, FewerLeft
          <5> QED
            BY <5>1 DEF Knows
        <4> QED
          BY <4>1 DEF KnowsSlots
      <3>4. AddedBy(f) = {}
        <4>1. SUFFICES ASSUME NEW u \in AddedBy(f)
                       PROVE  FALSE
          OBVIOUS
        <4>2. u \in Transaction /\ made[u] # None /\ made[u].file = f.name
          BY AddedIs
        <4>3. /\ file[made[u].file] = file[made[u].run] /\ made[u].run \in Run
              /\ phase[made[u].run] \in {"applying", "over"}
          BY <4>2, NothingMade DEF SlotInv
        <4>4. file[f.name] = f
          BY <2>1, FilesAre DEF SlotInv
        <4> QED
          BY <3>2, <4>2, <4>3, <4>4
      <3>5. AddedBy(f)' = {}
        BY <2>3, <3>4
      <3> QED
        BY <3>3, <3>5 DEF HasPlaces
    <2>8. CASE New(a.legs) = {}
      <3>1. SlotSet(values, at) = {}
        <4>1. DOMAIN values = {}
          BY <1>1, <2>8
        <4> QED
          BY <4>1 DEF SlotSet
      <3> QED
        BY <1>5, <2>5, <3>1
    <2> QED
      BY <1>5, <2>5, <2>6, <2>7, <2>8
  <1> QED
    BY <1>6, <1>7, <1>8 DEF SlotInv, PlacesRight

LEMMA NewLegsAre ==
    ASSUME TypeOK, Len(NewDraft) <= Cardinality(FreshPostings)
    PROVE  LET legs == WithIds([k \in DOMAIN NewDraft |-> [id |-> None, value |-> NewDraft[k]]]) IN
           legs \in Seq(Leg) /\ Len(legs) = Len(NewDraft) /\ Values(legs) = NewDraft
  <1> DEFINE plain == [k \in DOMAIN NewDraft |-> [id |-> None, value |-> NewDraft[k]]]
             legs == WithIds(plain)
  <1>1. /\ NewDraft \in Seq(Value) /\ DOMAIN NewDraft = 1 .. Len(NewDraft) /\ Len(NewDraft) \in Nat
        /\ \A k \in DOMAIN NewDraft : NewDraft[k] \in Value
    BY DraftIs
  <1>2. /\ plain \in Seq([id : Posting \cup {None}, value : Value])
        /\ DOMAIN plain = 1 .. Len(NewDraft)
        /\ \A k \in DOMAIN plain : plain[k] = [id |-> None, value |-> NewDraft[k]]
    <2>1. \A k \in 1 .. Len(NewDraft) :
            [id |-> None, value |-> NewDraft[k]] \in [id : Posting \cup {None}, value : Value]
      BY <1>1
    <2> QED
      BY <1>1, <2>1
  <1> HIDE DEF plain
  <1>3. New(plain) = 1 .. Len(NewDraft) /\ Cardinality(New(plain)) = Len(NewDraft)
    <2>1. \A k \in DOMAIN plain : plain[k].id = None
      BY <1>2
    <2>2. New(plain) = 1 .. Len(NewDraft)
      BY <1>2, <2>1 DEF New
    <2> QED
      BY <1>1, <2>2, Counting
  <1>4. legs \in Seq(Leg) /\ DOMAIN legs = 1 .. Len(NewDraft)
    BY <1>2, <1>3, MintedLegs
  <1>5. \A k \in 1 .. Len(NewDraft) : legs[k].value = NewDraft[k]
    <2>1. TAKE k \in 1 .. Len(NewDraft)
    <2>2. legs[k] = [plain[k] EXCEPT !.id = Nth(FreshPostings, Rank(New(plain), k))]
      BY <1>2, <1>3 DEF WithIds
    <2> QED
      BY <1>2, <2>2
  <1> HIDE DEF legs
  <1>6. Len(legs) = Len(NewDraft)
    BY <1>1, <1>4
  <1>7. Values(legs) = NewDraft
    <2>1. Values(legs) = [k \in 1 .. Len(NewDraft) |-> NewDraft[k]]
      BY <1>4, <1>5 DEF Values
    <2>2. NewDraft = [k \in 1 .. Len(NewDraft) |-> NewDraft[k]]
      BY <1>1
    <2> QED
      BY <2>1, <2>2
  <1> QED
    BY <1>4, <1>6, <1>7 DEF legs, plain

LEMMA CreateTransactionAttaches ==
    ASSUME TypeOK, LegInv, SlotInv, NEW r \in Run, NEW a \in todo[r], CreateTransaction(r, a)
    PROVE  \E t \in FreshTransactions, at \in [DOMAIN NewDraft -> Nat] :
             /\ a.at \in [DOMAIN NewDraft -> Nat]
             /\ Attaches(r, t, NewDraft, at) /\ Attaching(r, NewDraft, at)
             /\ made' = [made EXCEPT ![t] = [file |-> file[r].name, run |-> r]]
             /\ \A k \in DOMAIN NewDraft :
                  IF <<NewDraft[k], a.at[k]>> \notin slots[r].held THEN at[k] = a.at[k]
                  ELSE \A n : <<NewDraft[k], n>> \in slots[r].held \cup slots[r].aimed => n < at[k]
  <1> DEFINE t == Nth(FreshTransactions, 1)
             legs == WithIds([k \in DOMAIN NewDraft |-> [id |-> None, value |-> NewDraft[k]]])
             got == Claims(slots[r], NewDraft, a.at)
  <1>1. /\ Room(Len(NewDraft)) /\ FreshTransactions # {} /\ phase[r] = "applying"
        /\ a.op = "create" /\ Carried(r, a) /\ UNCHANGED <<scope, unsettled>>
        /\ refs' = Attach(refs, r, t, legs, got.at)
        /\ made' = [made EXCEPT ![t] = [file |-> file[r].name, run |-> r]]
        /\ slots' = [slots EXCEPT ![r].held = got.held]
    BY DEF CreateTransaction, At
  <1>2. t \in FreshTransactions
    BY <1>1, Minted, FirstIs
  <1> HIDE DEF t
  <1>3. legs \in Seq(Leg) /\ Len(legs) = Len(NewDraft) /\ Values(legs) = NewDraft
    BY <1>1, NewLegsAre DEF Room
  <1> HIDE DEF legs
  <1>4. /\ slots[r].held \cup slots[r].aimed \subseteq Slot
        /\ IsFiniteSet(slots[r].held \cup slots[r].aimed)
        /\ DOMAIN slots[r] = {"held", "aimed"} /\ a.at \in [DOMAIN NewDraft -> Nat]
    BY <1>1 DEF SlotInv, SlotsRight
  <1>5. /\ got.at \in [DOMAIN NewDraft -> Nat]
        /\ got.held = slots[r].held \cup {<<NewDraft[k], got.at[k]>> : k \in DOMAIN NewDraft}
        /\ got.held \subseteq Slot /\ IsFiniteSet(got.held \cup slots[r].aimed)
        /\ \A k \in DOMAIN NewDraft :
             IF k \in DOMAIN a.at /\ <<NewDraft[k], a.at[k]>> \notin slots[r].held
             THEN got.at[k] = a.at[k]
             ELSE \A n : <<NewDraft[k], n>> \in slots[r].held \cup slots[r].aimed => n < got.at[k]
    <2> DEFINE wish == a.at
               keys == NewDraft
               known == slots[r]
    <2>1. keys \in Seq(Value) /\ \A k \in DOMAIN keys \cap DOMAIN wish : wish[k] \in Nat
      BY <1>4, DraftIs
    <2>2. known.held \cup known.aimed \subseteq Slot /\ IsFiniteSet(known.held \cup known.aimed)
      BY <1>4
    <2> HIDE DEF wish, keys, known
    <2>3. LET g == Claims(known, keys, wish) IN
          /\ g.at \in [DOMAIN keys -> Nat]
          /\ g.held = known.held \cup {<<keys[k], g.at[k]>> : k \in DOMAIN keys}
          /\ g.held \subseteq Slot /\ IsFiniteSet(g.held \cup known.aimed)
          /\ \A k \in DOMAIN keys :
               IF k \in DOMAIN wish /\ <<keys[k], wish[k]>> \notin known.held THEN g.at[k] = wish[k]
               ELSE \A n : <<keys[k], n>> \in known.held \cup known.aimed => n < g.at[k]
      BY <2>1, <2>2, ClaimsAre
    <2> QED
      BY <2>3 DEF wish, keys, known
  <1> HIDE DEF got
  <1>6. Attaches(r, t, NewDraft, got.at)
    <2>1. Len(legs) <= Cardinality(FreshRefs)
      BY <1>1, <1>3 DEF Room
    <2>2. Attaches(r, t, Values(legs), got.at)
      BY <1>1, <1>3, <2>1, AttachedAre
    <2> QED
      BY <1>3, <2>2
  <1>7. Attaching(r, NewDraft, got.at)
    <2>1. slots'[r].held = got.held /\ slots'[r].aimed = slots[r].aimed
          /\ DOMAIN slots'[r] = {"held", "aimed"} /\ \A q \in Run \ {r} : slots'[q] = slots[q]
      <3>1. DOMAIN slots = Run /\ slots'[r] = [slots[r] EXCEPT !.held = got.held]
        BY <1>1 DEF TypeOK
      <3> QED
        BY <1>1, <1>4, <3>1
    <2>2. FewerLeft /\ NewDraft' = NewDraft /\ UNCHANGED <<phase, file>>
      BY <1>1 DEF FewerLeft, NewDraft, Carried, TypeOK
    <2>3. got.held = slots[r].held \cup SlotSet(NewDraft, got.at)
      BY <1>5 DEF SlotSet
    <2> QED
      BY <1>1, <1>5, <2>1, <2>2, <2>3 DEF Attaching
  <1>8. DOMAIN a.at = DOMAIN NewDraft
    BY <1>4
  <1> t \in FreshTransactions /\ got.at \in [DOMAIN NewDraft -> Nat]
    BY <1>2, <1>5
  <1>9. WITNESS t \in FreshTransactions, got.at \in [DOMAIN NewDraft -> Nat]
  <1> QED
    BY <1>1, <1>4, <1>5, <1>6, <1>7, <1>8

\* What a run claims for a new transaction of its file is one place of it, and the slots
\* of that place that were not held are among them.
LEMMA HomeOfNew ==
    ASSUME TypeOK, SlotInv, NEW r \in Run, NEW f \in Files, file[r] = f, f.name \notin unsettled,
           phase[r] = "applying", NEW a \in todo[r], a.op = "create", ~StoredWhole(a.at),
           NEW at \in [DOMAIN NewDraft -> Nat],
           \A k \in DOMAIN NewDraft :
             IF <<NewDraft[k], a.at[k]>> \notin slots[r].held THEN at[k] = a.at[k]
             ELSE \A n : <<NewDraft[k], n>> \in slots[r].held \cup slots[r].aimed => n < at[k]
    PROVE  \E h \in 1 .. f.new :
             /\ \A i \in 1 .. f.new : SlotSet(NewDraft, at) \cap Aims(f, i) # {} <=> i = h
             /\ Aims(f, h) \subseteq Held \cup SlotSet(NewDraft, at) /\ ~(Aims(f, h) \subseteq Held)
  <1> DEFINE new == SlotSet(NewDraft, at)
             known == slots[r].held \cup slots[r].aimed
             Wished(k) == <<NewDraft[k], a.at[k]>>
  <1>1. Knows(r, f)
    BY DEF SlotInv, PlacesRight, KnowsSlots
  <1>2. PICK h \in 1 .. f.new : a.at = Place(f, h)
    BY <1>1 DEF Knows
  <1>3. Aims(f, h) = {Wished(k) : k \in DOMAIN NewDraft} /\ Aims(f, h) = SlotsAt(a.at)
    BY <1>2 DEF Aims, AimOf, SlotSet, Place, SlotsAt
  <1>4. ~(Aims(f, h) \subseteq Held)
    BY <1>3 DEF StoredWhole, Held
  <1>5. slots[r].held \subseteq Held /\ \A i \in 1 .. f.new : Aims(f, i) \subseteq known
    BY <1>1 DEF Knows
  <1>6. Theirs(f) \subseteq Slot /\ IsFiniteSet(Theirs(f)) /\ NewDraft \in Seq(Value)
        /\ \A i \in 1 .. f.new : i \in Nat \ {0}
    BY SlotsType, DraftIs, FilesAre DEF Theirs, SlotInv
  <1>7. new = {<<NewDraft[k], at[k]>> : k \in DOMAIN NewDraft}
    BY DEF SlotSet
  <1>8. \A k \in DOMAIN NewDraft :
          IF Wished(k) \notin slots[r].held THEN at[k] = a.at[k]
          ELSE \A n : <<NewDraft[k], n>> \in known => n < at[k]
    OBVIOUS
  <1>9. Aims(f, h) \subseteq Held \cup new
    <2>1. ASSUME NEW k \in DOMAIN NewDraft
          PROVE  Wished(k) \in Held \cup new
      <3>1. CASE Wished(k) \in slots[r].held
        BY <1>5, <3>1
      <3>2. CASE Wished(k) \notin slots[r].held
        BY <1>7, <1>8, <3>2
      <3> QED
        BY <3>1, <3>2
    <2> QED
      BY <1>3, <2>1
  <1>10. new \cap Aims(f, h) # {}
    <2>1. PICK k \in DOMAIN NewDraft : Wished(k) \notin Held
      BY <1>3, <1>4
    <2>2. at[k] = a.at[k]
      BY <1>5, <1>8, <2>1
    <2>3. Wished(k) \in new /\ Wished(k) \in Aims(f, h)
      BY <1>3, <1>7, <2>2
    <2> QED
      BY <2>3
  <1>11. ASSUME NEW i \in 1 .. f.new, new \cap Aims(f, i) # {}
         PROVE  i = h
    <2>1. PICK k \in DOMAIN NewDraft : <<NewDraft[k], at[k]>> \in Aims(f, i)
      BY <1>7, <1>11
    <2>2. <<NewDraft[k], at[k]>> \in known /\ at[k] \in Nat
      BY <1>5, <2>1
    <2>3. at[k] = a.at[k]
      <3>1. ~(at[k] < at[k])
        BY <2>2
      <3> QED
        BY <1>8, <2>2, <3>1
    <2>4. <<NewDraft[k], at[k]>> \in Aims(f, h)
      BY <1>3, <2>3
    <2>5. Aims(f, i) \cap Aims(f, h) # {}
      BY <2>1, <2>4
    <2> QED
      BY <1>6, <2>5, PlacesApart DEF Aims
  <1> HIDE DEF new, known, Wished
  <1>12. \A i \in 1 .. f.new : new \cap Aims(f, i) # {} <=> i = h
    BY <1>10, <1>11
  <1> QED
    BY <1>4, <1>9, <1>12 DEF new

LEMMA CreateTransactionPlaces ==
    ASSUME TypeOK, LegInv, SlotInv, NEW r \in Run, NEW a \in todo[r], CreateTransaction(r, a)
    PROVE  SlotInv'
  <1>1. PICK t \in FreshTransactions, at \in [DOMAIN NewDraft -> Nat] :
          /\ Attaches(r, t, NewDraft, at) /\ Attaching(r, NewDraft, at)
          /\ made' = [made EXCEPT ![t] = [file |-> file[r].name, run |-> r]]
          /\ \A k \in DOMAIN NewDraft :
               IF <<NewDraft[k], a.at[k]>> \notin slots[r].held THEN at[k] = a.at[k]
               ELSE \A n : <<NewDraft[k], n>> \in slots[r].held \cup slots[r].aimed => n < at[k]
    BY CreateTransactionAttaches
  <1> DEFINE new == SlotSet(NewDraft, at)
             Came == ApplyRefs' \ ApplyRefs
             maker == [file |-> file[r].name, run |-> r]
  <1>2. a.op = "create" /\ ~StoredWhole(a.at) /\ UNCHANGED unsettled
    BY DEF CreateTransaction, At
  <1>3. UNCHANGED <<phase, file>> /\ NewDraft' = NewDraft /\ phase[r] = "applying"
    BY <1>1 DEF Attaching
  <1>4. /\ t \in Transaction /\ \A q \in Run : ~Reads(q, t)
        /\ \A x \in Rows : refs[x].owner # t
    BY <1>1, FreshUnread
  <1>5. made'[t] = maker /\ \A u \in Transaction \ {t} : made'[u] = made[u]
    BY <1>1, <1>4 DEF TypeOK
  <1>6. /\ Held' = Held \cup new
        /\ \A f : Theirs(f)' = IF t \in DOMAIN f.wants THEN Theirs(f) \cup new ELSE Theirs(f)
        /\ \A u \in Transaction \ {t} :
             OwnRefs(u)' = OwnRefs(u) /\ SlotsOf(OwnRefs(u))' = SlotsOf(OwnRefs(u))
    BY <1>1, <1>5, AttachedSlots
  <1>7. OwnRefs(t)' = Came /\ SlotsOf(OwnRefs(t))' = new
    <2>1. \A x \in ApplyRefs : refs'[x].owner # t
      <3>1. TAKE x \in ApplyRefs
      <3>2. x \in Rows /\ refs'[x].owner = refs[x].owner
        BY <1>1 DEF Attaches, Same, ApplyRefs
      <3> QED
        BY <1>4, <3>2
    <2>2. \A x \in Came : refs'[x].owner = t /\ refs'[x].batch = r
      BY <1>1 DEF Attaches
    <2>3. OwnRefs(t)' = {x \in ApplyRefs' : refs'[x].owner = t /\ refs'[x].batch = made'[t].run}
      BY DEF OwnRefs
    <2>4. made'[t].run = r
      BY <1>5
    <2>5. OwnRefs(t)' = Came
      BY <2>1, <2>2, <2>3, <2>4
    <2>6. SlotsOf(OwnRefs(t))' = {<<refs'[x].key, refs'[x].occurrence>> : x \in Came}
      <3>1. SlotsOf(OwnRefs(t))'
            = {<<refs'[x].key, refs'[x].occurrence>> : x \in OwnRefs(t)' \cap ApplyRefs'}
        BY DEF SlotsOf
      <3>2. OwnRefs(t)' \cap ApplyRefs' = Came
        BY <2>5
      <3> QED
        BY <3>1, <3>2
    <2>7. {<<refs'[x].key, refs'[x].occurrence>> : x \in Came} = new
      <3>1. /\ \A x \in Came : \E n \in DOMAIN NewDraft :
                 refs'[x].key = NewDraft[n] /\ refs'[x].occurrence = at[n]
            /\ \A n \in DOMAIN NewDraft : \E x \in Came :
                 refs'[x].key = NewDraft[n] /\ refs'[x].occurrence = at[n]
        BY <1>1 DEF Attaches
      <3>2. new = {<<NewDraft[n], at[n]>> : n \in DOMAIN NewDraft}
        BY DEF SlotSet
      <3> HIDE DEF Came, new
      <3>3. \A x \in Came : <<refs'[x].key, refs'[x].occurrence>> \in new
        BY <3>1, <3>2
      <3>4. \A s \in new : \E x \in Came : s = <<refs'[x].key, refs'[x].occurrence>>
        BY <3>1, <3>2
      <3> QED
        BY <3>3, <3>4
    <2> QED
      BY <2>5, <2>6, <2>7
  <1> HIDE DEF new, Came, maker
  <1>8. FilesRight'
    <2>1. ASSUME NEW u \in Transaction, made'[u] # None
          PROVE  /\ phase'[made'[u].run] \in {"applying", "over"}
                 /\ file'[made'[u].run].name = made'[u].file
                 /\ \A q \in Run : file'[q] # None /\ file'[q].name = made'[u].file => ~Reads(q, u)'
      <3>1. CASE u = t
        BY <1>3, <1>4, <1>5, <3>1 DEF Reads, maker
      <3>2. CASE u # t
        BY <1>3, <1>5, <2>1, <3>2 DEF SlotInv, FilesRight, Reads
      <3> QED
        BY <3>1, <3>2
    <2> QED
      BY <1>3, <2>1 DEF SlotInv, FilesRight
  <1>9. SlotsRight'
    <2>1. \A u \in Transaction : made'[u] # None => Cardinality(OwnRefs(u)') <= Len(NewDraft)
      <3>1. Cardinality(OwnRefs(t)') <= Len(NewDraft)
        BY <1>1, <1>7 DEF Attaches, Came
      <3>2. \A u \in Transaction \ {t} : made'[u] # None => Cardinality(OwnRefs(u)') <= Len(NewDraft)
        BY <1>5, <1>6 DEF SlotInv, SlotsRight
      <3> QED
        BY <3>1, <3>2
    <2> QED
      BY <1>1, <2>1, AttachingRight, DraftIs
  <1>10. ASSUME NEW f \in Files', f.name \notin unsettled'
         PROVE  KnowsSlots(f)' /\ HasPlaces(f)'
    <2>1. f \in Files /\ f.name \notin unsettled /\ KnowsSlots(f) /\ HasPlaces(f)
      BY <1>2, <1>3, <1>10 DEF Files, SlotInv, PlacesRight
    <2>2. Theirs(f)' = Theirs(f)
      <3>1. DOMAIN f.wants = DOMAIN f.snap /\ f # None
        BY <2>1, FilesAre DEF SlotInv
      <3>2. t \notin DOMAIN f.snap
        BY <1>4, <2>1, <3>1 DEF Reads, Files
      <3> QED
        BY <1>6, <3>1, <3>2
    <2>3. \A i : Aims(f, i)' = Aims(f, i) /\ Place(f, i)' = Place(f, i)
      BY <1>3, <2>2, AimsOn
    <2>4. KnowsSlots(f)'
      BY <1>1, <1>10, <2>1, <2>3, AttachingKnows
    <2>5. ASSUME NEW u \in AddedBy(f)', u # t
          PROVE  /\ u \in AddedBy(f) /\ SlotsOf(OwnRefs(u))' = SlotsOf(OwnRefs(u))
                 /\ Homes(f, u)' = Homes(f, u)
      <3>1. /\ u \in Transaction /\ made[u] # None /\ made[u].file = f.name
            /\ Cardinality(OwnRefs(u)') = Len(NewDraft)
        BY <1>3, <1>5, <2>5, AddedNext
      <3> QED
        BY <1>6, <2>3, <2>5, <3>1, AddedIs, HomesKept
    <2>6. CASE t \notin AddedBy(f)'
      <3>1. Held \subseteq Held'
        BY <1>6
      <3> QED
        BY <2>1, <2>3, <2>4, <2>5, <2>6, <3>1, PlacesKept
    <2>7. CASE t \in AddedBy(f)'
      <3>1. f = file[r]
        <4>1. made'[t].file = f.name /\ file[r] \in Files
          BY <1>3, <2>7, AddedNext DEF Files, TypeOK
        <4> QED
          BY <1>5, <2>1, <4>1, FilesAre DEF SlotInv, maker
      <3>2. PICK h \in 1 .. f.new :
              /\ \A i \in 1 .. f.new : new \cap Aims(f, i) # {} <=> i = h
              /\ Aims(f, h) \subseteq Held \cup new /\ ~(Aims(f, h) \subseteq Held)
        BY <1>1, <1>2, <1>3, <2>1, <3>1, HomeOfNew DEF new
      <3>3. Homes(f, t)' = {h}
        <4>1. Homes(f, t)' = {i \in 1 .. f.new : SlotsOf(OwnRefs(t))' \cap Aims(f, i)' # {}}
          BY DEF Homes
        <4> QED
          BY <1>7, <2>3, <3>2, <4>1
      <3>4. \A u \in AddedBy(f) : h \notin Homes(f, u)
        BY <2>1, <3>2 DEF HasPlaces
      <3>5. ASSUME NEW u \in AddedBy(f)'
            PROVE  /\ Homes(f, u)' # {}
                   /\ \A i \in Homes(f, u)' : Aims(f, i)' \subseteq Held'
                   /\ \A w \in AddedBy(f)' \ {u} : Homes(f, u)' \cap Homes(f, w)' = {}
        <4>1. CASE u = t
          <5>1. \A w \in AddedBy(f)' \ {t} : h \notin Homes(f, w)'
            BY <2>5, <3>4
          <5> QED
            BY <1>6, <2>3, <3>2, <3>3, <4>1, <5>1
        <4>2. CASE u # t
          <5>1. u \in AddedBy(f) /\ Homes(f, u)' = Homes(f, u) /\ h \notin Homes(f, u)
            BY <2>5, <3>4, <4>2
          <5>2. ASSUME NEW w \in AddedBy(f)' \ {u}
                PROVE  Homes(f, u)' \cap Homes(f, w)' = {}
            <6>1. CASE w = t
              BY <3>3, <5>1, <6>1
            <6>2. CASE w # t
              BY <2>1, <2>5, <5>1, <6>2 DEF HasPlaces
            <6> QED
              BY <6>1, <6>2
          <5>3. Homes(f, u) # {} /\ \A i \in Homes(f, u) : Aims(f, i) \subseteq Held
            BY <2>1, <5>1 DEF HasPlaces
          <5> QED
            BY <1>6, <2>3, <5>1, <5>2, <5>3
        <4> QED
          BY <4>1, <4>2
      <3> QED
        BY <2>4, <3>5 DEF HasPlaces
    <2> QED
      BY <2>6, <2>7
  <1> QED
    BY <1>8, <1>9, <1>10 DEF SlotInv, PlacesRight

LEMMA InitPlaces ==
    ASSUME Init
    PROVE  SlotInv
  <1>1. /\ \A r \in Run : phase[r] = "idle" /\ file[r] = None /\ todo[r] = {} /\ slots[r] = NoSlots
        /\ \A t \in Transaction : made[t] = None
    BY DEF Init
  <1>2. ApplyRefs = {}
    BY DEF Init, ApplyRefs, Rows, Row
  <1>3. Files = {}
    BY <1>1 DEF Files
  <1>4. ASSUME NEW r \in Run
        PROVE  SlotsRightOf(r)
    <2>1. IsFiniteSet({}) /\ NoSlots.held \cup NoSlots.aimed = {} /\ DOMAIN NoSlots = {"held", "aimed"}
      BY FS_EmptySet DEF NoSlots
    <2>2. slots[r] = NoSlots /\ {a \in todo[r] : a.op = "create"} = {} /\ todo[r] = {}
      BY <1>1
    <2> QED
      BY <2>1, <2>2 DEF SlotsRightOf
  <1>5. SlotsRight
    BY <1>1, <1>2, <1>4 DEF SlotsRight, SlotsRightOf
  <1>6. FilesRight
    BY <1>1 DEF FilesRight
  <1> QED
    BY <1>3, <1>5, <1>6 DEF SlotInv, PlacesRight

LEMMA SlotStep ==
    ASSUME TypeOK, LegInv, SlotInv, [Next]_vars
    PROVE  SlotInv'
  <1>1. TypeOK'
    BY LegStep
  <1>2. CASE UNCHANGED vars
    <2>1. UNCHANGED <<phase, file, slots, refs, made, unsettled>> /\ FewerLeft /\ NewDraft' = NewDraft
      BY <1>2 DEF vars, FewerLeft, NewDraft
    <2> QED
      BY <1>1, <2>1, RowsStay
  <1>3. ASSUME NEW r \in Run,
        \/ \E T \in SUBSET Transaction, n \in 0 .. scope.twins :
             \E wants \in [T -> scope.drafts] : ExportFile(r, T, wants, n)
        \/ \E q \in Run : TakeFile(r, q)
        \/ PlanFile(r) \/ StartApply(r) \/ CloseBatch(r)
        \/ \E a \in todo[r] :
             \/ EditTransaction(r, a) \/ CreateTransaction(r, a) \/ DeleteTransaction(r, a)
             \/ LeaveAlone(r, a) \/ StopOnSlot(r, a)
        \/ Discard(r)
        PROVE  SlotInv'
    <2>1. CASE \E T \in SUBSET Transaction, n \in 0 .. scope.twins :
                 \E wants \in [T -> scope.drafts] : ExportFile(r, T, wants, n)
      BY <2>1, ExportFilePlaces
    <2>2. CASE (\E q \in Run : TakeFile(r, q)) \/ PlanFile(r)
      BY <2>2, TakeFilePlaces, PlanFilePlaces
    <2>3. CASE \/ StartApply(r) \/ CloseBatch(r)
               \/ \E a \in todo[r] : LeaveAlone(r, a) \/ StopOnSlot(r, a)
      BY <2>3, NothingWrittenPlaces
    <2>4. CASE \E a \in todo[r] :
                 EditTransaction(r, a) \/ CreateTransaction(r, a) \/ DeleteTransaction(r, a)
      BY <1>1, <2>4, EditTransactionPlaces, CreateTransactionPlaces, DeleteTransactionPlaces
    <2>5. CASE Discard(r)
      BY <1>1, <2>5, DiscardPlaces
    <2> QED
      BY <1>3, <2>1, <2>2, <2>3, <2>4, <2>5
  <1>4. CASE \E t \in Transaction :
        \/ EditByUser(t)
        \/ \E i \in 1 .. Len(stored[t].legs), line \in Line : Adopt(t, i, line)
        \/ \E m \in Mark : Reconcile(t, m)
        \/ DeleteKeeping(t) \/ DeleteForgetting(t)
    BY <1>1, <1>4, UserActsPlace
  <1>5. ASSUME NEW e \in Editor,
        \/ \E t \in Transaction : ReadForEdit(e, t)
        \/ WriteEdit(e) \/ AbandonEdit(e)
        PROVE  SlotInv'
    <2>1. CASE WriteEdit(e)
      BY <1>1, <2>1, EditsPlace
    <2>2. CASE AbandonEdit(e) \/ \E t \in Transaction : ReadForEdit(e, t)
      <3>1. UNCHANGED <<phase, file, slots, todo, scope, refs, made, unsettled>>
        BY <2>2 DEF ReadForEdit, AbandonEdit, tables, runs, history
      <3>2. FewerLeft /\ NewDraft' = NewDraft
        BY <3>1 DEF FewerLeft, NewDraft
      <3> QED
        BY <1>1, <3>1, <3>2, RowsStay
    <2> QED
      BY <1>5, <2>1, <2>2
  <1>6. CASE \E x \in Ref : FreeSlot(x)
    BY <1>1, <1>6, FreeSlotPlaces
  <1> QED
    BY <1>2, <1>3, <1>4, <1>5, <1>6 DEF Next

LEMMA SlotAlways == Spec => [](TypeOK /\ LegInv /\ SlotInv)
  <1>1. Init => TypeOK /\ LegInv /\ SlotInv
    BY InitLegs, InitPlaces
  <1>2. (TypeOK /\ LegInv /\ SlotInv) /\ [Next]_vars => (TypeOK /\ LegInv /\ SlotInv)'
    BY LegStep, SlotStep
  <1> QED
    BY <1>1, <1>2, PTL DEF Spec

\* A file adds no transaction twice: each of those it added has a place of its own among
\* the new ones of the file, however often the file is applied, by runs one after the other
\* or at once, as long as nobody frees a slot from under it or moves its positions (apply.rs:
\* Slots, settle, stored_whole, claim; "a rerun finds each one at the slot it took").
THEOREM FilesAddOnce == Spec => []CreatedOnce
  <1>1. ASSUME TypeOK, SlotInv, NEW f \in Files, f.name \notin unsettled
        PROVE  Cardinality(AddedBy(f)) <= f.new
    <2> DEFINE home == [t \in AddedBy(f) |-> CHOOSE i \in Homes(f, t) : TRUE]
    <2>1. HasPlaces(f) /\ f.new \in Nat
      BY <1>1, FilesAre DEF SlotInv, PlacesRight
    <2>2. \A t \in AddedBy(f) : home[t] \in Homes(f, t)
      BY <2>1 DEF HasPlaces
    <2>3. home \in Injection(AddedBy(f), 1 .. f.new)
      <3>1. \A t \in AddedBy(f) : home[t] \in 1 .. f.new
        BY <2>2 DEF Homes
      <3>2. \A t, u \in AddedBy(f) : home[t] = home[u] => t = u
        BY <2>1, <2>2 DEF HasPlaces
      <3>3. home \in [AddedBy(f) -> 1 .. f.new]
        BY <3>1
      <3> HIDE DEF home
      <3> QED
        BY <3>2, <3>3 DEF Injection, IsInjective
    <2> HIDE DEF home
    <2> QED
      BY <2>1, <2>3, FS_Injection, Counting
  <1>2. TypeOK /\ LegInv /\ SlotInv => CreatedOnce
    BY <1>1 DEF CreatedOnce
  <1> QED
    BY <1>2, SlotAlways, PTL

=============================================================================
