--------------------------- MODULE TransfersProofs --------------------------
(***************************************************************************)
(* Proofs about Transfers: that references follow their legs through every *)
(* merge and unmerge, that a merge fuses two legs, that the log of open    *)
(* merges is right about the tables, that an unmerge brings a leg back as  *)
(* it was merged, and that headers come back with every edit made while    *)
(* they were merged.                                                       *)
(*                                                                         *)
(* Legs and logs come first: headers play no part in them, and what a      *)
(* record or a call says of them is left open.  Types and headers follow.  *)
(***************************************************************************)
EXTENDS Transfers, FiniteSetTheorems, SequenceTheorems, TLAPS

-----------------------------------------------------------------------------
(* Sequences.                                                              *)

\* A log is a sequence of whatever is in it.
IsLog(q) == q \in Seq(ToSet(q))

LEMMA SeqIsLog ==
    ASSUME NEW S, NEW q \in Seq(S)
    PROVE  /\ IsLog(q) /\ DOMAIN q = 1 .. Len(q) /\ Len(q) \in Nat
           /\ ToSet(q) \subseteq S
  <1>1. q \in [1 .. Len(q) -> S] /\ DOMAIN q = 1 .. Len(q) /\ Len(q) \in Nat
    OBVIOUS
  <1>2. q \in [1 .. Len(q) -> ToSet(q)]
    BY <1>1 DEF ToSet
  <1>3. IsLog(q)
    BY <1>1, <1>2, SeqDef DEF IsLog
  <1> QED
    BY <1>1, <1>3 DEF ToSet

LEMMA LogDomain ==
    ASSUME NEW q, IsLog(q)
    PROVE  DOMAIN q = 1 .. Len(q) /\ Len(q) \in Nat
  BY DEF IsLog

LEMMA AppendLog ==
    ASSUME NEW q, IsLog(q), NEW e
    PROVE  /\ IsLog(Append(q, e)) /\ Len(Append(q, e)) = Len(q) + 1
           /\ DOMAIN Append(q, e) = DOMAIN q \cup {Len(q) + 1}
           /\ Len(q) + 1 \notin DOMAIN q
           /\ \A i \in DOMAIN q : Append(q, e)[i] = q[i]
           /\ Append(q, e)[Len(q) + 1] = e
  <1> DEFINE S == ToSet(q) \cup {e}
  <1>1. q \in Seq(S) /\ e \in S
    BY SeqMonotonic DEF IsLog
  <1> HIDE DEF S
  <1>2. /\ Append(q, e) \in Seq(S) /\ Len(Append(q, e)) = Len(q) + 1
        /\ \A i \in 1 .. Len(q) : Append(q, e)[i] = q[i]
        /\ Append(q, e)[Len(q) + 1] = e
    BY <1>1, AppendProperties
  <1>3. IsLog(Append(q, e)) /\ DOMAIN Append(q, e) = 1 .. Len(q) + 1
    BY <1>2, SeqIsLog
  <1>4. DOMAIN q = 1 .. Len(q) /\ Len(q) \in Nat
    BY LogDomain
  <1> QED
    BY <1>2, <1>3, <1>4

LEMMA FrontLog ==
    ASSUME NEW q, IsLog(q)
    PROVE  /\ IsLog(Front(q)) /\ Len(Front(q)) <= Len(q)
           /\ DOMAIN Front(q) = DOMAIN q \ {Len(q)}
           /\ \A i \in DOMAIN Front(q) : Front(q)[i] = q[i]
  <1>1. q \in Seq(ToSet(q)) /\ DOMAIN q = 1 .. Len(q) /\ Len(q) \in Nat
    BY LogDomain DEF IsLog
  <1>2. Front(q) = SubSeq(q, 1, Len(q) - 1)
    BY DEF Front
  <1>3. Front(q) = [i \in 1 .. Len(q) - 1 |-> q[i]]
    BY <1>1, <1>2
  <1>4. Front(q) \in Seq(ToSet(q)) /\ Len(Front(q)) <= Len(q)
    BY <1>1, <1>2
  <1>5. DOMAIN Front(q) = 1 .. Len(q) - 1 /\ \A i \in 1 .. Len(q) - 1 : Front(q)[i] = q[i]
    BY <1>3
  <1>6. 1 .. Len(q) - 1 = DOMAIN q \ {Len(q)}
    BY <1>1
  <1>7. IsLog(Front(q))
    BY <1>4, SeqIsLog
  <1> QED
    BY <1>4, <1>5, <1>6, <1>7

LEMMA MapLog ==
    ASSUME NEW q, IsLog(q), NEW r, DOMAIN r = DOMAIN q, r = [i \in DOMAIN q |-> r[i]]
    PROVE  IsLog(r) /\ Len(r) = Len(q)
  <1>1. DOMAIN r = 1 .. Len(q) /\ Len(q) \in Nat
    BY LogDomain
  <1>2. r \in [1 .. Len(q) -> ToSet(r)]
    BY <1>1 DEF ToSet
  <1>3. IsLog(r)
    BY <1>1, <1>2, SeqDef DEF IsLog
  <1> QED
    BY <1>1, <1>3, LogDomain

-----------------------------------------------------------------------------
(* The invariant.                                                          *)

\* A record of a merge into s, and what a caller has read; headers are left open.
RecordShape(m, s) ==
    m \in [absorbed : Transaction \ {s}, was : {m.was}, before : {m.before}, leg : Posting,
           sources : SUBSET Ref, edited : BOOLEAN, value : Value]

CallShape(k) ==
    k # None =>
        /\ k.op = "merge" =>
             /\ k.survivor \in Transaction /\ k.absorbed \in Transaction
             /\ k.survivor # k.absorbed /\ k.leg \in Posting /\ k.sources \subseteq Ref
        /\ k.op = "unmerge" =>
             /\ k.survivor \in Transaction /\ RecordShape(k.record, k.survivor)
             /\ ~k.record.edited

Shapes ==
    /\ txns \subseteq Transaction /\ torn \subseteq Transaction
    /\ legs \in [Posting -> [tx : Transaction \cup {None}, value : Value]]
    /\ refs \in [Ref -> [tx : Transaction \cup {None}, leg : Posting \cup {None}]]
    /\ DOMAIN merges = Transaction
    /\ \A s \in Transaction :
         IsLog(merges[s]) /\ \A i \in DOMAIN merges[s] : RecordShape(merges[s][i], s)
    /\ \A c \in DOMAIN call : CallShape(call[c])

\* A leg is on a transaction there is; a reference to nothing names no leg.
Rows ==
    /\ \A p \in Posting : legs[p].tx # None => legs[p].tx \in txns
    /\ \A r \in Ref : refs[r].tx = None => refs[r].leg = None

\* No log names a transaction there is, and no two records name the same one.
NamedOnce ==
    /\ \A a \in txns \ torn, s \in Transaction : \A i \in DOMAIN merges[s] :
         merges[s][i].absorbed # a
    /\ \A a \in Transaction \ torn, s, u \in Transaction :
         \A i \in DOMAIN merges[s], j \in DOMAIN merges[u] :
             merges[s][i].absorbed = a /\ merges[u][j].absorbed = a => s = u /\ i = j

\* The records of one log that no edit touched are about different legs.
LegsApart ==
    \A s \in Transaction \ torn : \A i, j \in DOMAIN merges[s] :
        i # j => \/ merges[s][i].edited \/ merges[s][j].edited
                 \/ merges[s][i].leg # merges[s][j].leg

\* What a transaction absorbed before it was absorbed itself went along: its own
\* records are about the leg, and the value, that the record naming it is about.
LogsAgree ==
    \A s \in Transaction \ torn, u \in Transaction :
        \A i \in DOMAIN merges[s], j \in DOMAIN merges[u] :
            merges[u][j].absorbed = s =>
                \/ merges[s][i].edited
                \/ /\ merges[s][i].leg = merges[u][j].leg
                   /\ merges[s][i].value = merges[u][j].value

\* A record no edit touched has its leg on the survivor, as it was merged.
LegsStand ==
    \A s \in txns \ torn : \A i \in DOMAIN merges[s] :
        \/ merges[s][i].edited
        \/ legs[merges[s][i].leg] = [tx |-> s, value |-> merges[s][i].value]

LogInv == NamedOnce /\ LegsApart /\ LogsAgree /\ LegsStand

\* The references a record or a merge under way has noted are those that name its
\* leg, and they name no other, late ones apart.
NotedBy(k, p, S) ==
    /\ k # None
    /\ \/ k.op = "merge" /\ k.leg = p /\ k.sources = S
       \/ k.op = "unmerge" /\ k.record.leg = p /\ k.record.sources = S

Noted(p, S) ==
    \/ \E s \in Transaction : \E i \in DOMAIN merges[s] :
         merges[s][i].leg = p /\ merges[s][i].sources = S
    \/ \E c \in DOMAIN call : NotedBy(call[c], p, S)

Sourced ==
    \A p \in Posting, S \in SUBSET Ref : Noted(p, S) =>
        \A r \in Ref \ late : refs[r].leg # None => (refs[r].leg = p <=> r \in S)

RefInv == Sourced /\ ReferencesFollow

TransferInv == Shapes /\ Rows /\ LogInv /\ RefInv

-----------------------------------------------------------------------------
(* Steps that add nothing to a log.                                        *)

Same(n, m) ==
    /\ n.absorbed = m.absorbed /\ n.leg = m.leg /\ n.value = m.value
    /\ m.edited => n.edited

LEMMA LogKept ==
    ASSUME LogInv, txns' \ torn' \subseteq txns \ torn, torn \subseteq torn',
           \A s \in Transaction : \A i \in DOMAIN merges'[s] :
               i \in DOMAIN merges[s] /\ Same(merges'[s][i], merges[s][i]),
           \A s \in txns' \ torn' : s \in Transaction /\ \A i \in DOMAIN merges'[s] :
               merges'[s][i].edited \/ legs'[merges[s][i].leg] = legs[merges[s][i].leg]
    PROVE  LogInv'
  <1>1. NamedOnce'
    BY DEF LogInv, NamedOnce, Same
  <1>2. LegsApart'
    BY DEF LogInv, LegsApart, Same
  <1>3. LogsAgree'
    BY DEF LogInv, LogsAgree, Same
  <1>4. LegsStand'
    <2> SUFFICES ASSUME NEW s \in txns' \ torn', NEW i \in DOMAIN merges'[s], ~merges'[s][i].edited
                 PROVE  legs'[merges'[s][i].leg] = [tx |-> s, value |-> merges'[s][i].value]
      BY DEF LegsStand
    <2>1. s \in txns \ torn /\ s \in Transaction
      OBVIOUS
    <2>2. i \in DOMAIN merges[s] /\ Same(merges'[s][i], merges[s][i])
      BY <2>1
    <2>3. legs[merges[s][i].leg] = [tx |-> s, value |-> merges[s][i].value]
      BY <2>1, <2>2 DEF LogInv, LegsStand, Same
    <2>4. legs'[merges[s][i].leg] = legs[merges[s][i].leg]
      OBVIOUS
    <2> QED
      BY <2>2, <2>3, <2>4 DEF Same
  <1> QED
    BY <1>1, <1>2, <1>3, <1>4 DEF LogInv

\* Noting no more, and no reference naming another leg or being a new one, keeps
\* what is noted so.
LEMMA SourcedKept ==
    ASSUME Sourced,
           \A p \in Posting, S \in SUBSET Ref : Noted(p, S)' => Noted(p, S),
           \A r \in Ref \ late' :
               \/ r \notin late /\ refs'[r].leg \in {refs[r].leg, None}
               \/ \A p \in Posting, S \in SUBSET Ref :
                    Noted(p, S) => r \notin S /\ refs'[r].leg # p
    PROVE  Sourced'
  <1> SUFFICES ASSUME NEW p \in Posting, NEW S \in SUBSET Ref, Noted(p, S)',
                      NEW r \in Ref \ late', refs'[r].leg # None
               PROVE  refs'[r].leg = p <=> r \in S
    BY DEF Sourced
  <1>1. Noted(p, S)
    OBVIOUS
  <1>2. CASE r \notin late /\ refs'[r].leg \in {refs[r].leg, None}
    BY <1>1, <1>2 DEF Sourced
  <1>3. CASE \A l \in Posting, T \in SUBSET Ref : Noted(l, T) => r \notin T /\ refs'[r].leg # l
    BY <1>1, <1>3
  <1> QED
    BY <1>2, <1>3

\* Ids given anew: a row nobody has, and no log or call names.
LEMMA NotedIsNamed ==
    ASSUME NEW p, NEW S, Noted(p, S)
    PROVE  \E m \in Records \cup Merging : m.leg = p /\ m.sources = S
  <1>1. CASE \E s \in Transaction : \E i \in DOMAIN merges[s] :
               merges[s][i].leg = p /\ merges[s][i].sources = S
    BY <1>1 DEF Records, ToSet
  <1>2. CASE \E c \in DOMAIN call : NotedBy(call[c], p, S)
    <2>1. PICK c \in DOMAIN call : NotedBy(call[c], p, S)
      BY <1>2
    <2>2. CASE call[c].op = "merge" /\ call[c].leg = p /\ call[c].sources = S
      BY <2>1, <2>2 DEF Merging, NotedBy
    <2>3. CASE call[c].op = "unmerge" /\ call[c].record.leg = p /\ call[c].record.sources = S
      BY <2>1, <2>3 DEF Records, Reading, NotedBy
    <2> QED
      BY <2>1, <2>2, <2>3 DEF NotedBy
  <1> QED
    BY <1>1, <1>2 DEF Noted

LEMMA NewLegIs ==
    ASSUME NEW p \in NewLegs
    PROVE  p \in Posting /\ legs[p] = NoLeg /\ \A S : ~Noted(p, S)
  <1>1. p \in {x \in Posting : /\ legs[x] = NoLeg
                               /\ \A m \in Records \cup Merging : m.leg # x
                               /\ \A k \in Opened : x \notin DOMAIN k.legs}
    BY DEF NewLegs, AnyOf
  <1> QED
    BY <1>1, NotedIsNamed

LEMMA NewRefIs ==
    ASSUME NEW r \in NewRefs
    PROVE  r \in Ref /\ refs[r] = NoRef /\ \A p, S : Noted(p, S) => r \notin S
  <1>1. r \in {x \in Ref : refs[x] = NoRef /\ \A m \in Records \cup Merging : x \notin m.sources}
    BY DEF NewRefs, AnyOf
  <1> QED
    BY <1>1, NotedIsNamed

\* A record's leg is noted.
LEMMA RecordNotes ==
    ASSUME NEW s \in Transaction, NEW i \in DOMAIN merges[s]
    PROVE  Noted(merges[s][i].leg, merges[s][i].sources)
  BY DEF Noted

-----------------------------------------------------------------------------
(* Reading.                                                                *)

\* A caller that has read a pair notes the one leg of the absorbed, and exactly
\* the references that name it.
LEMMA ReadMergeKeeps ==
    ASSUME TransferAssumption, TransferInv, NEW c \in DOMAIN call,
           NEW s \in Transaction, NEW a \in Transaction, ReadMerge(c, s, a)
    PROVE  TransferInv'
  <1>1. PICK p \in LegsOf(a) :
             call' = [call EXCEPT ![c] =
                 [op |-> "merge", survivor |-> s, absorbed |-> a, shown |-> header[s],
                  was |-> header[a], leg |-> p, sources |-> RefsOf(a)]]
    BY DEF ReadMerge
  <1>2. UNCHANGED <<txns, legs, refs, merges, torn, late>>
    BY DEF ReadMerge
  <1>3. /\ DOMAIN call' = DOMAIN call /\ \A d \in DOMAIN call : d # c => call'[d] = call[d]
        /\ call'[c].op = "merge" /\ call'[c].survivor = s /\ call'[c].absorbed = a
        /\ call'[c].leg = p /\ call'[c].sources = RefsOf(a)
    BY <1>1
  <1>4. s # a /\ p \in Posting /\ RefsOf(a) \subseteq Ref
    BY DEF ReadMerge, LegsOf, RefsOf
  <1>5. Shapes'
    <2>1. \A d \in DOMAIN call' : CallShape(call'[d])
      BY <1>3, <1>4 DEF CallShape, TransferInv, Shapes
    <2>2. \A u \in Transaction :
            IsLog(merges'[u]) /\ \A i \in DOMAIN merges'[u] : RecordShape(merges'[u][i], u)
      BY <1>2 DEF TransferInv, Shapes
    <2> QED
      BY <1>2, <2>1, <2>2 DEF TransferInv, Shapes
  <1>6. Rows' /\ ReferencesFollow'
    BY <1>2 DEF TransferInv, Rows, RefInv, ReferencesFollow
  <1>7. LogInv'
    BY <1>2 DEF TransferInv, LogInv, NamedOnce, LegsApart, LogsAgree, LegsStand
  <1>8. Sourced'
    <2>1. LegsOf(a) = {p}
      BY DEF ReadMerge, Mergeable
    <2>2. ASSUME NEW l \in Posting, NEW S \in SUBSET Ref, Noted(l, S)'
          PROVE  Noted(l, S) \/ (l = p /\ S = RefsOf(a))
      BY <1>2, <1>3, <2>2 DEF Noted, NotedBy
    <2>3. ASSUME NEW r \in Ref \ late, refs[r].leg # None
          PROVE  refs[r].leg = p <=> r \in RefsOf(a)
      <3>1. refs[r].leg \in Posting /\ legs[refs[r].leg].tx = refs[r].tx
        BY <2>3 DEF TransferInv, Shapes, RefInv, ReferencesFollow
      <3> QED
        BY <2>1, <3>1 DEF LegsOf, RefsOf
    <2> QED
      BY <1>2, <2>2, <2>3 DEF TransferInv, RefInv, Sourced
  <1> QED
    BY <1>5, <1>6, <1>7, <1>8 DEF TransferInv, RefInv

\* A caller that has read a log holds a record of it.
LEMMA ReadLogKeeps ==
    ASSUME TransferAssumption, TransferInv, NEW c \in DOMAIN call,
           NEW s \in Transaction, ReadLog(c, s)
    PROVE  TransferInv'
  <1> DEFINE m == Last(merges[s])
  <1>1. /\ call' = [call EXCEPT ![c] =
              [op |-> "unmerge", survivor |-> s, record |-> m, meta |-> header[s].meta]]
        /\ merges[s] # <<>> /\ ~m.edited
    BY DEF ReadLog
  <1>2. UNCHANGED <<txns, legs, refs, merges, torn, late>>
    BY DEF ReadLog
  <1>3. Len(merges[s]) \in DOMAIN merges[s] /\ m = merges[s][Len(merges[s])]
    <2>1. merges[s] \in Seq(ToSet(merges[s]))
      BY DEF TransferInv, Shapes, IsLog
    <2> QED
      BY <1>1, <2>1 DEF Last
  <1>4. RecordShape(m, s) /\ Noted(m.leg, m.sources)
    BY <1>3, RecordNotes DEF TransferInv, Shapes
  <1> HIDE DEF m
  <1>5. /\ DOMAIN call' = DOMAIN call /\ \A d \in DOMAIN call : d # c => call'[d] = call[d]
        /\ call'[c].op = "unmerge" /\ call'[c].survivor = s /\ call'[c].record = m
    BY <1>1
  <1>6. Shapes'
    <2>1. \A d \in DOMAIN call' : CallShape(call'[d])
      BY <1>1, <1>4, <1>5 DEF CallShape, TransferInv, Shapes
    <2>2. \A u \in Transaction :
            IsLog(merges'[u]) /\ \A i \in DOMAIN merges'[u] : RecordShape(merges'[u][i], u)
      BY <1>2 DEF TransferInv, Shapes
    <2> QED
      BY <1>2, <2>1, <2>2 DEF TransferInv, Shapes
  <1>7. Rows' /\ ReferencesFollow'
    BY <1>2 DEF TransferInv, Rows, RefInv, ReferencesFollow
  <1>8. LogInv'
    BY <1>2 DEF TransferInv, LogInv, NamedOnce, LegsApart, LogsAgree, LegsStand
  <1>9. Sourced'
    <2>1. \A p \in Posting, S \in SUBSET Ref : Noted(p, S)' => Noted(p, S)
      BY <1>2, <1>4, <1>5 DEF Noted, NotedBy
    <2>2. \A r \in Ref \ late' : r \notin late /\ refs'[r].leg \in {refs[r].leg, None}
      BY <1>2
    <2> QED
      BY <2>1, <2>2, SourcedKept DEF TransferInv, RefInv
  <1> QED
    BY <1>6, <1>7, <1>8, <1>9 DEF TransferInv, RefInv

-----------------------------------------------------------------------------
(* Merging.                                                                *)

\* A count of one is one leg.
LEMMA OneLeg ==
    ASSUME TransferAssumption, NEW t, Cardinality(LegsOf(t)) = 1
    PROVE  \E p \in Posting : LegsOf(t) = {p}
  <1>1. LegsOf(t) \in SUBSET Posting /\ IsFiniteSet(Posting)
    BY DEF LegsOf, TransferAssumption
  <1>2. IsFiniteSet(LegsOf(t))
    BY <1>1, FS_Subset
  <1> QED
    BY <1>1, <1>2, FS_Singleton

\* The record a merge writes, and what it does to legs and references.
Fused(k, p, q, m) ==
    /\ p \in Posting /\ q \in Posting /\ p # q
    /\ LegsOf(k.survivor) = {p} /\ LegsOf(k.absorbed) = {q}
    /\ k.survivor \in txns /\ k.absorbed \in txns
    /\ m.absorbed = k.absorbed /\ m.leg = k.leg /\ m.sources = k.sources
    /\ ~m.edited /\ m.value = legs[k.leg].value /\ RecordShape(m, k.survivor)
    /\ merges' = [merges EXCEPT ![k.survivor] = Append(@, m)]
    /\ legs' = [legs EXCEPT ![q].tx = k.survivor]
    /\ refs' = [r \in Ref |->
           IF refs[r].tx = k.absorbed THEN [refs[r] EXCEPT !.tx = k.survivor] ELSE refs[r]]
    /\ txns' = txns \ {k.absorbed}
    /\ torn' = torn \cup IF q # k.leg THEN {k.survivor, k.absorbed} ELSE {}

LEMMA MergeFuses ==
    ASSUME TransferAssumption, TransferInv, NEW c \in DOMAIN call, Merge(c)
    PROVE  /\ call' = [call EXCEPT ![c] = None] /\ late' = late
           /\ call[c] # None /\ call[c].op = "merge"
           /\ call[c].survivor \in Transaction /\ call[c].absorbed \in Transaction
           /\ call[c].survivor # call[c].absorbed
           /\ call[c].leg \in Posting /\ call[c].sources \subseteq Ref
           /\ \/ UNCHANGED <<txns, legs, refs, merges, torn>>
              \/ \E p, q, m : Fused(call[c], p, q, m)
  <1> DEFINE k == call[c]
             s == call[c].survivor
             a == call[c].absorbed
             m == [absorbed |-> a, was |-> k.was, before |-> k.shown, leg |-> k.leg,
                   sources |-> k.sources, edited |-> FALSE, value |-> legs[k.leg].value]
  <1>1. k # None /\ k.op = "merge" /\ call' = [call EXCEPT ![c] = None] /\ late' = late
    BY DEF Merge
  <1>2. /\ s \in Transaction /\ a \in Transaction /\ s # a
        /\ k.leg \in Posting /\ k.sources \subseteq Ref
    BY <1>1 DEF TransferInv, Shapes, CallShape
  <1>3. ASSUME StillOneSided(k), merges' = [merges EXCEPT ![s] = Append(@, m)],
               refs' = [r \in Ref |->
                   IF r \in RefsOf(a) THEN [refs[r] EXCEPT !.tx = s] ELSE refs[r]],
               legs' = [p \in Posting |->
                   IF p \in LegsOf(a) THEN [legs[p] EXCEPT !.tx = s] ELSE legs[p]],
               txns' = txns \ {a},
               torn' = torn \cup IF LegsOf(a) # {k.leg} THEN {s, a} ELSE {}
        PROVE  \E p, q, n : Fused(k, p, q, n)
    <2>1. PICK p \in Posting : LegsOf(s) = {p}
      BY <1>3, OneLeg DEF StillOneSided
    <2>2. PICK q \in Posting : LegsOf(a) = {q}
      BY <1>3, OneLeg DEF StillOneSided
    <2>3. legs[p].tx = s /\ legs[q].tx = a /\ None \notin {s, a}
      BY <1>2, <2>1, <2>2 DEF LegsOf, TransferAssumption
    <2>4. p # q /\ s \in txns /\ a \in txns
      BY <1>2, <2>3 DEF TransferInv, Rows
    <2>5. legs' = [legs EXCEPT ![q].tx = s]
      BY <1>3, <2>2 DEF TransferInv, Shapes
    <2>6. refs' = [r \in Ref |->
             IF refs[r].tx = a THEN [refs[r] EXCEPT !.tx = s] ELSE refs[r]]
      BY <1>3 DEF RefsOf
    <2>7. legs[k.leg].value \in Value
      BY <1>2 DEF TransferInv, Shapes
    <2>8. /\ m.absorbed = a /\ m.leg = k.leg /\ m.sources = k.sources /\ m.edited = FALSE
          /\ m.value = legs[k.leg].value
          /\ m \in [absorbed : Transaction \ {s}, was : {m.was}, before : {m.before},
                    leg : Posting, sources : SUBSET Ref, edited : BOOLEAN, value : Value]
      BY <1>2, <2>7
    <2> HIDE DEF m
    <2>9. RecordShape(m, s)
      BY <2>8 DEF RecordShape
    <2>10. torn' = torn \cup IF q # k.leg THEN {s, a} ELSE {}
      BY <1>3, <2>2
    <2>11. Fused(k, p, q, m)
      BY <1>3, <2>1, <2>2, <2>4, <2>5, <2>6, <2>8, <2>9, <2>10 DEF Fused
    <2> QED
      BY <2>11
  <1>4. \/ UNCHANGED <<txns, legs, refs, merges, torn>>
        \/ \E p, q, n : Fused(k, p, q, n)
    BY <1>3 DEF Merge
  <1> QED
    BY <1>1, <1>2, <1>4

\* A call that ends forgets what it noted.
LEMMA EndsNoting ==
    ASSUME NEW c \in DOMAIN call, call' = [call EXCEPT ![c] = None],
           TransferInv, txns' \subseteq Transaction
    PROVE  /\ \A d \in DOMAIN call' : CallShape(call'[d])
           /\ \A p, S : (\E d \in DOMAIN call' : NotedBy(call'[d], p, S)) => Noted(p, S)
  BY DEF TransferInv, Shapes, CallShape, NotedBy, Noted

\* A call that fails changes nothing else.
LEMMA CallEndsKeeps ==
    ASSUME TransferInv, NEW c \in DOMAIN call, call' = [call EXCEPT ![c] = None],
           UNCHANGED <<txns, legs, refs, merges, torn>>, late' = late
    PROVE  TransferInv'
  <1>1. txns' \subseteq Transaction
    BY DEF TransferInv, Shapes
  <1>2. /\ \A d \in DOMAIN call' : CallShape(call'[d])
        /\ \A p, S : (\E d \in DOMAIN call' : NotedBy(call'[d], p, S)) => Noted(p, S)
    BY <1>1, EndsNoting
  <1>3. Shapes'
    BY <1>2 DEF TransferInv, Shapes
  <1>4. Rows' /\ ReferencesFollow'
    BY DEF TransferInv, Rows, RefInv, ReferencesFollow
  <1>5. LogInv'
    BY DEF TransferInv, LogInv, NamedOnce, LegsApart, LogsAgree, LegsStand
  <1>6. Sourced'
    <2>1. \A p \in Posting, S \in SUBSET Ref : Noted(p, S)' => Noted(p, S)
      BY <1>2 DEF Noted
    <2> QED
      BY <2>1 DEF TransferInv, RefInv, Sourced
  <1> QED
    BY <1>3, <1>4, <1>5, <1>6 DEF TransferInv, RefInv

\* Where a fusing merge leaves each leg and each log.
LegMoved(s, a, q) ==
    /\ legs[q].tx = a /\ legs'[q] = [tx |-> s, value |-> legs[q].value]
    /\ \A x \in Posting : x # q => legs'[x] = legs[x] /\ legs[x].tx # a

LogGrown(s, m) ==
    LET n == Len(merges[s]) + 1 IN
    /\ \A u \in Transaction : u # s => merges'[u] = merges[u]
    /\ IsLog(merges'[s]) /\ Len(merges'[s]) = n
    /\ DOMAIN merges'[s] = DOMAIN merges[s] \cup {n} /\ n \notin DOMAIN merges[s]
    /\ merges'[s][n] = m /\ \A i \in DOMAIN merges[s] : merges'[s][i] = merges[s][i]

LEMMA FusedIs ==
    ASSUME TransferInv, NEW k, k.survivor \in Transaction, k.absorbed \in Transaction,
           k.survivor # k.absorbed, k.leg \in Posting, NEW p, NEW q, NEW m, Fused(k, p, q, m)
    PROVE  LegMoved(k.survivor, k.absorbed, q) /\ LogGrown(k.survivor, m)
  <1> DEFINE s == k.survivor
             a == k.absorbed
  <1>1. legs'[q] = [tx |-> s, value |-> legs[q].value] /\ \A x \in Posting : x # q => legs'[x] = legs[x]
    BY DEF Fused, TransferInv, Shapes
  <1>2. legs[q].tx = a /\ \A x \in Posting : x # q => legs[x].tx # a
    BY DEF Fused, LegsOf
  <1>3. /\ merges'[s] = Append(merges[s], m) /\ IsLog(merges[s])
        /\ \A u \in Transaction : u # s => merges'[u] = merges[u]
    BY DEF Fused, TransferInv, Shapes
  <1> HIDE DEF s, a
  <1>4. LegMoved(s, a, q)
    BY <1>1, <1>2 DEF LegMoved
  <1>5. LogGrown(s, m)
    BY <1>3, AppendLog DEF LogGrown
  <1> QED
    BY <1>4, <1>5 DEF s, a

LEMMA FusingKeepsLog ==
    ASSUME TransferInv, NEW k, k.survivor \in Transaction, k.absorbed \in Transaction,
           k.survivor # k.absorbed, k.leg \in Posting, NEW p, NEW q, NEW m, Fused(k, p, q, m)
    PROVE  LogInv'
  <1> DEFINE s == k.survivor
             a == k.absorbed
             n == Len(merges[s]) + 1
  <1>1. /\ legs'[q] = [tx |-> s, value |-> legs[q].value] /\ legs[q].tx = a
        /\ \A x \in Posting : x # q => legs'[x] = legs[x] /\ legs[x].tx # a
        /\ \A u \in Transaction : u # s => merges'[u] = merges[u]
        /\ DOMAIN merges'[s] = DOMAIN merges[s] \cup {n} /\ n \notin DOMAIN merges[s]
        /\ merges'[s][n] = m /\ \A i \in DOMAIN merges[s] : merges'[s][i] = merges[s][i]
    <2>1. LegMoved(s, a, q) /\ LogGrown(s, m)
      BY FusedIs
    <2> HIDE DEF s, a
    <2> QED
      BY <2>1 DEF LegMoved, LogGrown
  <1>2. /\ s \in Transaction /\ a \in Transaction /\ s # a /\ s \in txns /\ a \in txns
        /\ q \in Posting /\ m.absorbed = a /\ m.leg = k.leg /\ ~m.edited
        /\ m.value = legs[k.leg].value /\ txns' = txns \ {a} /\ txns \subseteq Transaction
        /\ torn' = torn \cup IF q # k.leg THEN {s, a} ELSE {}
    BY DEF Fused, TransferInv, Shapes
  <1>3. \A u \in Transaction : \A i : u # s \/ i # n =>
            (i \in DOMAIN merges'[u] <=> i \in DOMAIN merges[u])
    BY <1>1
  <1>4. \A u \in Transaction : \A i : (u # s \/ i # n) /\ i \in DOMAIN merges'[u] =>
            merges'[u][i] = merges[u][i]
    BY <1>1
  <1>5. torn \subseteq torn' /\ (a \notin torn' => q = k.leg) /\ (s \notin torn' => q = k.leg)
    BY <1>2
  <1>6. \A u \in Transaction : \A i \in DOMAIN merges[u] : merges[u][i].leg \in Posting
    BY DEF TransferInv, Shapes, RecordShape
  <1>7. LogInv /\ NamedOnce /\ LegsApart /\ LogsAgree /\ LegsStand
    BY DEF TransferInv, LogInv
  <1> HIDE DEF s, a, n
  <1>8. NamedOnce'
    <2>1. ASSUME NEW b \in txns' \ torn', NEW u \in Transaction, NEW i \in DOMAIN merges'[u]
          PROVE  merges'[u][i].absorbed # b
      BY <1>1, <1>2, <1>3, <1>4, <1>5, <1>7 DEF NamedOnce
    <2>2. ASSUME NEW b \in Transaction \ torn', NEW u \in Transaction, NEW v \in Transaction,
                 NEW i \in DOMAIN merges'[u], NEW j \in DOMAIN merges'[v],
                 merges'[u][i].absorbed = b, merges'[v][j].absorbed = b
          PROVE  u = v /\ i = j
      <3>1. CASE b = a
        <4>1. u = s /\ i = n
          BY <1>2, <1>3, <1>4, <1>5, <1>7, <2>2, <3>1 DEF NamedOnce
        <4>2. v = s /\ j = n
          BY <1>2, <1>3, <1>4, <1>5, <1>7, <2>2, <3>1 DEF NamedOnce
        <4> QED
          BY <4>1, <4>2
      <3>2. CASE b # a
        <4>1. u # s \/ i # n
          BY <1>1, <1>2, <2>2, <3>2
        <4>2. v # s \/ j # n
          BY <1>1, <1>2, <2>2, <3>2
        <4> QED
          BY <1>3, <1>4, <1>5, <1>7, <2>2, <4>1, <4>2 DEF NamedOnce
      <3> QED
        BY <3>1, <3>2
    <2> QED
      BY <2>1, <2>2 DEF NamedOnce
  <1>9. LegsApart'
    <2> SUFFICES ASSUME NEW u \in Transaction \ torn', NEW i \in DOMAIN merges'[u],
                        NEW j \in DOMAIN merges'[u], i # j,
                        ~merges'[u][i].edited, ~merges'[u][j].edited
                 PROVE  merges'[u][i].leg # merges'[u][j].leg
      BY DEF LegsApart
    <2>1. ASSUME NEW l \in DOMAIN merges'[u], u = s, l # n, ~merges'[u][l].edited
          PROVE  merges'[u][l].leg # m.leg
      <3>1. l \in DOMAIN merges[s] /\ merges'[u][l] = merges[s][l]
        BY <1>3, <1>4, <2>1
      <3>2. s \in txns \ torn /\ ~merges[s][l].edited
        BY <1>2, <1>5, <2>1, <3>1
      <3>3. legs[merges[s][l].leg] = [tx |-> s, value |-> merges[s][l].value]
        BY <1>7, <3>1, <3>2 DEF LegsStand
      <3>4. legs[merges[s][l].leg].tx = s
        BY <3>3
      <3> QED
        BY <1>1, <1>2, <1>5, <2>1, <3>1, <3>4
    <2>2. CASE u # s \/ (i # n /\ j # n)
      BY <1>3, <1>4, <1>5, <1>7, <2>2 DEF LegsApart
    <2>3. CASE u = s /\ i = n
      BY <1>1, <2>1, <2>3
    <2>4. CASE u = s /\ j = n
      BY <1>1, <2>1, <2>4
    <2> QED
      BY <2>2, <2>3, <2>4
  <1>10. LogsAgree'
    <2> SUFFICES ASSUME NEW u \in Transaction \ torn', NEW v \in Transaction,
                        NEW i \in DOMAIN merges'[u], NEW j \in DOMAIN merges'[v],
                        merges'[v][j].absorbed = u, ~merges'[u][i].edited
                 PROVE  /\ merges'[u][i].leg = merges'[v][j].leg
                        /\ merges'[u][i].value = merges'[v][j].value
      BY DEF LogsAgree
    <2>1. u # s
      BY <1>1, <1>2, <1>3, <1>4, <1>5, <1>7 DEF NamedOnce
    <2>2. i \in DOMAIN merges[u] /\ merges'[u][i] = merges[u][i]
      BY <1>1, <2>1
    <2>3. CASE v = s /\ j = n
      <3>1. u = a /\ u \notin torn /\ q = k.leg
        BY <1>1, <1>2, <1>5, <2>3
      <3>2. legs[merges[u][i].leg] = [tx |-> u, value |-> merges[u][i].value]
        BY <1>2, <1>7, <2>2, <3>1 DEF LegsStand
      <3>3. merges[u][i].leg = q
        BY <1>1, <1>6, <2>2, <3>1, <3>2
      <3> QED
        BY <1>1, <1>2, <2>2, <2>3, <3>1, <3>2, <3>3
    <2>4. CASE v # s \/ j # n
      BY <1>3, <1>4, <1>5, <1>7, <2>2, <2>4 DEF LogsAgree
    <2> QED
      BY <2>3, <2>4
  <1>11. LegsStand'
    <2> SUFFICES ASSUME NEW u \in txns' \ torn', NEW i \in DOMAIN merges'[u],
                        ~merges'[u][i].edited
                 PROVE  legs'[merges'[u][i].leg] = [tx |-> u, value |-> merges'[u][i].value]
      BY DEF LegsStand
    <2>1. u \in Transaction /\ u # a /\ u \in txns \ torn
      BY <1>2, <1>5
    <2>2. CASE u = s /\ i = n
      BY <1>1, <1>2, <1>5, <2>2
    <2>3. CASE u # s \/ i # n
      <3>1. i \in DOMAIN merges[u] /\ merges'[u][i] = merges[u][i]
        BY <1>3, <1>4, <2>1, <2>3
      <3>2. legs[merges[u][i].leg] = [tx |-> u, value |-> merges[u][i].value]
        BY <1>7, <2>1, <3>1 DEF LegsStand
      <3>3. merges[u][i].leg \in Posting /\ merges[u][i].leg # q
        BY <1>1, <1>6, <2>1, <3>1, <3>2
      <3> QED
        BY <1>1, <3>1, <3>2, <3>3
    <2> QED
      BY <2>2, <2>3
  <1> QED
    BY <1>8, <1>9, <1>10, <1>11 DEF LogInv

\* A fusing merge moves the leg and the references that name it together.
LEMMA FusingKeepsRows ==
    ASSUME TransferAssumption, TransferInv,
           NEW k, k.survivor \in Transaction, k.absorbed \in Transaction,
           k.survivor # k.absorbed, k.leg \in Posting, NEW p, NEW q, NEW m, Fused(k, p, q, m),
           late' = late
    PROVE  Rows' /\ ReferencesFollow' /\ \A r \in Ref : refs'[r].leg = refs[r].leg
  <1> DEFINE s == k.survivor
             a == k.absorbed
  <1>1. LegMoved(s, a, q) /\ LogGrown(s, m)
    BY FusedIs
  <1>2. /\ s \in Transaction /\ a \in Transaction /\ s # a /\ s \in txns /\ a \in txns
        /\ q \in Posting /\ txns' = txns \ {a} /\ None \notin {s, a}
    BY DEF Fused, TransferAssumption
  <1>3. \A r \in Ref : /\ refs'[r].leg = refs[r].leg
                       /\ refs'[r].tx = IF refs[r].tx = a THEN s ELSE refs[r].tx
    BY DEF Fused, TransferInv, Shapes
  <1> HIDE DEF s, a
  <1>4. Rows'
    BY <1>1, <1>2, <1>3 DEF LegMoved, TransferInv, Rows
  <1>5. ReferencesFollow'
    <2> SUFFICES ASSUME NEW r \in Ref \ late, refs[r].leg # None
                 PROVE  legs'[refs[r].leg].tx = refs'[r].tx
      BY <1>3 DEF ReferencesFollow
    <2>1. refs[r].leg \in Posting /\ legs[refs[r].leg].tx = refs[r].tx
      BY DEF TransferInv, Shapes, RefInv, ReferencesFollow
    <2>2. CASE refs[r].leg = q
      BY <1>1, <1>3, <2>1, <2>2 DEF LegMoved
    <2>3. CASE refs[r].leg # q
      BY <1>1, <1>3, <2>1, <2>3 DEF LegMoved
    <2> QED
      BY <2>2, <2>3
  <1> QED
    BY <1>3, <1>4, <1>5

LEMMA MergeKeeps ==
    ASSUME TransferAssumption, TransferInv, NEW c \in DOMAIN call, Merge(c)
    PROVE  TransferInv'
  <1>1. /\ call' = [call EXCEPT ![c] = None] /\ late' = late
        /\ call[c] # None /\ call[c].op = "merge"
        /\ call[c].survivor \in Transaction /\ call[c].absorbed \in Transaction
        /\ call[c].survivor # call[c].absorbed
        /\ call[c].leg \in Posting /\ call[c].sources \subseteq Ref
        /\ \/ UNCHANGED <<txns, legs, refs, merges, torn>>
           \/ \E p, q, m : Fused(call[c], p, q, m)
    BY MergeFuses
  <1>2. CASE UNCHANGED <<txns, legs, refs, merges, torn>>
    BY <1>1, <1>2, CallEndsKeeps
  <1>3. CASE \E p, q, m : Fused(call[c], p, q, m)
    <2>1. PICK p, q, m : Fused(call[c], p, q, m)
      BY <1>3
    <2> DEFINE k == call[c]
               s == k.survivor
    <2>2. LegMoved(s, k.absorbed, q) /\ LogGrown(s, m)
      BY <1>1, <2>1, FusedIs
    <2>3. /\ q \in Posting /\ s \in Transaction /\ k.absorbed \in Transaction
          /\ RecordShape(m, s) /\ m.leg = k.leg /\ m.sources = k.sources
          /\ txns' \subseteq txns /\ torn' \subseteq torn \cup {s, k.absorbed}
      BY <1>1, <2>1 DEF Fused
    <2>4. \A u \in Transaction : \A i \in DOMAIN merges'[u] :
             \/ u = s /\ merges'[u][i] = m
             \/ i \in DOMAIN merges[u] /\ merges'[u][i] = merges[u][i]
      BY <2>2, <2>3 DEF LogGrown
    <2>5. /\ \A d \in DOMAIN call' : CallShape(call'[d])
          /\ \A l, S : (\E d \in DOMAIN call' : NotedBy(call'[d], l, S)) => Noted(l, S)
      <3>1. txns' \subseteq Transaction
        BY <2>3 DEF TransferInv, Shapes
      <3> QED
        BY <1>1, <3>1, EndsNoting
    <2>6. Rows' /\ ReferencesFollow' /\ \A r \in Ref : refs'[r].leg = refs[r].leg
      BY <1>1, <2>1, FusingKeepsRows
    <2>7. LogInv'
      BY <1>1, <2>1, FusingKeepsLog
    <2>8. Noted(k.leg, k.sources)
      BY <1>1 DEF Noted, NotedBy
    <2>9. Shapes'
      <3>1. legs' \in [Posting -> [tx : Transaction \cup {None}, value : Value]]
        BY <1>1, <2>1 DEF Fused, TransferInv, Shapes
      <3>2. refs' \in [Ref -> [tx : Transaction \cup {None}, leg : Posting \cup {None}]]
        BY <1>1, <2>1 DEF Fused, TransferInv, Shapes
      <3>3. DOMAIN merges' = Transaction
        BY <2>1 DEF Fused, TransferInv, Shapes
      <3>4. \A u \in Transaction : IsLog(merges'[u])
        BY <2>2 DEF LogGrown, TransferInv, Shapes
      <3>5. \A u \in Transaction : \A i \in DOMAIN merges'[u] : RecordShape(merges'[u][i], u)
        BY <2>3, <2>4 DEF TransferInv, Shapes
      <3>6. txns' \subseteq Transaction /\ torn' \subseteq Transaction
        BY <2>3 DEF TransferInv, Shapes
      <3> QED
        BY <2>5, <3>1, <3>2, <3>3, <3>4, <3>5, <3>6 DEF Shapes
    <2>10. Sourced'
      <3> HIDE DEF k, s
      <3>1. \A l \in Posting, S \in SUBSET Ref : Noted(l, S)' => Noted(l, S)
        BY <2>3, <2>4, <2>5, <2>8 DEF Noted
      <3> QED
        BY <1>1, <2>6, <3>1, SourcedKept DEF TransferInv, RefInv
    <2> QED
      BY <2>6, <2>7, <2>9, <2>10 DEF TransferInv, RefInv
  <1> QED
    BY <1>1, <1>2, <1>3

-----------------------------------------------------------------------------
(* Taking apart.                                                           *)

\* What an unmerge that goes through does with the record it has read.
TakenApart(s, m) ==
    /\ s \in Transaction /\ s \in txns /\ RecordShape(m, s) /\ ~m.edited
    /\ Noted(m.leg, m.sources)
    /\ m.absorbed \notin txns /\ legs[m.leg].tx = s
    /\ merges' = [merges EXCEPT ![s] = Front(@)]
    /\ txns' = txns \cup {m.absorbed}
    /\ legs' = [legs EXCEPT ![m.leg].tx = m.absorbed]
    /\ refs' = Returned(m)
    /\ torn' = torn \cup IF Outdated(s, m) \/ s \in torn THEN {s, m.absorbed} ELSE {}

LEMMA UnmergeTakesApart ==
    ASSUME TransferAssumption, TransferInv, NEW c \in DOMAIN call, Unmerge(c)
    PROVE  /\ call' = [call EXCEPT ![c] = None] /\ late' = late
           /\ \/ UNCHANGED <<txns, legs, refs, merges, torn>>
              \/ \E s, m : TakenApart(s, m)
  <1> DEFINE k == call[c]
             s == k.survivor
             m == k.record
  <1>1. k # None /\ k.op = "unmerge" /\ call' = [call EXCEPT ![c] = None] /\ late' = late
    BY DEF Unmerge
  <1>2. s \in Transaction /\ RecordShape(m, s) /\ ~m.edited
    BY <1>1 DEF TransferInv, Shapes, CallShape
  <1>3. Noted(m.leg, m.sources)
    BY <1>1 DEF Noted, NotedBy
  <1>4. \/ UNCHANGED <<txns, legs, refs, merges, torn>>
        \/ /\ MayUnmerge(s, m)
           /\ merges' = [merges EXCEPT ![s] = Front(@)]
           /\ txns' = txns \cup {m.absorbed}
           /\ legs' = [legs EXCEPT ![m.leg].tx = m.absorbed]
           /\ refs' = Returned(m)
           /\ torn' = torn \cup IF Outdated(s, m) \/ s \in torn THEN {s, m.absorbed} ELSE {}
    BY DEF Unmerge
  <1> HIDE DEF k, s, m
  <1>5. ASSUME MayUnmerge(s, m)
        PROVE  s \in txns
    <2>1. m.leg \in Posting /\ s # None /\ legs[m.leg].tx = s
      BY <1>2, <1>5 DEF RecordShape, MayUnmerge, TransferAssumption
    <2> QED
      BY <2>1 DEF TransferInv, Rows
  <1>6. ASSUME ~UNCHANGED <<txns, legs, refs, merges, torn>>
        PROVE  TakenApart(s, m)
    BY <1>2, <1>3, <1>4, <1>5, <1>6 DEF TakenApart, MayUnmerge
  <1> QED
    BY <1>1, <1>6

\* Where an unmerge leaves each leg, log and reference.
LegBack(m) ==
    /\ legs'[m.leg] = [tx |-> m.absorbed, value |-> legs[m.leg].value]
    /\ \A x \in Posting : x # m.leg => legs'[x] = legs[x]

Popped(s) ==
    /\ \A u \in Transaction : u # s => merges'[u] = merges[u]
    /\ IsLog(merges'[s]) /\ Len(merges'[s]) <= Len(merges[s])
    /\ DOMAIN merges'[s] = DOMAIN merges[s] \ {Len(merges[s])}
    /\ \A i \in DOMAIN merges'[s] : merges'[s][i] = merges[s][i]

RefsBack(m) ==
    \A r \in Ref :
        /\ refs'[r].leg = refs[r].leg
        /\ r \in m.sources /\ refs[r].tx # None => refs'[r].tx = m.absorbed
        /\ r \notin m.sources \/ refs[r].tx = None => refs'[r].tx = refs[r].tx

LEMMA ApartIs ==
    ASSUME TransferAssumption, TransferInv, NEW s, NEW m, TakenApart(s, m)
    PROVE  /\ m.leg \in Posting /\ m.absorbed \in Transaction /\ m.absorbed # s
           /\ s # None /\ m.absorbed # None /\ m.sources \subseteq Ref
           /\ LegBack(m) /\ Popped(s) /\ RefsBack(m)
  <1>1. /\ m.leg \in Posting /\ m.absorbed \in Transaction /\ m.absorbed # s
        /\ m.sources \subseteq Ref /\ s \in Transaction
    BY DEF TakenApart, RecordShape
  <1>2. s # None /\ m.absorbed # None
    BY <1>1 DEF TransferAssumption
  <1>3. LegBack(m)
    <2> DEFINE l == m.leg
               a == m.absorbed
    <2>1. legs' = [legs EXCEPT ![l].tx = a] /\ l \in Posting
      BY <1>1 DEF TakenApart
    <2>2. legs \in [Posting -> [tx : Transaction \cup {None}, value : Value]]
      BY DEF TransferInv, Shapes
    <2> HIDE DEF l, a
    <2>3. legs'[l] = [tx |-> a, value |-> legs[l].value] /\ \A x \in Posting : x # l => legs'[x] = legs[x]
      BY <2>1, <2>2
    <2> QED
      BY <2>3 DEF LegBack, l, a
  <1>4. Popped(s)
    <2>1. /\ merges'[s] = Front(merges[s]) /\ IsLog(merges[s])
          /\ \A u \in Transaction : u # s => merges'[u] = merges[u]
      BY <1>1 DEF TakenApart, TransferInv, Shapes
    <2> QED
      BY <2>1, FrontLog DEF Popped
  <1>5. RefsBack(m)
    BY DEF RefsBack, TakenApart, Returned, TransferInv, Shapes
  <1> QED
    BY <1>1, <1>2, <1>3, <1>4, <1>5

\* What an unmerge moves is what its record says, as long as the record is the
\* newest and the log is right.
LEMMA NewestIs ==
    ASSUME TransferAssumption, TransferInv, NEW s, NEW m, TakenApart(s, m),
           ~Outdated(s, m), s \notin torn
    PROVE  /\ Len(merges[s]) \in DOMAIN merges[s] /\ m = merges[s][Len(merges[s])]
           /\ legs[m.leg] = [tx |-> s, value |-> m.value]
  <1>1. merges[s] # <<>> /\ m = Last(merges[s]) /\ s \in txns \ torn /\ ~m.edited /\ s \in Transaction
    BY DEF Outdated, TakenApart
  <1>2. merges[s] \in Seq(ToSet(merges[s]))
    BY <1>1 DEF TransferInv, Shapes, IsLog
  <1>3. Len(merges[s]) \in DOMAIN merges[s] /\ m = merges[s][Len(merges[s])]
    BY <1>1, <1>2 DEF Last
  <1> QED
    BY <1>1, <1>3 DEF TransferInv, LogInv, LegsStand

LEMMA ApartKeepsLog ==
    ASSUME TransferAssumption, TransferInv, NEW s, NEW m, TakenApart(s, m)
    PROVE  LogInv'
  <1> DEFINE a == m.absorbed
             n == Len(merges[s])
  <1>1. /\ m.leg \in Posting /\ a \in Transaction /\ a # s
        /\ legs'[m.leg] = [tx |-> a, value |-> legs[m.leg].value]
        /\ \A x \in Posting : x # m.leg => legs'[x] = legs[x]
        /\ \A u \in Transaction : u # s => merges'[u] = merges[u]
        /\ DOMAIN merges'[s] = DOMAIN merges[s] \ {n}
        /\ \A i \in DOMAIN merges'[s] : merges'[s][i] = merges[s][i]
    BY ApartIs DEF LegBack, Popped
  <1>2. /\ s \in Transaction /\ s \in txns /\ a \notin txns /\ txns' = txns \cup {a}
        /\ legs[m.leg].tx = s /\ ~m.edited /\ txns \subseteq Transaction
        /\ torn' = torn \cup IF Outdated(s, m) \/ s \in torn THEN {s, a} ELSE {}
    BY DEF TakenApart, TransferInv, Shapes
  <1>3. \A u \in Transaction : \A i \in DOMAIN merges'[u] :
            i \in DOMAIN merges[u] /\ merges'[u][i] = merges[u][i]
    BY <1>1
  <1>4. \A u \in Transaction : \A i \in DOMAIN merges[u] : merges[u][i].leg \in Posting
    BY DEF TransferInv, Shapes, RecordShape
  <1>5. LogInv /\ NamedOnce /\ LegsApart /\ LogsAgree /\ LegsStand
    BY DEF TransferInv, LogInv
  <1>6. ASSUME NEW u \in txns \ torn, u # s, NEW i \in DOMAIN merges'[u]
        PROVE  merges'[u][i].edited \/ legs'[merges[u][i].leg] = legs[merges[u][i].leg]
    <2>1. u \in Transaction /\ i \in DOMAIN merges[u] /\ merges'[u][i] = merges[u][i]
      BY <1>2, <1>3
    <2>2. CASE ~merges[u][i].edited
      <3>1. legs[merges[u][i].leg] = [tx |-> u, value |-> merges[u][i].value]
        BY <1>5, <2>1, <2>2 DEF LegsStand
      <3>2. merges[u][i].leg # m.leg
        BY <1>2, <1>6, <3>1
      <3> QED
        BY <1>1, <1>4, <2>1, <3>2
    <2> QED
      BY <2>1, <2>2
  <1>7. CASE Outdated(s, m) \/ s \in torn
    <2>1. torn' = torn \cup {s, a}
      BY <1>2, <1>7
    <2> HIDE DEF a, n
    <2>2. txns' \ torn' \subseteq txns \ torn /\ torn \subseteq torn'
      BY <1>2, <2>1
    <2>3. \A u \in Transaction : \A i \in DOMAIN merges'[u] :
             i \in DOMAIN merges[u] /\ Same(merges'[u][i], merges[u][i])
      BY <1>3 DEF Same
    <2>4. \A u \in txns' \ torn' : u \in Transaction /\ \A i \in DOMAIN merges'[u] :
             merges'[u][i].edited \/ legs'[merges[u][i].leg] = legs[merges[u][i].leg]
      BY <1>2, <1>6, <2>1
    <2> QED
      BY <1>5, <2>2, <2>3, <2>4, LogKept
  <1>8. CASE ~Outdated(s, m) /\ s \notin torn
    <2>1. n \in DOMAIN merges[s] /\ m = merges[s][n] /\ legs[m.leg] = [tx |-> s, value |-> m.value]
      BY <1>8, NewestIs
    <2>2. torn' = torn
      BY <1>2, <1>8
    <2> HIDE DEF a, n
    <2>3. merges[s][n].absorbed = a
      BY <2>1 DEF a
    <2>4. NamedOnce'
      <3>1. ASSUME NEW b \in txns' \ torn', NEW u \in Transaction, NEW i \in DOMAIN merges'[u],
                   merges'[u][i].absorbed = b
            PROVE  FALSE
        <4>1. i \in DOMAIN merges[u] /\ merges[u][i].absorbed = b
          BY <1>3, <3>1
        <4>2. b = a /\ b \in Transaction \ torn
          BY <1>1, <1>2, <1>5, <2>2, <4>1 DEF NamedOnce
        <4>3. u = s /\ i = n
          BY <1>2, <1>5, <2>1, <2>3, <4>1, <4>2 DEF NamedOnce
        <4> QED
          BY <1>1, <4>3
      <3>2. ASSUME NEW b \in Transaction \ torn', NEW u \in Transaction, NEW v \in Transaction,
                   NEW i \in DOMAIN merges'[u], NEW j \in DOMAIN merges'[v],
                   merges'[u][i].absorbed = b, merges'[v][j].absorbed = b
            PROVE  u = v /\ i = j
        BY <1>3, <1>5, <2>2, <3>2 DEF NamedOnce
      <3> QED
        BY <3>1, <3>2 DEF NamedOnce
    <2>5. LegsApart'
      BY <1>3, <1>5, <2>2 DEF LegsApart
    <2>6. LogsAgree'
      BY <1>3, <1>5, <2>2 DEF LogsAgree
    <2>7. LegsStand'
      <3> SUFFICES ASSUME NEW u \in txns' \ torn', NEW i \in DOMAIN merges'[u],
                          ~merges'[u][i].edited
                   PROVE  legs'[merges'[u][i].leg] = [tx |-> u, value |-> merges'[u][i].value]
        BY DEF LegsStand
      <3>1. /\ u \in Transaction /\ u \notin torn
            /\ i \in DOMAIN merges[u] /\ merges'[u][i] = merges[u][i]
            /\ merges[u][i].leg \in Posting
        BY <1>1, <1>2, <1>3, <1>4, <2>2
      <3>2. CASE u = a
        <4>1. merges[u][i].leg = m.leg /\ merges[u][i].value = m.value
          BY <1>2, <1>5, <2>1, <2>3, <3>1, <3>2 DEF LogsAgree
        <4> QED
          BY <1>1, <2>1, <3>1, <3>2, <4>1
      <3>3. CASE u = s
        <4>1. i # n
          BY <1>1, <3>3
        <4>2. merges[u][i].leg # m.leg
          BY <1>2, <1>5, <2>1, <3>1, <3>3, <4>1 DEF LegsApart
        <4>3. legs[merges[u][i].leg] = [tx |-> u, value |-> merges[u][i].value]
          BY <1>2, <1>5, <3>1, <3>3 DEF LegsStand
        <4> QED
          BY <1>1, <3>1, <4>2, <4>3
      <3>4. CASE u # a /\ u # s
        <4>1. u \in txns \ torn
          BY <1>2, <3>1, <3>4
        <4>2. legs[merges[u][i].leg] = [tx |-> u, value |-> merges[u][i].value]
          BY <1>5, <3>1, <4>1 DEF LegsStand
        <4> QED
          BY <1>6, <3>1, <3>4, <4>1, <4>2
      <3> QED
        BY <3>2, <3>3, <3>4
    <2> QED
      BY <2>4, <2>5, <2>6, <2>7 DEF LogInv
  <1> QED
    BY <1>7, <1>8

\* An unmerge takes the leg back, and with it the references that name it.
LEMMA ApartKeepsRows ==
    ASSUME TransferAssumption, TransferInv, NEW s, NEW m, TakenApart(s, m), late' = late
    PROVE  Rows' /\ ReferencesFollow'
  <1> DEFINE a == m.absorbed
  <1>1. /\ m.leg \in Posting /\ a \in Transaction /\ s # None /\ a # None /\ m.sources \in SUBSET Ref
        /\ LegBack(m) /\ RefsBack(m)
    BY ApartIs
  <1>2. /\ legs[m.leg].tx = s /\ txns' = txns \cup {a} /\ Noted(m.leg, m.sources)
    BY DEF TakenApart
  <1>3. /\ legs'[m.leg] = [tx |-> a, value |-> legs[m.leg].value]
        /\ \A x \in Posting : x # m.leg => legs'[x] = legs[x]
    BY <1>1 DEF LegBack
  <1>4. \A r \in Ref : /\ refs'[r].leg = refs[r].leg
                       /\ r \in m.sources /\ refs[r].tx # None => refs'[r].tx = a
                       /\ r \notin m.sources \/ refs[r].tx = None => refs'[r].tx = refs[r].tx
    BY <1>1 DEF RefsBack
  <1> HIDE DEF a
  <1>5. Rows'
    BY <1>1, <1>2, <1>3, <1>4 DEF TransferInv, Rows
  <1>6. ReferencesFollow'
    <2> SUFFICES ASSUME NEW r \in Ref \ late, refs[r].leg # None
                 PROVE  legs'[refs[r].leg].tx = refs'[r].tx
      BY <1>4 DEF ReferencesFollow
    <2>1. refs[r].leg \in Posting /\ legs[refs[r].leg].tx = refs[r].tx
      BY DEF TransferInv, Shapes, RefInv, ReferencesFollow
    <2>2. refs[r].leg = m.leg <=> r \in m.sources
      BY <1>1, <1>2 DEF TransferInv, RefInv, Sourced
    <2> QED
      BY <1>1, <1>2, <1>3, <1>4, <2>1, <2>2
  <1> QED
    BY <1>5, <1>6

LEMMA UnmergeKeeps ==
    ASSUME TransferAssumption, TransferInv, NEW c \in DOMAIN call, Unmerge(c)
    PROVE  TransferInv'
  <1>1. /\ call' = [call EXCEPT ![c] = None] /\ late' = late
        /\ \/ UNCHANGED <<txns, legs, refs, merges, torn>>
           \/ \E s, m : TakenApart(s, m)
    BY UnmergeTakesApart
  <1>2. CASE UNCHANGED <<txns, legs, refs, merges, torn>>
    BY <1>1, <1>2, CallEndsKeeps
  <1>3. CASE \E s, m : TakenApart(s, m)
    <2>1. PICK s, m : TakenApart(s, m)
      BY <1>3
    <2>2. /\ m.leg \in Posting /\ m.absorbed \in Transaction /\ m.sources \subseteq Ref
          /\ LegBack(m) /\ Popped(s) /\ RefsBack(m)
      BY <2>1, ApartIs
    <2>3. /\ s \in Transaction /\ txns' = txns \cup {m.absorbed}
          /\ torn' \subseteq torn \cup {s, m.absorbed}
      BY <2>1 DEF TakenApart
    <2>4. \A u \in Transaction : \A i \in DOMAIN merges'[u] :
             i \in DOMAIN merges[u] /\ merges'[u][i] = merges[u][i]
      BY <2>2, <2>3 DEF Popped
    <2>5. /\ \A d \in DOMAIN call' : CallShape(call'[d])
          /\ \A l, S : (\E d \in DOMAIN call' : NotedBy(call'[d], l, S)) => Noted(l, S)
      <3>1. txns' \subseteq Transaction
        BY <2>2, <2>3 DEF TransferInv, Shapes
      <3> QED
        BY <1>1, <3>1, EndsNoting
    <2>6. Rows' /\ ReferencesFollow'
      BY <1>1, <2>1, ApartKeepsRows
    <2>7. LogInv'
      BY <2>1, ApartKeepsLog
    <2>8. Shapes'
      <3>1. legs' \in [Posting -> [tx : Transaction \cup {None}, value : Value]]
        BY <2>1, <2>2 DEF TakenApart, TransferInv, Shapes
      <3>2. refs' \in [Ref -> [tx : Transaction \cup {None}, leg : Posting \cup {None}]]
        BY <2>1, <2>2 DEF TakenApart, Returned, TransferInv, Shapes
      <3>3. DOMAIN merges' = Transaction
        BY <2>1 DEF TakenApart, TransferInv, Shapes
      <3>4. \A u \in Transaction : IsLog(merges'[u])
        BY <2>2 DEF Popped, TransferInv, Shapes
      <3>5. \A u \in Transaction : \A i \in DOMAIN merges'[u] : RecordShape(merges'[u][i], u)
        BY <2>4 DEF TransferInv, Shapes
      <3>6. txns' \subseteq Transaction /\ torn' \subseteq Transaction
        BY <2>2, <2>3 DEF TransferInv, Shapes
      <3> QED
        BY <2>5, <3>1, <3>2, <3>3, <3>4, <3>5, <3>6 DEF Shapes
    <2>9. Sourced'
      <3>1. \A l \in Posting, S \in SUBSET Ref : Noted(l, S)' => Noted(l, S)
        BY <2>4, <2>5 DEF Noted
      <3>2. \A r \in Ref : refs'[r].leg = refs[r].leg
        BY <2>2 DEF RefsBack
      <3> QED
        BY <1>1, <3>1, <3>2, SourcedKept DEF TransferInv, RefInv
    <2> QED
      BY <2>6, <2>7, <2>8, <2>9 DEF TransferInv, RefInv
  <1> QED
    BY <1>1, <1>2, <1>3

-----------------------------------------------------------------------------
(* The user and the imports.                                               *)

\* Headers play no part, and references may come to name no leg.
LEMMA HeadersKeep ==
    ASSUME TransferInv, UNCHANGED <<txns, legs, merges, call, torn, late>>,
           refs' \in [Ref -> [tx : Transaction \cup {None}, leg : Posting \cup {None}]],
           \A r \in Ref : refs'[r].tx = refs[r].tx /\ refs'[r].leg \in {refs[r].leg, None}
    PROVE  TransferInv'
  <1>1. Shapes'
    BY DEF TransferInv, Shapes
  <1>2. Rows' /\ ReferencesFollow'
    BY DEF TransferInv, Rows, RefInv, ReferencesFollow
  <1>3. LogInv'
    BY DEF TransferInv, LogInv, NamedOnce, LegsApart, LogsAgree, LegsStand
  <1>4. Sourced'
    <2>1. \A p \in Posting, S \in SUBSET Ref : Noted(p, S)' => Noted(p, S)
      BY DEF Noted
    <2> QED
      BY <2>1, SourcedKept DEF TransferInv, RefInv
  <1> QED
    BY <1>1, <1>2, <1>3, <1>4 DEF TransferInv, RefInv

LEMMA NothingKeeps ==
    ASSUME TransferInv, UNCHANGED <<txns, legs, refs, merges, call, torn, late>>
    PROVE  TransferInv'
  <1>1. refs \in [Ref -> [tx : Transaction \cup {None}, leg : Posting \cup {None}]]
    BY DEF TransferInv, Shapes
  <1> QED
    BY <1>1, HeadersKeep

\* A record no edit touched is about a leg of its survivor.
LEMMA RecordLeg ==
    ASSUME TransferInv, NEW s \in txns \ torn, NEW i \in DOMAIN merges[s], ~merges[s][i].edited
    PROVE  /\ s \in Transaction /\ merges[s][i].leg \in Posting
           /\ legs[merges[s][i].leg] = [tx |-> s, value |-> merges[s][i].value]
  <1>1. s \in Transaction
    BY DEF TransferInv, Shapes
  <1> QED
    BY <1>1 DEF TransferInv, Shapes, RecordShape, LogInv, LegsStand

\* A set of legs with their values, and what one change makes of it.
LEMMA ValuesAre ==
    ASSUME NEW value \in Values
    PROVE  DOMAIN value \subseteq Posting /\ value \in [DOMAIN value -> Value]
  BY DEF Values

LEMMA ValuesOfIs ==
    ASSUME legs \in [Posting -> [tx : Transaction \cup {None}, value : Value]], NEW t
    PROVE  ValuesOf(t) \in Values /\ DOMAIN ValuesOf(t) = LegsOf(t)
  <1>1. LegsOf(t) \in SUBSET Posting
    BY DEF LegsOf
  <1>2. ValuesOf(t) \in [LegsOf(t) -> Value]
    BY <1>1 DEF ValuesOf
  <1> QED
    BY <1>1, <1>2 DEF Values

LEMMA OneChangeIs ==
    ASSUME NEW value \in Values, NEW v \in OneChange(value)
    PROVE  v \in Values /\ DOMAIN v \subseteq DOMAIN value \cup NewLegs
  <1> DEFINE S == DOMAIN value
  <1>1. PICK P \in {S} \cup {S \ {p} : p \in S} \cup {S \cup {p} : p \in NewLegs} : v \in [P -> Value]
    BY DEF OneChange
  <1>2. S \subseteq Posting /\ NewLegs \subseteq Posting
    BY ValuesAre, NewLegIs
  <1>3. P \subseteq S \cup NewLegs /\ P \subseteq Posting /\ DOMAIN v = P
    BY <1>1, <1>2
  <1> QED
    BY <1>1, <1>3 DEF Values

\* What an edit of the legs of t to value does; E are the legs its log hears of,
\* which are all it changes unless t is torn.
Edited(t, value, E) ==
    /\ t \in txns /\ value \in Values
    /\ \A p \in DOMAIN value : legs[p].tx \in {t, None}
    /\ legs' = [p \in Posting |-> IF p \in DOMAIN value THEN [tx |-> t, value |-> value[p]]
                                  ELSE IF p \in LegsOf(t) THEN NoLeg ELSE legs[p]]
    /\ refs' = Relinked(t, DOMAIN value)
    /\ merges' = Logged(t, E)
    /\ \/ torn' = torn \cup {t}
       \/ /\ torn' = torn
          /\ \A p \in LegsOf(t) \ E : p \in DOMAIN value /\ value[p] = legs[p].value

LEMMA UnheardIs ==
    ASSUME NEW t, NEW value, NEW known, ~Unheard(t, value, known),
           NEW p \in LegsOf(t) \ Heard(value, known)
    PROVE  p \in DOMAIN value /\ value[p] = legs[p].value
  <1>1. p \notin Heard(value, ValuesOf(t))
    BY DEF Unheard
  <1>2. p \in DOMAIN ValuesOf(t) /\ ValuesOf(t)[p] = legs[p].value
    BY DEF ValuesOf
  <1> QED
    BY <1>1, <1>2 DEF Heard

LEMMA EditLegsEdits ==
    ASSUME legs \in [Posting -> [tx : Transaction \cup {None}, value : Value]],
           NEW t \in Transaction, EditLegs(t)
    PROVE  /\ UNCHANGED <<txns, call, late>>
           /\ \E value, E : Edited(t, value, E)
  <1>1. PICK value \in OneChange(ValuesOf(t)) : SetLegs(t, value, ValuesOf(t))
    BY DEF EditLegs
  <1>2. value \in Values /\ DOMAIN value \subseteq LegsOf(t) \cup NewLegs
    BY ValuesOfIs, OneChangeIs
  <1>3. \A p \in DOMAIN value : legs[p].tx \in {t, None}
    BY <1>2, NewLegIs DEF LegsOf, NoLeg
  <1>4. t \in txns /\ UNCHANGED <<txns, call, torn, late>>
    BY DEF EditLegs
  <1>5. ~Unheard(t, value, ValuesOf(t))
    BY DEF Unheard
  <1>6. Edited(t, value, Heard(value, ValuesOf(t)))
    BY <1>1, <1>2, <1>3, <1>4, <1>5, UnheardIs DEF Edited, SetLegs
  <1> QED
    BY <1>4, <1>6

\* An edit from the command line is refused, or writes the transaction it read.
LEMMA DraftIs ==
    ASSUME TypeOK, NEW e \in DOMAIN draft, draft[e] # None
    PROVE  /\ draft[e].tx \in Transaction /\ draft[e].shown \in Header /\ draft[e].legs \in Values
           /\ draft[e].known # None => draft[e].known \in Values
  BY DEF TypeOK, Draft

LEMMA WriteEditEdits ==
    ASSUME TypeOK, NEW e \in DOMAIN draft, WriteEdit(e)
    PROVE  /\ UNCHANGED <<txns, call, late>> /\ draft[e].tx \in Transaction
           /\ \/ UNCHANGED <<header, legs, refs, merges, own, clouded, torn>>
              \/ \E value, E : Edited(draft[e].tx, value, E)
  <1> DEFINE k == draft[e]
             t == draft[e].tx
  <1>1. UNCHANGED <<txns, call, late>> /\ k # None
    BY DEF WriteEdit
  <1>2. t \in Transaction /\ k.legs \in Values
    BY <1>1, DraftIs
  <1>3. ASSUME NEW value \in {k.legs} \cup OneChange(k.legs), MayEdit(t, value),
               SetLegs(t, value, k.known),
               torn' = torn \cup IF Unheard(t, value, k.known) THEN {t} ELSE {}
        PROVE  \E v, E : Edited(t, v, E)
    <2>1. value \in Values
      BY <1>2, OneChangeIs
    <2>2. \/ torn' = torn \cup {t}
          \/ /\ torn' = torn
             /\ \A p \in LegsOf(t) \ Heard(value, k.known) :
                   p \in DOMAIN value /\ value[p] = legs[p].value
      BY <1>3, UnheardIs
    <2>3. Edited(t, value, Heard(value, k.known))
      BY <1>3, <2>1, <2>2 DEF Edited, SetLegs, MayEdit
    <2> QED
      BY <2>3
  <1>4. \/ UNCHANGED <<header, legs, refs, merges, own, clouded, torn>>
        \/ \E value \in {k.legs} \cup OneChange(k.legs) :
             /\ MayEdit(t, value) /\ SetLegs(t, value, k.known)
             /\ torn' = torn \cup IF Unheard(t, value, k.known) THEN {t} ELSE {}
    BY DEF WriteEdit
  <1> QED
    BY <1>1, <1>2, <1>3, <1>4

\* Of a reference, writing the legs of t anew changes at most that it names one.
LEMMA RelinkedIs ==
    ASSUME refs \in [Ref -> [tx : Transaction \cup {None}, leg : Posting \cup {None}]],
           NEW t, NEW P, refs' = Relinked(t, P)
    PROVE  /\ refs' \in [Ref -> [tx : Transaction \cup {None}, leg : Posting \cup {None}]]
           /\ \A r \in Ref : /\ refs'[r].tx = refs[r].tx
                             /\ refs'[r].leg \in {refs[r].leg, None}
                             /\ refs[r].leg \in LegsOf(t) \ P => refs'[r].leg = None
  <1>1. \A r \in Ref : refs'[r] = IF refs[r].leg \in LegsOf(t) /\ ~(refs[r].leg \in P /\ refs[r].tx = t)
                                  THEN [refs[r] EXCEPT !.leg = None] ELSE refs[r]
    BY DEF Relinked
  <1>2. \A r \in Ref : refs'[r] \in [tx : Transaction \cup {None}, leg : Posting \cup {None}]
    BY <1>1
  <1>3. refs' \in [Ref -> [tx : Transaction \cup {None}, leg : Posting \cup {None}]]
    BY <1>2 DEF Relinked
  <1> QED
    BY <1>1, <1>3

\* The log keeps its records and marks those about a leg in E.
LEMMA LoggedIs ==
    ASSUME TransferInv, NEW t \in Transaction, NEW E, merges' = Logged(t, E)
    PROVE  /\ DOMAIN merges' = Transaction
           /\ \A u \in Transaction : IsLog(merges'[u]) /\ DOMAIN merges'[u] = DOMAIN merges[u]
                                     /\ Len(merges'[u]) = Len(merges[u])
           /\ \A u \in Transaction : \A i \in DOMAIN merges[u] :
                /\ RecordShape(merges'[u][i], u) /\ Same(merges'[u][i], merges[u][i])
                /\ merges'[u][i].sources = merges[u][i].sources
                /\ u = t /\ merges[u][i].leg \in E => merges'[u][i].edited
  <1>1. /\ DOMAIN merges = Transaction
        /\ \A u \in Transaction :
             IsLog(merges[u]) /\ \A i \in DOMAIN merges[u] : RecordShape(merges[u][i], u)
    BY DEF TransferInv, Shapes
  <1>2. /\ DOMAIN merges' = Transaction
        /\ \A u \in Transaction : u # t => merges'[u] = merges[u]
        /\ merges'[t] = [i \in DOMAIN merges[t] |->
               [merges[t][i] EXCEPT !.edited = merges[t][i].edited \/ merges[t][i].leg \in E]]
    <2> DEFINE L == [i \in DOMAIN merges[t] |->
                   [merges[t][i] EXCEPT !.edited = merges[t][i].edited \/ merges[t][i].leg \in E]]
    <2>1. merges' = [merges EXCEPT ![t] = L]
      BY DEF Logged
    <2> HIDE DEF L
    <2>2. /\ DOMAIN merges' = Transaction /\ merges'[t] = L
          /\ \A u \in Transaction : u # t => merges'[u] = merges[u]
      BY <1>1, <2>1
    <2> QED
      BY <2>2 DEF L
  <1>3. IsLog(merges'[t]) /\ DOMAIN merges'[t] = DOMAIN merges[t] /\ Len(merges'[t]) = Len(merges[t])
    <2>1. DOMAIN merges'[t] = DOMAIN merges[t] /\ merges'[t] = [i \in DOMAIN merges[t] |-> merges'[t][i]]
      BY <1>2
    <2> QED
      BY <1>1, <2>1, MapLog
  <1>4. ASSUME NEW i \in DOMAIN merges[t]
        PROVE  /\ RecordShape(merges'[t][i], t) /\ Same(merges'[t][i], merges[t][i])
               /\ merges'[t][i].sources = merges[t][i].sources
               /\ merges[t][i].leg \in E => merges'[t][i].edited
    <2> DEFINE m == merges[t][i]
               n == merges'[t][i]
    <2>1. n = [m EXCEPT !.edited = m.edited \/ m.leg \in E]
      BY <1>2
    <2>2. m \in [absorbed : Transaction \ {t}, was : {m.was}, before : {m.before}, leg : Posting,
                 sources : SUBSET Ref, edited : BOOLEAN, value : Value]
      BY <1>1 DEF RecordShape
    <2> HIDE DEF m, n
    <2>3. /\ n \in [absorbed : Transaction \ {t}, was : {m.was}, before : {m.before}, leg : Posting,
                    sources : SUBSET Ref, edited : BOOLEAN, value : Value]
          /\ n.was = m.was /\ n.before = m.before /\ n.sources = m.sources
          /\ n.absorbed = m.absorbed /\ n.leg = m.leg /\ n.value = m.value
          /\ n.edited = (m.edited \/ m.leg \in E)
      BY <2>1, <2>2
    <2>4. RecordShape(n, t) /\ Same(n, m) /\ n.sources = m.sources /\ (m.leg \in E => n.edited)
      BY <2>3 DEF RecordShape, Same
    <2> QED
      BY <2>4 DEF m, n
  <1>5. \A u \in Transaction : u # t => \A i \in DOMAIN merges[u] :
          /\ RecordShape(merges'[u][i], u) /\ Same(merges'[u][i], merges[u][i])
          /\ merges'[u][i].sources = merges[u][i].sources
    BY <1>1, <1>2 DEF Same
  <1> QED
    BY <1>1, <1>2, <1>3, <1>4, <1>5

\* An edit leaves alone the legs its log does not hear of, unless its transaction
\* is torn, and those of others.
LEMMA EditedLegs ==
    ASSUME TransferAssumption, TransferInv, NEW t \in Transaction, NEW value, NEW E,
           Edited(t, value, E)
    PROVE  /\ \A x \in DOMAIN value :
                /\ x \in Posting /\ legs[x].tx \in {t, None} /\ legs'[x].tx = t
                /\ legs'[x] = [tx |-> t, value |-> value[x]] /\ value[x] \in Value
           /\ \A x \in Posting \ DOMAIN value :
                IF legs[x].tx = t THEN legs'[x] = NoLeg ELSE legs'[x] = legs[x]
           /\ t \notin torn' => \A x \in LegsOf(t) \ E : legs'[x] = legs[x]
           /\ \A x \in Posting : legs[x].tx \notin {t, None} => legs'[x] = legs[x]
  <1>1. /\ value \in Values
        /\ \A p \in DOMAIN value : legs[p].tx \in {t, None}
        /\ legs' = [p \in Posting |-> IF p \in DOMAIN value THEN [tx |-> t, value |-> value[p]]
                                      ELSE IF p \in LegsOf(t) THEN NoLeg ELSE legs[p]]
    BY DEF Edited
  <1>2. \A x \in DOMAIN value : x \in Posting /\ value[x] \in Value
    BY <1>1, ValuesAre
  <1>3. ASSUME NEW x \in DOMAIN value
        PROVE  /\ legs'[x] = [tx |-> t, value |-> value[x]]
               /\ legs'[x].tx = t
    <2> DEFINE v == value[x]
    <2>1. legs'[x] = [tx |-> t, value |-> v]
      BY <1>1, <1>2
    <2> HIDE DEF v
    <2>2. legs'[x].tx = t
      BY <2>1
    <2> QED
      BY <2>1, <2>2 DEF v
  <1>4. ASSUME NEW x \in Posting \ DOMAIN value
        PROVE  IF legs[x].tx = t THEN legs'[x] = NoLeg ELSE legs'[x] = legs[x]
    BY <1>1 DEF LegsOf
  <1>5. ASSUME t \notin torn', NEW x \in LegsOf(t) \ E
        PROVE  legs'[x] = legs[x]
    <2>1. x \in DOMAIN value /\ value[x] = legs[x].value /\ x \in Posting /\ legs[x].tx = t
      BY <1>5 DEF Edited, LegsOf
    <2>2. legs[x] = [tx |-> legs[x].tx, value |-> legs[x].value]
      BY <2>1 DEF TransferInv, Shapes
    <2> QED
      BY <1>3, <2>1, <2>2
  <1>6. \A x \in Posting : legs[x].tx \notin {t, None} => legs'[x] = legs[x]
    BY <1>1, <1>4
  <1> QED
    BY <1>1, <1>2, <1>3, <1>4, <1>5, <1>6

LEMMA EditedKeeps ==
    ASSUME TransferAssumption, TransferInv, NEW t \in Transaction, NEW value, NEW E,
           Edited(t, value, E), UNCHANGED <<txns, call, late>>
    PROVE  TransferInv'
  <1>1. /\ \A x \in DOMAIN value :
             /\ x \in Posting /\ legs[x].tx \in {t, None} /\ legs'[x].tx = t
             /\ legs'[x] = [tx |-> t, value |-> value[x]] /\ value[x] \in Value
        /\ \A x \in Posting \ DOMAIN value :
             IF legs[x].tx = t THEN legs'[x] = NoLeg ELSE legs'[x] = legs[x]
        /\ t \notin torn' => \A x \in LegsOf(t) \ E : legs'[x] = legs[x]
        /\ \A x \in Posting : legs[x].tx \notin {t, None} => legs'[x] = legs[x]
    BY EditedLegs
  <1>2. /\ t \in txns /\ merges' = Logged(t, E) /\ t # None
        /\ refs' = Relinked(t, DOMAIN value)
        /\ DOMAIN legs' = Posting /\ legs' = [x \in Posting |-> legs'[x]]
        /\ torn \subseteq torn' /\ torn' \subseteq torn \cup {t}
    BY DEF Edited, TransferAssumption
  <1>3. /\ DOMAIN merges' = Transaction
        /\ \A u \in Transaction : IsLog(merges'[u]) /\ DOMAIN merges'[u] = DOMAIN merges[u]
        /\ \A u \in Transaction : \A i \in DOMAIN merges[u] :
             /\ RecordShape(merges'[u][i], u) /\ Same(merges'[u][i], merges[u][i])
             /\ merges'[u][i].sources = merges[u][i].sources
             /\ u = t /\ merges[u][i].leg \in E => merges'[u][i].edited
    BY <1>2, LoggedIs
  <1>4. /\ refs' \in [Ref -> [tx : Transaction \cup {None}, leg : Posting \cup {None}]]
        /\ \A r \in Ref : /\ refs'[r].tx = refs[r].tx
                          /\ refs'[r].leg \in {refs[r].leg, None}
                          /\ refs[r].leg \in LegsOf(t) \ DOMAIN value => refs'[r].leg = None
    BY <1>2, RelinkedIs DEF TransferInv, Shapes
  <1>5. Shapes'
    <2>1. ASSUME NEW x \in Posting
          PROVE  legs'[x] \in [tx : Transaction \cup {None}, value : Value]
      <3>1. legs[x] \in [tx : Transaction \cup {None}, value : Value]
        BY DEF TransferInv, Shapes
      <3>2. NoLeg \in [tx : Transaction \cup {None}, value : Value]
        BY DEF NoLeg, Value
      <3>3. CASE x \in DOMAIN value
        <4> DEFINE v == value[x]
        <4>1. legs'[x] = [tx |-> t, value |-> v] /\ v \in Value
          BY <1>1, <3>3
        <4> HIDE DEF v
        <4> QED
          BY <4>1
      <3> QED
        BY <1>1, <3>1, <3>2, <3>3
    <2>2. legs' \in [Posting -> [tx : Transaction \cup {None}, value : Value]]
      BY <1>2, <2>1
    <2>3. \A u \in Transaction :
            IsLog(merges'[u]) /\ \A i \in DOMAIN merges'[u] : RecordShape(merges'[u][i], u)
      BY <1>3
    <2>4. \A c \in DOMAIN call' : CallShape(call'[c])
      BY DEF TransferInv, Shapes
    <2>5. txns' \subseteq Transaction /\ torn' \subseteq Transaction
      BY <1>2 DEF TransferInv, Shapes
    <2> QED
      BY <1>3, <1>4, <2>2, <2>3, <2>4, <2>5 DEF Shapes
  <1>6. Rows'
    <2>1. ASSUME NEW x \in Posting, legs'[x].tx # None
          PROVE  legs'[x].tx \in txns
      <3>1. legs[x].tx # None => legs[x].tx \in txns
        BY DEF TransferInv, Rows
      <3>2. NoLeg.tx = None
        BY DEF NoLeg
      <3>3. legs'[x].tx = t \/ legs'[x].tx = None \/ legs'[x].tx = legs[x].tx
        BY <1>1, <3>2
      <3> QED
        BY <1>2, <2>1, <3>1, <3>3
    <2>2. ASSUME NEW r \in Ref, refs'[r].tx = None
          PROVE  refs'[r].leg = None
      BY <1>4, <2>2 DEF TransferInv, Rows
    <2> QED
      BY <2>1, <2>2 DEF Rows
  <1>7. LogInv'
    <2>1. ASSUME NEW u \in txns \ torn', NEW i \in DOMAIN merges'[u]
          PROVE  merges'[u][i].edited \/ legs'[merges[u][i].leg] = legs[merges[u][i].leg]
      <3>1. u \in txns \ torn /\ u \in Transaction /\ i \in DOMAIN merges[u] /\ u # None
        BY <1>2, <1>3 DEF TransferInv, Shapes, TransferAssumption
      <3>2. CASE merges[u][i].edited
        BY <1>3, <3>1, <3>2 DEF Same
      <3>3. CASE ~merges[u][i].edited
        <4>1. /\ merges[u][i].leg \in Posting
              /\ legs[merges[u][i].leg] = [tx |-> u, value |-> merges[u][i].value]
          BY <3>1, <3>3, RecordLeg
        <4>2. legs[merges[u][i].leg].tx = u
          BY <4>1
        <4>3. CASE u = t
          BY <1>1, <1>3, <3>1, <4>1, <4>2, <4>3 DEF LegsOf
        <4>4. CASE u # t
          BY <1>1, <3>1, <4>1, <4>2, <4>4
        <4> QED
          BY <4>3, <4>4
      <3> QED
        BY <3>2, <3>3
    <2>2. \A u \in Transaction : \A i \in DOMAIN merges'[u] :
             i \in DOMAIN merges[u] /\ Same(merges'[u][i], merges[u][i])
      BY <1>3
    <2>3. \A u \in txns' \ torn' : u \in Transaction /\ \A i \in DOMAIN merges'[u] :
             merges'[u][i].edited \/ legs'[merges[u][i].leg] = legs[merges[u][i].leg]
      BY <2>1 DEF TransferInv, Shapes
    <2>4. txns' \ torn' \subseteq txns \ torn /\ torn \subseteq torn' /\ LogInv
      BY <1>2 DEF TransferInv
    <2> QED
      BY <2>2, <2>3, <2>4, LogKept
  <1>8. Sourced'
    <2>1. \A p \in Posting, S \in SUBSET Ref : Noted(p, S)' => Noted(p, S)
      BY <1>3 DEF Noted, Same
    <2> QED
      BY <1>4, <2>1, SourcedKept DEF TransferInv, RefInv
  <1>9. ReferencesFollow'
    <2> SUFFICES ASSUME NEW r \in Ref \ late, refs'[r].leg # None
                 PROVE  legs'[refs'[r].leg].tx = refs'[r].tx
      BY DEF ReferencesFollow
    <2> DEFINE x == refs[r].leg
    <2>1. refs'[r].leg = x /\ x \notin LegsOf(t) \ DOMAIN value /\ refs'[r].tx = refs[r].tx
      BY <1>4
    <2>2. x \in Posting /\ x # None /\ legs[x].tx = refs[r].tx
      BY <2>1 DEF TransferInv, Shapes, RefInv, ReferencesFollow
    <2>3. refs[r].tx # None
      BY <2>2 DEF TransferInv, Rows
    <2> HIDE DEF x
    <2>4. CASE x \in DOMAIN value
      <3>1. legs'[x].tx = t /\ legs[x].tx = t
        BY <1>1, <2>2, <2>3, <2>4
      <3> QED
        BY <2>1, <2>2, <3>1
    <2>5. CASE x \notin DOMAIN value
      <3>1. legs'[x] = legs[x]
        BY <1>1, <2>1, <2>2, <2>5 DEF LegsOf
      <3> QED
        BY <2>1, <2>2, <3>1
    <2> QED
      BY <2>4, <2>5
  <1> QED
    BY <1>5, <1>6, <1>7, <1>8, <1>9 DEF TransferInv, RefInv

LEMMA DeleteKeeps ==
    ASSUME TransferAssumption, TransferInv, NEW t \in Transaction, Delete(t)
    PROVE  TransferInv'
  <1>1. /\ UNCHANGED <<call, torn, late>> /\ txns' = txns \ {t} /\ t # None
        /\ refs' = [r \in Ref |-> IF refs[r].tx = t THEN NoRef ELSE refs[r]]
        /\ legs' = [p \in Posting |-> IF legs[p].tx = t THEN NoLeg ELSE legs[p]]
        /\ merges' = [merges EXCEPT ![t] = <<>>]
    BY DEF Delete, TransferAssumption
  <1>2. /\ DOMAIN merges' = Transaction /\ merges'[t] = <<>> /\ DOMAIN merges'[t] = {}
        /\ \A u \in Transaction : u # t => merges'[u] = merges[u]
    BY <1>1 DEF TransferInv, Shapes
  <1>3. \A u \in Transaction : \A i \in DOMAIN merges'[u] :
            u # t /\ i \in DOMAIN merges[u] /\ merges'[u][i] = merges[u][i]
    BY <1>2
  <1>4. /\ \A x \in Posting : legs[x].tx = t => legs'[x] = NoLeg
        /\ \A x \in Posting : legs[x].tx # t => legs'[x] = legs[x]
        /\ \A r \in Ref : refs[r].tx = t => refs'[r] = NoRef
        /\ \A r \in Ref : refs[r].tx # t => refs'[r] = refs[r]
        /\ NoLeg.tx = None /\ NoRef.tx = None /\ NoRef.leg = None
    BY <1>1 DEF NoLeg, NoRef
  <1>5. Shapes'
    <2>1. \A x \in Posting : legs'[x] \in [tx : Transaction \cup {None}, value : Value]
      <3>1. NoLeg \in [tx : Transaction \cup {None}, value : Value]
        BY DEF NoLeg, Value
      <3> QED
        BY <1>4, <3>1 DEF TransferInv, Shapes
    <2>2. legs' \in [Posting -> [tx : Transaction \cup {None}, value : Value]]
      BY <1>1, <2>1
    <2>3. \A r \in Ref : refs'[r] \in [tx : Transaction \cup {None}, leg : Posting \cup {None}]
      <3>1. NoRef \in [tx : Transaction \cup {None}, leg : Posting \cup {None}]
        BY DEF NoRef
      <3> QED
        BY <1>4, <3>1 DEF TransferInv, Shapes
    <2>4. refs' \in [Ref -> [tx : Transaction \cup {None}, leg : Posting \cup {None}]]
      BY <1>1, <2>3
    <2>5. IsLog(<<>>)
      BY DEF IsLog
    <2>6. \A u \in Transaction :
            IsLog(merges'[u]) /\ \A i \in DOMAIN merges'[u] : RecordShape(merges'[u][i], u)
      BY <1>2, <1>3, <2>5 DEF TransferInv, Shapes
    <2>7. \A c \in DOMAIN call' : CallShape(call'[c])
      BY <1>1 DEF TransferInv, Shapes
    <2> QED
      BY <1>1, <1>2, <2>2, <2>4, <2>6, <2>7 DEF TransferInv, Shapes
  <1>6. Rows'
    BY <1>1, <1>4 DEF TransferInv, Rows
  <1>7. LogInv'
    <2>1. ASSUME NEW u \in txns \ torn, u # t, NEW i \in DOMAIN merges[u]
          PROVE  merges[u][i].edited \/ legs'[merges[u][i].leg] = legs[merges[u][i].leg]
      <3>1. CASE ~merges[u][i].edited
        <4>1. /\ merges[u][i].leg \in Posting
              /\ legs[merges[u][i].leg] = [tx |-> u, value |-> merges[u][i].value]
          BY <3>1, RecordLeg
        <4>2. legs[merges[u][i].leg].tx # t
          BY <2>1, <4>1
        <4> QED
          BY <1>4, <4>1, <4>2
      <3> QED
        BY <3>1
    <2>2. \A u \in Transaction : \A i \in DOMAIN merges'[u] :
             i \in DOMAIN merges[u] /\ Same(merges'[u][i], merges[u][i])
      BY <1>3 DEF Same
    <2>3. \A u \in txns' \ torn' : u \in Transaction /\ \A i \in DOMAIN merges'[u] :
             merges'[u][i].edited \/ legs'[merges[u][i].leg] = legs[merges[u][i].leg]
      BY <1>1, <1>3, <2>1 DEF TransferInv, Shapes
    <2>4. txns' \ torn' \subseteq txns \ torn /\ torn \subseteq torn' /\ LogInv
      BY <1>1 DEF TransferInv
    <2> QED
      BY <2>2, <2>3, <2>4, LogKept
  <1>8. Sourced'
    <2>1. \A p \in Posting, S \in SUBSET Ref : Noted(p, S)' => Noted(p, S)
      BY <1>1, <1>3 DEF Noted
    <2>2. \A r \in Ref : refs'[r].leg \in {refs[r].leg, None}
      BY <1>4
    <2> QED
      BY <1>1, <2>1, <2>2, SourcedKept DEF TransferInv, RefInv
  <1>9. ReferencesFollow'
    <2> SUFFICES ASSUME NEW r \in Ref \ late, refs'[r].leg # None
                 PROVE  legs'[refs'[r].leg].tx = refs'[r].tx
      BY <1>1 DEF ReferencesFollow
    <2>1. refs[r].tx # t /\ refs'[r] = refs[r]
      BY <1>4
    <2>2. refs[r].leg \in Posting /\ legs[refs[r].leg].tx = refs[r].tx
      BY <2>1 DEF TransferInv, Shapes, RefInv, ReferencesFollow
    <2>3. legs'[refs[r].leg] = legs[refs[r].leg]
      BY <1>4, <2>1, <2>2
    <2> QED
      BY <2>1, <2>2, <2>3
  <1> QED
    BY <1>5, <1>6, <1>7, <1>8, <1>9 DEF TransferInv, RefInv

\* A reference that an import attaches to p on t.
Attached(t, r, p) ==
    /\ r \in NewRefs /\ p \in Posting
    /\ refs' = [refs EXCEPT ![r] = [tx |-> t, leg |-> p]]
    /\ IF \E S \in SUBSET Ref : Noted(p, S) THEN r \in late' /\ late \ {r} \subseteq late'
       ELSE late \ {r} \subseteq late'

LEMMA AttachedIs ==
    ASSUME TransferInv, NEW t, NEW r, NEW p, Attached(t, r, p)
    PROVE  /\ r \in Ref /\ refs[r] = NoRef /\ refs'[r] = [tx |-> t, leg |-> p]
           /\ refs'[r].tx = t /\ refs'[r].leg = p
           /\ \A x \in Ref : x # r => refs'[x] = refs[x]
  BY NewRefIs DEF Attached, TransferInv, Shapes

LEMMA AttachedSourced ==
    ASSUME TransferInv, NEW t, NEW r, NEW p, Attached(t, r, p), UNCHANGED <<merges, call>>
    PROVE  Sourced'
  <1>1. /\ r \in Ref /\ refs'[r].leg = p /\ \A x \in Ref : x # r => refs'[x] = refs[x]
        /\ \A l, S : Noted(l, S) => r \notin S
    <2>1. r \in NewRefs
      BY DEF Attached
    <2>2. \A l, S : Noted(l, S) => r \notin S
      BY <2>1, NewRefIs
    <2>3. /\ r \in Ref /\ refs'[r] = [tx |-> t, leg |-> p] /\ refs'[r].tx = t /\ refs'[r].leg = p
          /\ \A x \in Ref : x # r => refs'[x] = refs[x]
      BY AttachedIs
    <2> QED
      BY <2>2, <2>3
  <1>2. \A l \in Posting, S \in SUBSET Ref : Noted(l, S)' => Noted(l, S)
    BY DEF Noted
  <1>3. ASSUME NEW x \in Ref \ late'
        PROVE  \/ x \notin late /\ refs'[x].leg \in {refs[x].leg, None}
               \/ \A l \in Posting, S \in SUBSET Ref :
                    Noted(l, S) => x \notin S /\ refs'[x].leg # l
    <2>1. CASE x = r
      <3>1. \A S \in SUBSET Ref : ~Noted(p, S)
        BY <2>1 DEF Attached
      <3> QED
        BY <1>1, <2>1, <3>1
    <2>2. CASE x # r
      <3>1. x \notin late
        BY <2>2 DEF Attached
      <3> QED
        BY <1>1, <2>2, <3>1
    <2> QED
      BY <2>1, <2>2
  <1> QED
    BY <1>2, <1>3, SourcedKept DEF TransferInv, RefInv

LEMMA AdoptKeeps ==
    ASSUME TransferAssumption, TransferInv, NEW t \in Transaction, Adopt(t)
    PROVE  TransferInv'
  <1>1. PICK p \in LegsOf(t), r \in NewRefs :
          /\ refs' = [refs EXCEPT ![r] = [tx |-> t, leg |-> p]]
          /\ late' = IF \E m \in Records \cup Merging : m.leg = p THEN late \cup {r} ELSE late \ {r}
    BY DEF Adopt
  <1>2. UNCHANGED <<txns, legs, merges, call, torn>>
    BY DEF Adopt
  <1>3. p \in Posting /\ legs[p].tx = t /\ t # None
    BY DEF LegsOf, TransferAssumption
  <1>4. Attached(t, r, p)
    <2>1. CASE \E m \in Records \cup Merging : m.leg = p
      BY <1>1, <1>3, <2>1 DEF Attached
    <2>2. CASE ~ \E m \in Records \cup Merging : m.leg = p
      <3>1. ~ \E S \in SUBSET Ref : Noted(p, S)
        BY <2>2, NotedIsNamed
      <3> QED
        BY <1>1, <1>3, <2>2, <3>1 DEF Attached
    <2> QED
      BY <2>1, <2>2
  <1>5. /\ r \in Ref /\ refs'[r] = [tx |-> t, leg |-> p] /\ refs'[r].tx = t /\ refs'[r].leg = p
        /\ \A x \in Ref : x # r => refs'[x] = refs[x]
    BY <1>4, AttachedIs
  <1>6. Shapes'
    <2>1. refs' \in [Ref -> [tx : Transaction \cup {None}, leg : Posting \cup {None}]]
      BY <1>1, <1>3 DEF TransferInv, Shapes
    <2>2. \A u \in Transaction :
            IsLog(merges'[u]) /\ \A i \in DOMAIN merges'[u] : RecordShape(merges'[u][i], u)
      BY <1>2 DEF TransferInv, Shapes
    <2>3. \A c \in DOMAIN call' : CallShape(call'[c])
      BY <1>2 DEF TransferInv, Shapes
    <2> QED
      BY <1>2, <2>1, <2>2, <2>3 DEF TransferInv, Shapes
  <1>7. Rows'
    BY <1>2, <1>3, <1>5 DEF TransferInv, Rows
  <1>8. LogInv'
    BY <1>2 DEF TransferInv, LogInv, NamedOnce, LegsApart, LogsAgree, LegsStand
  <1>9. Sourced'
    BY <1>2, <1>4, AttachedSourced
  <1>10. ReferencesFollow'
    <2>1. \A x \in Ref \ late' : x # r => x \notin late
      BY <1>4 DEF Attached
    <2> QED
      BY <1>2, <1>3, <1>5, <2>1 DEF TransferInv, RefInv, ReferencesFollow
  <1> QED
    BY <1>6, <1>7, <1>8, <1>9, <1>10 DEF TransferInv, RefInv

LEMMA AddSourcedKeeps ==
    ASSUME TransferAssumption, TransferInv, NEW t \in Transaction, AddSourced(t)
    PROVE  TransferInv'
  <1>1. PICK p \in NewLegs, r \in NewRefs, v \in Value \ {None} :
          /\ legs' = [legs EXCEPT ![p] = [tx |-> t, value |-> v]]
          /\ refs' = [refs EXCEPT ![r] = [tx |-> t, leg |-> p]]
          /\ late' = late \ {r}
    BY DEF AddSourced
  <1>2. UNCHANGED <<txns, merges, call, torn>> /\ LegsOf(t) # {}
    BY DEF AddSourced
  <1>3. t \in txns /\ t # None
    BY <1>2 DEF LegsOf, TransferInv, Rows, TransferAssumption
  <1>4. p \in Posting /\ legs[p] = NoLeg /\ \A S : ~Noted(p, S)
    BY NewLegIs
  <1>5. Attached(t, r, p)
    BY <1>1, <1>4 DEF Attached
  <1>6. /\ r \in Ref /\ refs'[r] = [tx |-> t, leg |-> p] /\ refs'[r].tx = t /\ refs'[r].leg = p
        /\ \A x \in Ref : x # r => refs'[x] = refs[x]
    BY <1>5, AttachedIs
  <1>7. /\ legs'[p] = [tx |-> t, value |-> v] /\ \A x \in Posting : x # p => legs'[x] = legs[x]
        /\ legs'[p].tx = t
    BY <1>1, <1>4 DEF TransferInv, Shapes
  <1>8. Shapes'
    <2>1. refs' \in [Ref -> [tx : Transaction \cup {None}, leg : Posting \cup {None}]]
      BY <1>1, <1>4 DEF TransferInv, Shapes
    <2>2. legs' \in [Posting -> [tx : Transaction \cup {None}, value : Value]]
      BY <1>1, <1>4 DEF TransferInv, Shapes
    <2>3. \A u \in Transaction :
            IsLog(merges'[u]) /\ \A i \in DOMAIN merges'[u] : RecordShape(merges'[u][i], u)
      BY <1>2 DEF TransferInv, Shapes
    <2>4. \A c \in DOMAIN call' : CallShape(call'[c])
      BY <1>2 DEF TransferInv, Shapes
    <2> QED
      BY <1>2, <2>1, <2>2, <2>3, <2>4 DEF TransferInv, Shapes
  <1>9. Rows'
    BY <1>2, <1>3, <1>6, <1>7 DEF TransferInv, Rows
  <1>10. LogInv'
    <2>1. ASSUME NEW u \in Transaction, NEW i \in DOMAIN merges[u]
          PROVE  legs'[merges[u][i].leg] = legs[merges[u][i].leg]
      <3>1. merges[u][i].leg \in Posting
        BY DEF TransferInv, Shapes, RecordShape
      <3>2. merges[u][i].leg # p
        BY <1>4, RecordNotes
      <3> QED
        BY <1>7, <3>1, <3>2
    <2>2. \A u \in Transaction : \A i \in DOMAIN merges'[u] :
             i \in DOMAIN merges[u] /\ Same(merges'[u][i], merges[u][i])
      BY <1>2 DEF Same
    <2>3. \A u \in txns' \ torn' : u \in Transaction /\ \A i \in DOMAIN merges'[u] :
             merges'[u][i].edited \/ legs'[merges[u][i].leg] = legs[merges[u][i].leg]
      BY <1>2, <2>1 DEF TransferInv, Shapes
    <2>4. txns' \ torn' \subseteq txns \ torn /\ torn \subseteq torn' /\ LogInv
      BY <1>2 DEF TransferInv
    <2> QED
      BY <2>2, <2>3, <2>4, LogKept
  <1>11. Sourced'
    BY <1>2, <1>5, AttachedSourced
  <1>12. ReferencesFollow'
    <2> SUFFICES ASSUME NEW x \in Ref \ late', refs'[x].leg # None
                 PROVE  legs'[refs'[x].leg].tx = refs'[x].tx
      BY DEF ReferencesFollow
    <2>1. CASE x = r
      BY <1>6, <1>7, <2>1
    <2>2. CASE x # r
      <3>1. refs'[x] = refs[x] /\ x \notin late
        BY <1>1, <1>6, <2>2
      <3>2. refs[x].leg \in Posting /\ legs[refs[x].leg].tx = refs[x].tx /\ refs[x].tx # None
        BY <3>1 DEF TransferInv, Shapes, Rows, RefInv, ReferencesFollow
      <3>3. refs[x].leg # p
        BY <1>4, <3>2 DEF NoLeg
      <3> QED
        BY <1>7, <3>1, <3>2, <3>3
    <2> QED
      BY <2>1, <2>2
  <1> QED
    BY <1>8, <1>9, <1>10, <1>11, <1>12 DEF TransferInv, RefInv

-----------------------------------------------------------------------------
(* The start.                                                              *)

\* At the start every transaction has a leg of its own, and the references of
\* those that were imported name it.
LEMMA InitHolds ==
    ASSUME TransferAssumption, Init
    PROVE  TransferInv
  <1>1. /\ txns \subseteq Transaction /\ call = [c \in DOMAIN call |-> None] /\ None \notin txns
        /\ merges = [t \in Transaction |-> <<>>] /\ torn = {} /\ late = {}
    BY DEF Init, TransferAssumption
  <1>2. PICK imported \in SUBSET txns, v \in [txns -> Openings] :
          LET legOf == CHOOSE f \in Injection(txns, Posting) : TRUE
              refOf == CHOOSE f \in Injection(imported, Ref) : TRUE
          IN  /\ Cardinality(imported) < Cardinality(Ref)
              /\ ExistsInjection(txns, Posting) /\ ExistsInjection(imported, Ref)
              /\ legs = [p \in Posting |-> IF \E t \in txns : legOf[t] = p
                             THEN LET t == CHOOSE u \in txns : legOf[u] = p
                                  IN [tx |-> t, value |-> v[t]]
                             ELSE NoLeg]
              /\ refs = [r \in Ref |-> IF \E t \in imported : refOf[t] = r
                             THEN LET t == CHOOSE u \in imported : refOf[u] = r
                                  IN [tx |-> t, leg |-> legOf[t]]
                             ELSE NoRef]
    BY Zenon DEF Init
  <1> DEFINE legOf == CHOOSE f \in Injection(txns, Posting) : TRUE
             refOf == CHOOSE f \in Injection(imported, Ref) : TRUE
  <1>3. legOf \in [txns -> Posting] /\ \A t, u \in txns : legOf[t] = legOf[u] => t = u
    BY <1>2 DEF ExistsInjection, Injection, IsInjective
  <1>4. /\ legs = [p \in Posting |-> IF \E t \in txns : legOf[t] = p
                       THEN LET t == CHOOSE u \in txns : legOf[u] = p
                            IN [tx |-> t, value |-> v[t]]
                       ELSE NoLeg]
        /\ refs = [r \in Ref |-> IF \E t \in imported : refOf[t] = r
                       THEN LET t == CHOOSE u \in imported : refOf[u] = r
                            IN [tx |-> t, leg |-> legOf[t]]
                       ELSE NoRef]
    BY <1>2
  <1> HIDE DEF legOf, refOf
  <1>5. ASSUME NEW p \in Posting
        PROVE  legs[p] = NoLeg \/ \E t \in txns : legs[p] = [tx |-> t, value |-> v[t]]
    BY <1>4
  <1>6. \A r \in Ref : \/ refs[r] = NoRef
                       \/ \E t \in imported : refs[r] = [tx |-> t, leg |-> legOf[t]]
    BY <1>4
  <1>7. ASSUME NEW t \in txns
        PROVE  legOf[t] \in Posting /\ legs[legOf[t]] = [tx |-> t, value |-> v[t]]
    <2>1. legOf[t] \in Posting /\ t = CHOOSE u \in txns : legOf[u] = legOf[t]
      BY <1>3
    <2> QED
      BY <1>4, <2>1
  <1>8. /\ NoLeg.tx = None /\ NoRef.tx = None /\ NoRef.leg = None
        /\ NoLeg \in [tx : Transaction \cup {None}, value : Value]
        /\ NoRef \in [tx : Transaction \cup {None}, leg : Posting \cup {None}]
    BY DEF NoLeg, NoRef, Value
  <1>9. Shapes
    <2>2. legs \in [Posting -> [tx : Transaction \cup {None}, value : Value]]
      <3>1. ASSUME NEW p \in Posting
            PROVE  legs[p] \in [tx : Transaction \cup {None}, value : Value]
        <4>1. CASE legs[p] = NoLeg
          BY <1>8, <4>1
        <4>2. CASE \E t \in txns : legs[p] = [tx |-> t, value |-> v[t]]
          <5>1. PICK t \in txns : legs[p] = [tx |-> t, value |-> v[t]]
            BY <4>2
          <5> DEFINE w == v[t]
          <5>2. legs[p] = [tx |-> t, value |-> w] /\ w \in Value
            BY <5>1 DEF Value, TransferAssumption
          <5> HIDE DEF w
          <5> QED
            BY <1>1, <5>2
        <4> QED
          BY <1>5, <4>1, <4>2
      <3> QED
        BY <1>4, <3>1
    <2>3. refs \in [Ref -> [tx : Transaction \cup {None}, leg : Posting \cup {None}]]
      <3>1. ASSUME NEW r \in Ref
            PROVE  refs[r] \in [tx : Transaction \cup {None}, leg : Posting \cup {None}]
        <4>1. CASE refs[r] = NoRef
          BY <1>8, <4>1
        <4>2. CASE \E t \in imported : refs[r] = [tx |-> t, leg |-> legOf[t]]
          <5>1. PICK t \in imported : refs[r] = [tx |-> t, leg |-> legOf[t]]
            BY <4>2
          <5> DEFINE l == legOf[t]
          <5>2. refs[r] = [tx |-> t, leg |-> l] /\ l \in Posting /\ t \in Transaction
            BY <1>1, <1>3, <5>1
          <5> HIDE DEF l
          <5> QED
            BY <5>2
        <4> QED
          BY <1>6, <4>1, <4>2
      <3> QED
        BY <1>4, <3>1
    <2>4. DOMAIN merges = Transaction /\ \A s \in Transaction : merges[s] = <<>>
      BY <1>1
    <2>5. IsLog(<<>>)
      BY DEF IsLog
    <2>6. \A c \in DOMAIN call : CallShape(call[c])
      BY <1>1 DEF CallShape
    <2> QED
      BY <1>1, <2>2, <2>3, <2>4, <2>5, <2>6 DEF Shapes
  <1>10. Rows
    <2>1. ASSUME NEW p \in Posting, legs[p].tx # None
          PROVE  legs[p].tx \in txns
      <3>1. PICK t \in txns : legs[p] = [tx |-> t, value |-> v[t]]
        BY <1>5, <1>8, <2>1
      <3> DEFINE w == v[t]
      <3>2. legs[p] = [tx |-> t, value |-> w]
        BY <3>1
      <3> HIDE DEF w
      <3> QED
        BY <3>2
    <2>2. ASSUME NEW r \in Ref, refs[r].tx = None
          PROVE  refs[r].leg = None
      <3>1. CASE refs[r] = NoRef
        BY <1>8, <3>1
      <3>2. CASE refs[r] # NoRef
        <4>1. PICK t \in imported : refs[r] = [tx |-> t, leg |-> legOf[t]]
          BY <1>6, <3>2
        <4> DEFINE l == legOf[t]
        <4>2. refs[r] = [tx |-> t, leg |-> l] /\ t # None
          BY <1>1, <4>1
        <4> HIDE DEF l
        <4> QED
          BY <2>2, <4>2
      <3> QED
        BY <3>1, <3>2
    <2> QED
      BY <2>1, <2>2 DEF Rows
  <1>11. LogInv /\ Sourced
    <2>1. \A s \in Transaction : DOMAIN merges[s] = {}
      BY <1>1
    <2>2. \A c \in DOMAIN call : call[c] = None
      BY <1>1
    <2>3. \A p, S : ~Noted(p, S)
      BY <2>1, <2>2 DEF Noted, NotedBy
    <2> QED
      BY <1>1, <2>1, <2>3 DEF LogInv, NamedOnce, LegsApart, LogsAgree, LegsStand, Sourced
  <1>12. ReferencesFollow
    <2> SUFFICES ASSUME NEW r \in Ref, refs[r].leg # None
                 PROVE  legs[refs[r].leg].tx = refs[r].tx
      BY DEF ReferencesFollow
    <2>1. PICK t \in imported : refs[r] = [tx |-> t, leg |-> legOf[t]]
      BY <1>6, <1>8
    <2> DEFINE l == legOf[t]
               w == v[t]
    <2>2. t \in txns /\ refs[r] = [tx |-> t, leg |-> l] /\ legs[l] = [tx |-> t, value |-> w]
      BY <1>7, <2>1
    <2> HIDE DEF l, w
    <2> QED
      BY <2>2
  <1> QED
    BY <1>9, <1>10, <1>11, <1>12 DEF TransferInv, RefInv

-----------------------------------------------------------------------------
(* Types.                                                                  *)

LEMMA BlankType ==
    ASSUME TransferAssumption
    PROVE  Blank \in Header /\ NoLeg \in [tx : Transaction \cup {None}, value : Value]
           /\ NoRef \in [tx : Transaction \cup {None}, leg : Posting \cup {None}]
  <1>1. 1 \in 1 .. MaxDate /\ Unreconciled \in Settled /\ [e \in Entry |-> 0] \in Meta
    BY DEF TransferAssumption, Meta
  <1> QED
    BY <1>1 DEF Blank, Header, NoLeg, NoRef, Value

LEMMA MetaTypes ==
    ASSUME NEW before \in Meta, NEW was \in Meta, NEW now \in Meta
    PROVE  /\ Appended(before, was) \in Meta /\ JoinMeta(before, was) \in Meta
           /\ Subtract(now, before, was) \in Meta
  <1>1. Appended(before, was) \in Meta
    BY DEF Appended, Meta
  <1>2. \A n, m \in Nat : Less(n, m) \in Nat
    BY DEF Less
  <1> HIDE DEF Less
  <1>3. Subtract(now, before, was) \in Meta
    BY <1>1, <1>2 DEF Subtract, Meta, Less
  <1> QED
    BY <1>1, <1>3 DEF JoinMeta, Meta

\* Ranks of a reconciliation are naturals.
LEMMA Ranks ==
    ASSUME TransferAssumption
    PROVE  Settled \subseteq Nat
  BY DEF TransferAssumption, Unreconciled, Flagged, Reconciled

LEMMA MergedTypes ==
    ASSUME TransferAssumption, NEW before \in Header, NEW was \in Header
    PROVE  MergedDate(before, was) \in 1 .. MaxDate /\ MergedSettled(before, was) \in Settled
  BY DEF Header, MergedDate, MergedSettled

LEMMA JoinedType ==
    ASSUME TransferAssumption, header \in [Transaction -> Header], NEW s \in Transaction,
           NEW a \in Transaction, NEW shown \in Header, NEW was \in Header
    PROVE  Joined(s, a, shown, was) \in Header
  <1>1. MergedDate(shown, was) \in 1 .. MaxDate /\ MergedSettled(shown, was) \in Settled
    BY MergedTypes
  <1>2. JoinMeta(shown.meta, was.meta) \in Meta
    BY MetaTypes DEF Header
  <1>3. header[s].tags \cup header[a].tags \in SUBSET Tag
    BY DEF Header
  <1> QED
    BY <1>1, <1>2, <1>3 DEF Joined, Header

LEMMA PartedType ==
    ASSUME TransferAssumption, NEW now \in Header, NEW meta \in Meta, NEW m,
           m.before \in Header, m.was \in Header
    PROVE  Parted(now, meta, m) \in Header
  <1>1. Subtract(meta, m.before.meta, m.was.meta) \in Meta
    BY MetaTypes DEF Header
  <1> QED
    BY <1>1 DEF Parted, Header

LEMMA RewrittenType ==
    ASSUME NEW o \in Header, NEW now \in Header, NEW h \in Header
    PROVE  Rewritten(o, now, h) \in Header
  <1>1. \A e \in Entry : o.meta[e] \in Nat /\ now.meta[e] \in Nat /\ h.meta[e] \in Nat
    BY DEF Header, Meta
  <1> DEFINE M == [e \in Entry |-> IF h.meta[e] > now.meta[e]
                                  THEN o.meta[e] + (h.meta[e] - now.meta[e])
                                  ELSE Less(o.meta[e], now.meta[e] - h.meta[e])]
  <1>2. M \in Meta
    BY <1>1 DEF Meta, Less
  <1> HIDE DEF M
  <1>3. Rewritten(o, now, h) =
          [date |-> IF h.date # now.date THEN h.date ELSE o.date,
           tags |-> (o.tags \cup (h.tags \ now.tags)) \ (now.tags \ h.tags),
           meta |-> M,
           settled |-> IF h.settled # now.settled THEN h.settled ELSE o.settled]
    BY DEF Rewritten, M
  <1> QED
    BY <1>2, <1>3 DEF Header

LEMMA RevisionsType ==
    ASSUME NEW h \in Header
    PROVE  Revisions(h) \subseteq Header
  <1>1. h.meta \in [Entry -> Nat]
    BY DEF Header, Meta
  <1>2. ASSUME NEW e \in Entry
        PROVE  /\ [h.meta EXCEPT ![e] = @ + 1] \in Meta
               /\ h.meta[e] > 0 => [h.meta EXCEPT ![e] = @ - 1] \in Meta
    BY <1>1 DEF Meta
  <1>3. \A M \in Meta : [h EXCEPT !.meta = M] \in Header
    BY DEF Header
  <1>4. \A e \in Entry : /\ [h EXCEPT !.meta[e] = @ + 1] = [h EXCEPT !.meta = [h.meta EXCEPT ![e] = @ + 1]]
                         /\ [h EXCEPT !.meta[e] = @ - 1] = [h EXCEPT !.meta = [h.meta EXCEPT ![e] = @ - 1]]
    BY DEF Header
  <1>5. \A e \in Entry : /\ [h EXCEPT !.meta[e] = @ + 1] \in Header
                         /\ h.meta[e] > 0 => [h EXCEPT !.meta[e] = @ - 1] \in Header
    BY <1>2, <1>3, <1>4
  <1>6. (\A d \in 1 .. MaxDate : [h EXCEPT !.date = d] \in Header)
        /\ (\A T \in SUBSET Tag : [h EXCEPT !.tags = T] \in Header)
    BY DEF Header
  <1> QED
    BY <1>5, <1>6 DEF Revisions

-----------------------------------------------------------------------------

\* What a caller holds, by what it does.
LEMMA CallTypes ==
    ASSUME TypeOK, NEW c \in DOMAIN call, call[c] # None
    PROVE  /\ call[c].op = "merge" => call[c] \in MergeCall
           /\ call[c].op = "unmerge" => call[c] \in UnmergeCall
  BY DEF TypeOK, MergeCall, UnmergeCall

LEMMA RecordFields ==
    ASSUME NEW m \in Record
    PROVE  /\ m.absorbed \in Transaction /\ m.was \in Header /\ m.before \in Header
           /\ m.leg \in Posting /\ m.sources \subseteq Ref /\ m.value \in Value
  BY DEF Record

LEMMA CallFields ==
    ASSUME NEW k
    PROVE  /\ k \in MergeCall =>
                /\ k.survivor \in Transaction /\ k.absorbed \in Transaction /\ k.shown \in Header
                /\ k.was \in Header /\ k.leg \in Posting /\ k.sources \subseteq Ref
           /\ k \in UnmergeCall =>
                /\ k.survivor \in Transaction /\ k.record \in Record /\ k.meta \in Meta
  BY DEF MergeCall, UnmergeCall

\* A call that ends, and one that begins.
CallOK == DOMAIN call \subseteq Caller
          /\ \A c \in DOMAIN call : call[c] = None \/ call[c] \in MergeCall \/ call[c] \in UnmergeCall

LEMMA CallSet ==
    ASSUME CallOK, NEW c \in DOMAIN call, NEW k, call' = [call EXCEPT ![c] = k],
           k = None \/ k \in MergeCall \/ k \in UnmergeCall
    PROVE  CallOK'
  BY DEF CallOK

LEMMA ReadingTypes ==
    ASSUME TypeOK, NEW c \in DOMAIN call, NEW s \in Transaction, NEW a \in Transaction,
           ReadMerge(c, s, a) \/ ReadLog(c, s)
    PROVE  TypeOK'
  <1>1. CallOK'
    <2>1. CallOK
      BY DEF TypeOK, CallOK
    <2>2. CASE ReadMerge(c, s, a)
      <3>1. PICK p \in LegsOf(a) :
              call' = [call EXCEPT ![c] =
                  [op |-> "merge", survivor |-> s, absorbed |-> a, shown |-> header[s],
                   was |-> header[a], leg |-> p, sources |-> RefsOf(a)]]
        BY <2>2 DEF ReadMerge
      <3> DEFINE k == [op |-> "merge", survivor |-> s, absorbed |-> a, shown |-> header[s],
                       was |-> header[a], leg |-> p, sources |-> RefsOf(a)]
      <3>2. header[s] \in Header /\ header[a] \in Header /\ p \in Posting /\ RefsOf(a) \subseteq Ref
        BY DEF TypeOK, LegsOf, RefsOf
      <3>3. k \in MergeCall
        BY <3>2 DEF MergeCall
      <3>4. call' = [call EXCEPT ![c] = k]
        BY <3>1
      <3> HIDE DEF k
      <3> QED
        BY <2>1, <3>3, <3>4, CallSet
    <2>3. CASE ReadLog(c, s)
      <3> DEFINE k == [op |-> "unmerge", survivor |-> s, record |-> Last(merges[s]), meta |-> header[s].meta]
      <3>1. call' = [call EXCEPT ![c] = k] /\ merges[s] # <<>> /\ merges[s] \in Seq(Record)
        BY <2>3 DEF ReadLog, TypeOK
      <3>2. Last(merges[s]) \in Record
        BY <3>1 DEF Last
      <3>3. header[s].meta \in Meta
        BY DEF TypeOK, Header
      <3>4. k \in UnmergeCall
        BY <3>2, <3>3 DEF UnmergeCall
      <3> HIDE DEF k
      <3> QED
        BY <2>1, <3>1, <3>4, CallSet
    <2> QED
      BY <2>2, <2>3
  <1>2. UNCHANGED <<txns, header, legs, refs, merges, draft, edits, own, clouded, torn, late>>
    BY DEF ReadMerge, ReadLog
  <1> QED
    BY <1>1, <1>2 DEF TypeOK, CallOK

LEMMA MergeTypes ==
    ASSUME TransferAssumption, TypeOK, NEW c \in DOMAIN call, Merge(c)
    PROVE  TypeOK'
  <1> DEFINE k == call[c]
             s == k.survivor
             a == k.absorbed
             m == [absorbed |-> a, was |-> k.was, before |-> k.shown, leg |-> k.leg,
                   sources |-> k.sources, edited |-> FALSE, value |-> legs[k.leg].value]
             J == Joined(s, a, k.shown, k.was)
  <1>1. CallOK' /\ UNCHANGED <<draft, edits, own, late>>
    BY CallSet DEF Merge, TypeOK, CallOK
  <1>2. k \in MergeCall
    BY CallTypes DEF Merge
  <1>3. /\ s \in Transaction /\ a \in Transaction /\ k.shown \in Header
        /\ k.was \in Header /\ k.leg \in Posting /\ k.sources \subseteq Ref
    BY <1>2, CallFields
  <1>4. m \in Record
    BY <1>3 DEF Record, TypeOK
  <1>5. J \in Header
    BY <1>3, JoinedType DEF TypeOK
  <1>6. Blank \in Header
    BY BlankType
  <1>7. CASE UNCHANGED <<txns, header, legs, refs, merges, clouded, torn>>
    BY <1>1, <1>7 DEF TypeOK, CallOK
  <1>8. CASE /\ merges' = [merges EXCEPT ![s] = Append(@, m)]
             /\ refs' = [r \in Ref |-> IF r \in RefsOf(a) THEN [refs[r] EXCEPT !.tx = s] ELSE refs[r]]
             /\ legs' = [p \in Posting |-> IF p \in LegsOf(a) THEN [legs[p] EXCEPT !.tx = s] ELSE legs[p]]
             /\ header' = [header EXCEPT ![s] = J, ![a] = Blank]
             /\ txns' = txns \ {a}
             /\ clouded' = clouded \cup IF Stale(k) THEN {s, a} ELSE {}
             /\ torn' = torn \cup IF LegsOf(a) # {k.leg} THEN {s, a} ELSE {}
    <2> HIDE DEF m, J, k, s, a
    <2>1. header' \in [Transaction -> Header]
      BY <1>3, <1>5, <1>6, <1>8 DEF TypeOK
    <2>2. merges' \in [Transaction -> Seq(Record)]
      BY <1>3, <1>4, <1>8 DEF TypeOK
    <2>3. legs' \in [Posting -> [tx : Transaction \cup {None}, value : Value]]
      <3>1. legs \in [Posting -> [tx : Transaction \cup {None}, value : Value]]
        BY DEF TypeOK
      <3> QED
        BY <1>3, <1>8, <3>1
    <2>4. refs' \in [Ref -> [tx : Transaction \cup {None}, leg : Posting \cup {None}]]
      <3>1. refs \in [Ref -> [tx : Transaction \cup {None}, leg : Posting \cup {None}]]
        BY DEF TypeOK
      <3> QED
        BY <1>3, <1>8, <3>1
    <2>5. txns' \subseteq Transaction /\ clouded' \subseteq Transaction /\ torn' \subseteq Transaction
      BY <1>3, <1>8 DEF TypeOK
    <2> QED
      BY <1>1, <2>1, <2>2, <2>3, <2>4, <2>5 DEF TypeOK, CallOK
  <1> QED
    BY <1>7, <1>8 DEF Merge

LEMMA UnmergeTypes ==
    ASSUME TransferAssumption, TypeOK, NEW c \in DOMAIN call, Unmerge(c)
    PROVE  TypeOK'
  <1> DEFINE k == call[c]
             s == k.survivor
             m == k.record
             a == m.absorbed
             H == Parted(header[s], k.meta, m)
  <1>1. CallOK' /\ UNCHANGED <<draft, edits, own, late>>
    BY CallSet DEF Unmerge, TypeOK, CallOK
  <1>2. k \in UnmergeCall
    BY CallTypes DEF Unmerge
  <1>3. s \in Transaction /\ m \in Record /\ k.meta \in Meta
    BY <1>2, CallFields
  <1>4. a \in Transaction /\ m.was \in Header /\ m.before \in Header /\ m.leg \in Posting
    BY <1>3, RecordFields
  <1>5. H \in Header
    BY <1>3, <1>4, PartedType DEF TypeOK
  <1>6. CASE UNCHANGED <<txns, header, legs, refs, merges, clouded, torn>>
    BY <1>1, <1>6 DEF TypeOK, CallOK
  <1>7. CASE /\ MayUnmerge(s, m)
             /\ merges' = [merges EXCEPT ![s] = Front(@)]
             /\ txns' = txns \cup {a}
             /\ header' = [header EXCEPT ![s] = H, ![a] = m.was]
             /\ legs' = [legs EXCEPT ![m.leg].tx = a]
             /\ refs' = Returned(m)
             /\ clouded' = clouded \cup IF Outdated(s, m) \/ k.meta # header[s].meta THEN {s, a} ELSE {}
             /\ torn' = torn \cup IF Outdated(s, m) \/ s \in torn THEN {s, a} ELSE {}
    <2> HIDE DEF k, s, m, a, H
    <2>1. header' \in [Transaction -> Header]
      BY <1>3, <1>4, <1>5, <1>7 DEF TypeOK
    <2>2. merges' \in [Transaction -> Seq(Record)]
      <3>1. merges[s] \in Seq(Record)
        BY <1>3 DEF TypeOK
      <3>2. Front(merges[s]) \in Seq(Record)
        BY <3>1 DEF Front
      <3> QED
        BY <1>3, <1>7, <3>2 DEF TypeOK
    <2>3. legs' \in [Posting -> [tx : Transaction \cup {None}, value : Value]]
      <3>1. legs \in [Posting -> [tx : Transaction \cup {None}, value : Value]]
        BY DEF TypeOK
      <3> QED
        BY <1>4, <1>7, <3>1
    <2>4. refs' \in [Ref -> [tx : Transaction \cup {None}, leg : Posting \cup {None}]]
      <3>1. refs' = [r \in Ref |-> IF r \in m.sources /\ refs[r].tx # None
                                  THEN [refs[r] EXCEPT !.tx = a] ELSE refs[r]]
        BY <1>7 DEF Returned, a
      <3>2. refs \in [Ref -> [tx : Transaction \cup {None}, leg : Posting \cup {None}]]
        BY DEF TypeOK
      <3> QED
        BY <1>4, <3>1, <3>2
    <2>5. txns' \subseteq Transaction /\ clouded' \subseteq Transaction /\ torn' \subseteq Transaction
      BY <1>3, <1>4, <1>7 DEF TypeOK
    <2> QED
      BY <1>1, <2>1, <2>2, <2>3, <2>4, <2>5 DEF TypeOK, CallOK
  <1> QED
    BY <1>6, <1>7 DEF Unmerge

LEMMA HeaderSet ==
    ASSUME TypeOK, NEW t \in Transaction, NEW shown \in Header, NEW h \in Header,
           SetHeader(t, shown, h)
    PROVE  own' \in [Transaction -> Header] /\ header' \in [Transaction -> Header]
  <1> DEFINE R == Rewritten(own[t], shown, h)
  <1>1. R \in Header
    BY RewrittenType DEF TypeOK
  <1>2. own' = [own EXCEPT ![t] = R] /\ header' = [header EXCEPT ![t] = h]
    BY DEF SetHeader
  <1> HIDE DEF R
  <1> QED
    BY <1>1, <1>2 DEF TypeOK

LEMMA WriteTypes ==
    ASSUME TypeOK, NEW t \in Transaction, NEW h \in Header, Write(t, h), edits' \in Nat,
           refs' \in [Ref -> [tx : Transaction \cup {None}, leg : Posting \cup {None}]]
    PROVE  TypeOK'
  <1>1. UNCHANGED <<txns, legs, merges, call, draft, torn, late>>
    BY DEF Write
  <1>2. clouded' \subseteq Transaction
    BY DEF Write, TypeOK
  <1>3. header[t] \in Header
    BY DEF TypeOK
  <1>4. own' \in [Transaction -> Header] /\ header' \in [Transaction -> Header]
    BY <1>3, HeaderSet DEF Write
  <1> QED
    BY <1>1, <1>2, <1>4 DEF TypeOK

LEMMA EditedTypes ==
    ASSUME TypeOK, NEW t \in Transaction, NEW value, NEW E, Edited(t, value, E)
    PROVE  /\ legs' \in [Posting -> [tx : Transaction \cup {None}, value : Value]]
           /\ refs' \in [Ref -> [tx : Transaction \cup {None}, leg : Posting \cup {None}]]
           /\ merges' \in [Transaction -> Seq(Record)]
           /\ torn' \subseteq Transaction
  <1>1. legs' \in [Posting -> [tx : Transaction \cup {None}, value : Value]]
    <2> DEFINE P == DOMAIN value
    <2>1. /\ value \in [P -> Value]
          /\ legs' = [p \in Posting |-> IF p \in P THEN [tx |-> t, value |-> value[p]]
                                        ELSE IF p \in LegsOf(t) THEN NoLeg ELSE legs[p]]
      BY ValuesAre DEF Edited
    <2>2. NoLeg \in [tx : Transaction \cup {None}, value : Value]
      BY DEF NoLeg, Value
    <2> HIDE DEF NoLeg, P
    <2> QED
      BY <2>1, <2>2 DEF TypeOK
  <1>2. refs' \in [Ref -> [tx : Transaction \cup {None}, leg : Posting \cup {None}]]
    BY RelinkedIs DEF Edited, TypeOK
  <1>3. merges' \in [Transaction -> Seq(Record)]
    <2> DEFINE L == [i \in DOMAIN merges[t] |->
                   [merges[t][i] EXCEPT !.edited = merges[t][i].edited \/ merges[t][i].leg \in E]]
    <2>1. merges' = [merges EXCEPT ![t] = L] /\ merges[t] \in Seq(Record)
      BY DEF Edited, Logged, TypeOK
    <2>2. \A m \in Record : [m EXCEPT !.edited = m.edited \/ m.leg \in E] \in Record
      BY DEF Record
    <2>3. L \in Seq(Record)
      <3>1. merges[t] \in [1 .. Len(merges[t]) -> Record] /\ Len(merges[t]) \in Nat
            /\ DOMAIN merges[t] = 1 .. Len(merges[t])
        BY <2>1
      <3>2. L \in [1 .. Len(merges[t]) -> Record]
        BY <2>2, <3>1
      <3> QED
        BY <3>1, <3>2, SeqDef
    <2> HIDE DEF L
    <2> QED
      BY <2>1, <2>3 DEF TypeOK
  <1>4. torn' \subseteq Transaction
    BY DEF Edited, TypeOK
  <1> QED
    BY <1>1, <1>2, <1>3, <1>4

LEMMA EditTypes ==
    ASSUME TypeOK, NEW t \in Transaction, edits' \in Nat, EditLegs(t)
    PROVE  TypeOK'
  <1>1. UNCHANGED <<txns, header, call, draft, own, clouded, torn, late>>
    BY DEF EditLegs
  <1>2. PICK value, E : Edited(t, value, E)
    BY EditLegsEdits DEF TypeOK
  <1> QED
    BY <1>1, <1>2, EditedTypes DEF TypeOK

\* What an editor holds.
DraftsOK == DOMAIN draft \subseteq Editor /\ \A e \in DOMAIN draft : draft[e] \in Draft \cup {None}

LEMMA DraftSet ==
    ASSUME DraftsOK, NEW e \in DOMAIN draft, NEW k \in Draft \cup {None},
           draft' = [draft EXCEPT ![e] = k]
    PROVE  DraftsOK'
  BY DEF DraftsOK

LEMMA StartTypes ==
    ASSUME TypeOK, NEW e \in DOMAIN draft, NEW t \in txns, edits' \in Nat, StartEdit(e, t)
    PROVE  TypeOK'
  <1> DEFINE k == [tx |-> t, shown |-> header[t], legs |-> ValuesOf(t), known |-> None]
  <1>1. UNCHANGED <<txns, header, legs, refs, merges, call, own, clouded, torn, late>>
    BY DEF StartEdit
  <1>2. t \in Transaction /\ header[t] \in Header /\ ValuesOf(t) \in Values
    BY ValuesOfIs DEF TypeOK
  <1>3. k \in Draft
    BY <1>2 DEF Draft
  <1>4. draft' = [draft EXCEPT ![e] = k]
    BY DEF StartEdit
  <1> HIDE DEF k
  <1>5. DraftsOK'
    BY <1>3, <1>4, DraftSet DEF TypeOK, DraftsOK
  <1> QED
    BY <1>1, <1>5 DEF TypeOK, DraftsOK

LEMMA CurrentTypes ==
    ASSUME TypeOK, NEW e \in DOMAIN draft, ReadCurrent(e)
    PROVE  TypeOK'
  <1> DEFINE v == ValuesOf(draft[e].tx)
             k == [draft[e] EXCEPT !.known = v]
  <1>1. UNCHANGED <<txns, header, legs, refs, merges, call, edits, own, clouded, torn, late>>
    BY DEF ReadCurrent
  <1>2. draft[e] \in Draft /\ v \in Values
    BY ValuesOfIs DEF ReadCurrent, TypeOK
  <1>3. draft' = [draft EXCEPT ![e] = k] \/ draft' = [draft EXCEPT ![e] = None]
    BY DEF ReadCurrent
  <1> HIDE DEF v
  <1>4. k \in Draft
    BY <1>2 DEF Draft
  <1> HIDE DEF k
  <1>5. DraftsOK'
    BY <1>3, <1>4, DraftSet DEF TypeOK, DraftsOK
  <1> QED
    BY <1>1, <1>5 DEF TypeOK, DraftsOK

LEMMA Reconciles ==
    ASSUME NEW h \in Header, NEW g \in Header
    PROVE  [h EXCEPT !.settled = g.settled] \in Header
  BY DEF Header

\* What an edit that is not refused writes to the header.
HeaderEdited(k, h) ==
    LET shown == [k.shown EXCEPT !.settled = header[k.tx].settled]
        w == [h EXCEPT !.settled = header[k.tx].settled]
    IN  /\ SetHeader(k.tx, shown, w)
        /\ clouded' = clouded \cup IF shown # header[k.tx] \/ Echoes(k.tx, w) THEN {k.tx} ELSE {}

LEMMA WriteEditHeader ==
    ASSUME TypeOK, NEW e \in DOMAIN draft, WriteEdit(e)
    PROVE  \/ UNCHANGED <<header, legs, refs, merges, own, clouded, torn>>
           \/ /\ draft[e].tx \in txns
              /\ \E h \in Header : HeaderEdited(draft[e], h)
              /\ \E value, E : Edited(draft[e].tx, value, E)
  <1> DEFINE k == draft[e]
  <1>1. k # None
    BY DEF WriteEdit
  <1>2. Revisions(k.shown) \subseteq Header
    BY <1>1, DraftIs, RevisionsType
  <1>3. \/ UNCHANGED <<header, legs, refs, merges, own, clouded, torn>>
        \/ k.tx \in txns /\ \E h \in Revisions(k.shown) : HeaderEdited(k, h)
    BY DEF WriteEdit, MayEdit, HeaderEdited
  <1> QED
    BY <1>2, <1>3, WriteEditEdits

LEMMA WriteEditTypes ==
    ASSUME TypeOK, NEW e \in DOMAIN draft, WriteEdit(e)
    PROVE  TypeOK'
  <1> DEFINE k == draft[e]
             t == draft[e].tx
  <1>1. UNCHANGED <<txns, call, edits, late>> /\ draft' = [draft EXCEPT ![e] = None] /\ k # None
    BY DEF WriteEdit
  <1>2. DraftsOK'
    BY <1>1, DraftSet DEF TypeOK, DraftsOK
  <1>3. CASE UNCHANGED <<header, legs, refs, merges, own, clouded, torn>>
    BY <1>1, <1>2, <1>3 DEF TypeOK, DraftsOK
  <1>4. CASE /\ t \in txns /\ \E h \in Header : HeaderEdited(k, h)
             /\ \E value, E : Edited(t, value, E)
    <2>1. PICK h \in Header : HeaderEdited(k, h)
      BY <1>4
    <2>2. t \in Transaction /\ k.shown \in Header /\ header[t] \in Header
      BY <1>1, DraftIs DEF TypeOK
    <2>3. /\ [k.shown EXCEPT !.settled = header[t].settled] \in Header
          /\ [h EXCEPT !.settled = header[t].settled] \in Header
      BY <2>2, Reconciles
    <2>4. own' \in [Transaction -> Header] /\ header' \in [Transaction -> Header]
      BY <2>1, <2>2, <2>3, HeaderSet DEF HeaderEdited
    <2>5. clouded' \subseteq Transaction
      BY <2>1, <2>2 DEF HeaderEdited, TypeOK
    <2>6. /\ legs' \in [Posting -> [tx : Transaction \cup {None}, value : Value]]
          /\ refs' \in [Ref -> [tx : Transaction \cup {None}, leg : Posting \cup {None}]]
          /\ merges' \in [Transaction -> Seq(Record)]
          /\ torn' \subseteq Transaction
      BY <1>4, <2>2, EditedTypes
    <2> QED
      BY <1>1, <1>2, <2>4, <2>5, <2>6 DEF TypeOK, DraftsOK
  <1> QED
    BY <1>3, <1>4, WriteEditHeader

LEMMA DeleteTypes ==
    ASSUME TransferAssumption, TypeOK, NEW t \in Transaction, edits' \in Nat, Delete(t)
    PROVE  TypeOK'
  <1>1. /\ Blank \in Header /\ NoLeg \in [tx : Transaction \cup {None}, value : Value]
        /\ NoRef \in [tx : Transaction \cup {None}, leg : Posting \cup {None}]
    BY BlankType
  <1>2. /\ txns' = txns \ {t}
        /\ refs' = [r \in Ref |-> IF refs[r].tx = t THEN NoRef ELSE refs[r]]
        /\ legs' = [p \in Posting |-> IF legs[p].tx = t THEN NoLeg ELSE legs[p]]
        /\ header' = [header EXCEPT ![t] = Blank] /\ own' = [own EXCEPT ![t] = Blank]
        /\ merges' = [merges EXCEPT ![t] = <<>>]
        /\ UNCHANGED <<call, draft, clouded, torn, late>>
    BY DEF Delete
  <1>3. <<>> \in Seq(Record)
    OBVIOUS
  <1>4. merges' \in [Transaction -> Seq(Record)]
    BY <1>2, <1>3 DEF TypeOK
  <1>5. header' \in [Transaction -> Header] /\ own' \in [Transaction -> Header]
    BY <1>1, <1>2 DEF TypeOK
  <1>6. legs' \in [Posting -> [tx : Transaction \cup {None}, value : Value]]
    BY <1>1, <1>2 DEF TypeOK
  <1>7. refs' \in [Ref -> [tx : Transaction \cup {None}, leg : Posting \cup {None}]]
    BY <1>1, <1>2 DEF TypeOK
  <1> QED
    BY <1>2, <1>4, <1>5, <1>6, <1>7 DEF TypeOK

LEMMA ImportTypes ==
    ASSUME TypeOK, NEW t \in Transaction, edits' \in Nat, Adopt(t) \/ AddSourced(t)
    PROVE  TypeOK'
  <1>1. CASE Adopt(t)
    <2>1. PICK p \in LegsOf(t), r \in NewRefs :
            refs' = [refs EXCEPT ![r] = [tx |-> t, leg |-> p]] /\ late' \in {late \cup {r}, late \ {r}}
      BY <1>1 DEF Adopt
    <2>2. p \in Posting /\ r \in Ref
      BY NewRefIs DEF LegsOf
    <2>3. UNCHANGED <<txns, header, legs, merges, call, draft, own, clouded, torn>>
      BY <1>1 DEF Adopt
    <2>4. refs' \in [Ref -> [tx : Transaction \cup {None}, leg : Posting \cup {None}]]
      BY <2>1, <2>2 DEF TypeOK
    <2> QED
      BY <2>1, <2>2, <2>3, <2>4 DEF TypeOK
  <1>2. CASE AddSourced(t)
    <2>1. PICK p \in NewLegs, r \in NewRefs, v \in Value \ {None} :
            /\ legs' = [legs EXCEPT ![p] = [tx |-> t, value |-> v]]
            /\ refs' = [refs EXCEPT ![r] = [tx |-> t, leg |-> p]]
            /\ late' = late \ {r}
      BY <1>2 DEF AddSourced
    <2>2. p \in Posting /\ r \in Ref
      BY NewLegIs, NewRefIs
    <2>3. UNCHANGED <<txns, header, merges, call, draft, own, clouded, torn>>
      BY <1>2 DEF AddSourced
    <2>4. refs' \in [Ref -> [tx : Transaction \cup {None}, leg : Posting \cup {None}]]
      BY <2>1, <2>2 DEF TypeOK
    <2>5. legs' \in [Posting -> [tx : Transaction \cup {None}, value : Value]]
      BY <2>1, <2>2 DEF TypeOK
    <2> QED
      BY <2>1, <2>3, <2>4, <2>5 DEF TypeOK
  <1> QED
    BY <1>1, <1>2

LEMMA TypeStep ==
    ASSUME TransferAssumption, TypeOK, [Next]_vars
    PROVE  TypeOK'
  <1>1. ASSUME NEW t \in Transaction, UserStep(t)
        PROVE  TypeOK'
    <2>1. edits' \in Nat
      BY <1>1 DEF UserStep, TypeOK
    <2>2. header[t] \in Header
      BY DEF TypeOK
    <2>3. CASE EditHeader(t)
      <3>1. refs' \in [Ref -> [tx : Transaction \cup {None}, leg : Posting \cup {None}]]
        BY <2>3, RelinkedIs DEF EditHeader, TypeOK
      <3> QED
        BY <2>1, <2>2, <2>3, <3>1, RevisionsType, WriteTypes DEF EditHeader
    <2>4. CASE Reconcile(t)
      <3>1. PICK n \in Settled : Write(t, [header[t] EXCEPT !.settled = n])
        BY <2>4 DEF Reconcile
      <3>2. [header[t] EXCEPT !.settled = n] \in Header
        BY <2>2 DEF Header
      <3>3. refs' \in [Ref -> [tx : Transaction \cup {None}, leg : Posting \cup {None}]]
        BY <2>4 DEF Reconcile, TypeOK
      <3> QED
        BY <2>1, <3>1, <3>2, <3>3, WriteTypes
    <2>5. CASE EditLegs(t)
      BY <2>1, <2>5, EditTypes
    <2>6. CASE Delete(t)
      BY <2>1, <2>6, DeleteTypes
    <2>7. CASE Adopt(t) \/ AddSourced(t)
      BY <2>1, <2>7, ImportTypes
    <2> QED
      BY <1>1, <2>3, <2>4, <2>5, <2>6, <2>7 DEF UserStep
  <1>2. ASSUME NEW c \in DOMAIN call, CallerStep(c)
        PROVE  TypeOK'
    BY <1>2, ReadingTypes, MergeTypes, UnmergeTypes DEF CallerStep
  <1>3. ASSUME NEW e \in DOMAIN draft, EditorStep(e)
        PROVE  TypeOK'
    <2>1. CASE edits > 0 /\ edits' = edits - 1 /\ \E t \in txns : StartEdit(e, t)
      <3>1. edits' \in Nat
        BY <2>1 DEF TypeOK
      <3> QED
        BY <2>1, <3>1, StartTypes
    <2> QED
      BY <1>3, <2>1, CurrentTypes, WriteEditTypes DEF EditorStep
  <1>4. CASE UNCHANGED vars
    BY <1>4 DEF vars, TypeOK
  <1> QED
    BY <1>1, <1>2, <1>3, <1>4 DEF Next

LEMMA InitTypes ==
    ASSUME TransferAssumption, Init
    PROVE  TypeOK
  <1>1. Shapes
    BY InitHolds DEF TransferInv
  <1>2. Blank \in Header
    BY BlankType
  <1>3. header \in [Transaction -> Header] /\ own = header
    <2>1. Drafts \subseteq Header
      BY DEF TransferAssumption, Header, Meta
    <2> QED
      BY <1>2, <2>1 DEF Init
  <1>4. PICK scope \in Scopes :
          /\ txns = scope.txns /\ edits = scope.edits
          /\ call = [c \in scope.callers |-> None] /\ draft = [e \in scope.editors |-> None]
    BY DEF Init
  <1>5. /\ scope.txns \subseteq Transaction /\ scope.callers \subseteq Caller
        /\ scope.editors \subseteq Editor /\ scope.edits \in Nat
    BY DEF TransferAssumption
  <1>6. merges \in [Transaction -> Seq(Record)]
    <2>1. merges = [t \in Transaction |-> <<>>] /\ <<>> \in Seq(Record)
      BY DEF Init
    <2> QED
      BY <2>1
  <1> QED
    BY <1>1, <1>3, <1>4, <1>5, <1>6 DEF Shapes, TypeOK, Init

\* Transactions, headers, legs, references, logs, calls and drafts keep their types.
THEOREM TransferTypes ==
    ASSUME TransferAssumption
    PROVE  Spec => []TypeOK
  <1>1. Init => TypeOK
    BY InitTypes
  <1>2. TypeOK /\ [Next]_vars => TypeOK'
    BY TypeStep
  <1> QED
    BY <1>1, <1>2, PTL DEF Spec

-----------------------------------------------------------------------------
(* The theorems.                                                           *)

LEMMA StepHolds ==
    ASSUME TransferAssumption, TypeOK, TransferInv, [Next]_vars
    PROVE  TransferInv'
  <1>1. ASSUME NEW t \in Transaction, UserStep(t)
        PROVE  TransferInv'
    <2>1. CASE EditHeader(t)
      <3>1. refs' = Relinked(t, LegsOf(t)) /\ UNCHANGED <<txns, legs, merges, call, torn, late>>
        BY <2>1 DEF EditHeader, Write
      <3> QED
        BY <3>1, RelinkedIs, HeadersKeep DEF TransferInv, Shapes
    <2>2. CASE Reconcile(t)
      BY <2>2, NothingKeeps DEF Reconcile, Write
    <2>3. CASE EditLegs(t)
      BY <2>3, EditLegsEdits, EditedKeeps DEF TypeOK
    <2>4. CASE Delete(t)
      BY <2>4, DeleteKeeps
    <2>5. CASE Adopt(t)
      BY <2>5, AdoptKeeps
    <2>6. CASE AddSourced(t)
      BY <2>6, AddSourcedKeeps
    <2> QED
      BY <1>1, <2>1, <2>2, <2>3, <2>4, <2>5, <2>6 DEF UserStep
  <1>2. ASSUME NEW c \in DOMAIN call, CallerStep(c)
        PROVE  TransferInv'
    <2>1. CASE \E s, a \in Transaction : ReadMerge(c, s, a)
      BY <2>1, ReadMergeKeeps
    <2>2. CASE Merge(c)
      BY <2>2, MergeKeeps
    <2>3. CASE \E s \in Transaction : ReadLog(c, s)
      BY <2>3, ReadLogKeeps
    <2>4. CASE Unmerge(c)
      BY <2>4, UnmergeKeeps
    <2> QED
      BY <1>2, <2>1, <2>2, <2>3, <2>4 DEF CallerStep
  <1>3. ASSUME NEW e \in DOMAIN draft, EditorStep(e)
        PROVE  TransferInv'
    <2>1. CASE \E t \in txns : StartEdit(e, t)
      BY <2>1, NothingKeeps DEF StartEdit
    <2>2. CASE ReadCurrent(e)
      BY <2>2, NothingKeeps DEF ReadCurrent
    <2>3. CASE WriteEdit(e)
      BY <2>3, WriteEditEdits, EditedKeeps, NothingKeeps
    <2> QED
      BY <1>3, <2>1, <2>2, <2>3 DEF EditorStep
  <1>4. CASE UNCHANGED vars
    BY <1>4, NothingKeeps DEF vars
  <1> QED
    BY <1>1, <1>2, <1>3, <1>4 DEF Next

\* References and legs, records and tables stay together through every merge,
\* unmerge, edit, deletion and import (transfer.rs, transaction.rs, import_exec.rs).
THEOREM TransferInvariant ==
    ASSUME TransferAssumption
    PROVE  Spec => []TransferInv
  <1>1. Init => TransferInv
    BY InitHolds
  <1>2. TypeOK /\ TransferInv /\ [Next]_vars => TransferInv'
    BY StepHolds
  <1> QED
    BY <1>1, <1>2, TransferTypes, PTL DEF Spec

\* A reference names a leg of the transaction it is on, unless it was attached
\* behind a merge's back (transfer.rs, merge and unmerge; source.rs, attach).
THEOREM ReferencesFollowLegs ==
    ASSUME TransferAssumption
    PROVE  Spec => []ReferencesFollow
  <1>1. TransferInv => ReferencesFollow
    BY DEF TransferInv, RefInv
  <1> QED
    BY <1>1, TransferInvariant, PTL

\* An open merge's record says where its leg is and that the absorbed transaction
\* is gone (transfer.rs, unmerge: the row it inserts, the leg it moves).
THEOREM LogsTellTruth ==
    ASSUME TransferAssumption
    PROVE  Spec => []MergesStand
  <1>1. ASSUME TransferInv
        PROVE  MergesStand
    <2> SUFFICES ASSUME NEW s \in txns \ torn, NEW m \in ToSet(merges[s])
                 PROVE  /\ m.absorbed \notin torn => m.absorbed \notin txns
                        /\ m.edited \/ legs[m.leg].tx = s
      BY DEF MergesStand
    <2>1. PICK i \in DOMAIN merges[s] : m = merges[s][i]
      BY DEF ToSet
    <2>2. s \in Transaction
      BY <1>1 DEF TransferInv, Shapes
    <2>3. m.absorbed \notin torn => m.absorbed \notin txns
      BY <1>1, <2>1, <2>2 DEF TransferInv, LogInv, NamedOnce
    <2>4. CASE ~m.edited
      <3>1. legs[m.leg] = [tx |-> s, value |-> m.value]
        BY <1>1, <2>1, <2>4, RecordLeg
      <3> QED
        BY <2>3, <3>1
    <2> QED
      BY <2>3, <2>4
  <1> QED
    BY <1>1, TransferInvariant, PTL

\* What can lengthen or shorten a log.
LEMMA LogLengths ==
    ASSUME TransferAssumption, TypeOK, TransferInv, [Next]_vars, NEW s \in Transaction
    PROVE  /\ Len(merges[s]) \in Nat /\ Len(merges'[s]) \in Nat
           /\ \/ Len(merges'[s]) = Len(merges[s])
              \/ \E k, p, q, m : Fused(k, p, q, m) /\ k.survivor = s /\ k.absorbed \in Transaction
                                 /\ s # k.absorbed /\ k.leg \in Posting
              \/ \E m : TakenApart(s, m)
              \/ s \notin txns' /\ Len(merges'[s]) = 0
  <1>1. Len(merges[s]) \in Nat /\ Len(merges'[s]) \in Nat
    <2>1. TransferInv'
      BY StepHolds
    <2>2. IsLog(merges[s]) /\ IsLog(merges'[s])
      BY <2>1 DEF TransferInv, Shapes
    <2> QED
      BY <2>2, LogDomain
  <1>2. ASSUME NEW t \in Transaction, UserStep(t)
        PROVE  \/ Len(merges'[s]) = Len(merges[s])
               \/ s \notin txns' /\ Len(merges'[s]) = 0
    <2>1. CASE EditHeader(t) \/ Reconcile(t) \/ Adopt(t) \/ AddSourced(t)
      BY <2>1 DEF EditHeader, Reconcile, Write, Adopt, AddSourced
    <2>2. CASE EditLegs(t)
      <3>1. PICK value, E : Edited(t, value, E)
        BY <2>2, EditLegsEdits DEF TypeOK
      <3>2. merges' = Logged(t, E)
        BY <3>1 DEF Edited
      <3> QED
        BY <3>2, LoggedIs
    <2>3. CASE Delete(t)
      <3>1. /\ merges'[t] = <<>> /\ t \notin txns'
            /\ \A u \in Transaction : u # t => merges'[u] = merges[u]
        BY <2>3 DEF Delete, TransferInv, Shapes
      <3>2. CASE s = t
        BY <3>1, <3>2
      <3>3. CASE s # t
        BY <3>1, <3>3
      <3> QED
        BY <3>2, <3>3
    <2> QED
      BY <1>2, <2>1, <2>2, <2>3 DEF UserStep
  <1>3. ASSUME NEW c \in DOMAIN call, CallerStep(c)
        PROVE  \/ merges'[s] = merges[s]
               \/ \E k, p, q, m : Fused(k, p, q, m) /\ k.survivor = s /\ k.absorbed \in Transaction
                                  /\ s # k.absorbed /\ k.leg \in Posting
               \/ \E m : TakenApart(s, m)
    <2>1. CASE \E u, a \in Transaction : ReadMerge(c, u, a)
      BY <2>1 DEF ReadMerge
    <2>2. CASE \E u \in Transaction : ReadLog(c, u)
      BY <2>2 DEF ReadLog
    <2>3. CASE Merge(c)
      <3> DEFINE k == call[c]
      <3>1. /\ k.survivor \in Transaction /\ k.absorbed \in Transaction
            /\ k.survivor # k.absorbed /\ k.leg \in Posting
            /\ \/ UNCHANGED <<txns, legs, refs, merges, torn>>
               \/ \E p, q, m : Fused(k, p, q, m)
        BY <2>3, MergeFuses
      <3> HIDE DEF k
      <3>2. CASE \E p, q, m : Fused(k, p, q, m)
        <4>1. PICK p, q, m : Fused(k, p, q, m)
          BY <3>2
        <4>2. k.survivor # s => merges'[s] = merges[s]
          BY <3>1, <4>1, FusedIs DEF LogGrown
        <4> QED
          BY <3>1, <4>1, <4>2
      <3> QED
        BY <3>1, <3>2
    <2>4. CASE Unmerge(c)
      <3>1. CASE \E u, m : TakenApart(u, m)
        <4>1. PICK u, m : TakenApart(u, m)
          BY <3>1
        <4>2. u # s => merges'[s] = merges[s]
          BY <4>1, ApartIs DEF Popped
        <4> QED
          BY <4>1, <4>2
      <3> QED
        BY <2>4, <3>1, UnmergeTakesApart
    <2> QED
      BY <1>3, <2>1, <2>2, <2>3, <2>4 DEF CallerStep
  <1>4. ASSUME NEW e \in DOMAIN draft, EditorStep(e)
        PROVE  Len(merges'[s]) = Len(merges[s])
    <2>1. CASE UNCHANGED merges
      BY <2>1
    <2>2. CASE \E t \in Transaction : \E value, E : Edited(t, value, E)
      <3>1. PICK t \in Transaction : \E E : merges' = Logged(t, E)
        BY <2>2 DEF Edited
      <3>2. PICK E : merges' = Logged(t, E)
        BY <3>1
      <3> QED
        BY <3>2, LoggedIs
    <2>3. CASE WriteEdit(e)
      BY <2>1, <2>2, <2>3, WriteEditEdits
    <2> QED
      BY <1>4, <2>1, <2>3 DEF EditorStep, StartEdit, ReadCurrent
  <1>5. CASE UNCHANGED vars
    BY <1>1, <1>5 DEF vars
  <1> QED
    BY <1>1, <1>2, <1>3, <1>4, <1>5 DEF Next

LEMMA FusingFuses ==
    ASSUME TransferAssumption, TransferInv, NEW k, k.survivor \in Transaction,
           k.absorbed \in Transaction, k.survivor # k.absorbed, k.leg \in Posting,
           NEW p, NEW q, NEW m, Fused(k, p, q, m)
    PROVE  /\ p \in Posting /\ q \in Posting /\ p # q /\ legs[p].tx = k.survivor
           /\ legs[q].tx = Last(merges'[k.survivor]).absorbed
           /\ LegsOf(k.survivor)' = {p, q}
  <1> DEFINE s == k.survivor
             n == Len(merges[s]) + 1
  <1>1. LegMoved(s, k.absorbed, q) /\ LogGrown(s, m)
    BY FusedIs
  <1>2. /\ p \in Posting /\ q \in Posting /\ p # q
        /\ LegsOf(s) = {p} /\ LegsOf(k.absorbed) = {q} /\ m.absorbed = k.absorbed
    BY DEF Fused
  <1>3. legs[p].tx = s /\ legs[q].tx = k.absorbed
    BY <1>2 DEF LegsOf
  <1>4. Last(merges'[s]) = m
    BY <1>1 DEF LogGrown, Last
  <1>5. LegsOf(s)' = {p, q}
    <2>1. \A x \in Posting : legs'[x].tx = s <=> x \in {p, q}
      <3>1. legs'[q].tx = s /\ \A x \in Posting : x # q => legs'[x] = legs[x]
        BY <1>1 DEF LegMoved
      <3>2. \A x \in Posting : legs[x].tx = s <=> x = p
        BY <1>2 DEF LegsOf
      <3> QED
        BY <3>1, <3>2
    <2> QED
      BY <1>2, <2>1 DEF LegsOf
  <1> QED
    BY <1>2, <1>3, <1>4, <1>5

\* A merge leaves its survivor with two legs, however many merges into it or out
\* of it are under way (transfer.rs, merge: the recount inside its transaction).
THEOREM MergesFuse ==
    ASSUME TransferAssumption
    PROVE  Spec => MergesFuseTwo
  <1>1. ASSUME TypeOK, TransferInv, [Next]_vars, NEW s \in Transaction, Len(merges'[s]) > Len(merges[s])
        PROVE  \E p, q \in Posting :
                  /\ p # q /\ legs[p].tx = s /\ legs[q].tx = Last(merges'[s]).absorbed
                  /\ LegsOf(s)' = {p, q}
    <2>1. CASE \E k, p, q, m : Fused(k, p, q, m) /\ k.survivor = s /\ k.absorbed \in Transaction
                               /\ s # k.absorbed /\ k.leg \in Posting
      <3>1. PICK k, p, q, m : Fused(k, p, q, m) /\ k.survivor = s /\ k.absorbed \in Transaction
                              /\ s # k.absorbed /\ k.leg \in Posting
        BY <2>1
      <3>2. /\ p \in Posting /\ q \in Posting /\ p # q /\ legs[p].tx = k.survivor
            /\ legs[q].tx = Last(merges'[k.survivor]).absorbed
            /\ LegsOf(k.survivor)' = {p, q}
        BY <1>1, <3>1, FusingFuses
      <3>3. legs[p].tx = s /\ legs[q].tx = Last(merges'[s]).absorbed /\ LegsOf(s)' = {p, q}
        BY <3>1, <3>2 DEF LegsOf
      <3> QED
        BY <3>2, <3>3
    <2>2. CASE \E m : TakenApart(s, m)
      <3>1. Len(merges'[s]) <= Len(merges[s])
        BY <1>1, <2>2, ApartIs DEF Popped
      <3> QED
        BY <1>1, <3>1, LogLengths
    <2> QED
      BY <1>1, <2>1, <2>2, LogLengths
  <1>2. TypeOK /\ TransferInv /\ [Next]_vars =>
          [\A s \in Transaction : Len(merges'[s]) > Len(merges[s]) =>
              \E p, q \in Posting :
                  /\ p # q /\ legs[p].tx = s /\ legs[q].tx = Last(merges'[s]).absorbed
                  /\ LegsOf(s)' = {p, q}]_vars
    BY <1>1
  <1> QED
    BY <1>2, TransferTypes, TransferInvariant, PTL DEF Spec, MergesFuseTwo

\* An unmerge that no edit overtook brings a leg back as it was merged
\* (transfer.rs, unmerge: posting_edit_since, and the leg it moves).
THEOREM LegsComeBack ==
    ASSUME TransferAssumption
    PROVE  Spec => LegsReturnAsMerged
  <1>1. ASSUME TypeOK, TransferInv, [Next]_vars, NEW s \in Transaction \ torn',
               Len(merges'[s]) < Len(merges[s]), s \in txns'
        PROVE  legs'[Last(merges[s]).leg]
                 = [tx |-> Last(merges[s]).absorbed, value |-> Last(merges[s]).value]
    <2>1. PICK m : TakenApart(s, m)
      <3>1. ASSUME NEW k, NEW p, NEW q, NEW m, Fused(k, p, q, m), k.survivor = s,
                   k.absorbed \in Transaction, s # k.absorbed, k.leg \in Posting
            PROVE  FALSE
        <4>1. LogGrown(s, m)
          BY <1>1, <3>1, FusedIs
        <4> QED
          BY <1>1, <4>1, LogLengths DEF LogGrown
      <3> QED
        BY <1>1, <3>1, LogLengths
    <2>2. ~Outdated(s, m) /\ s \notin torn
      BY <2>1 DEF TakenApart
    <2>3. legs[m.leg] = [tx |-> s, value |-> m.value] /\ m = Last(merges[s])
      BY <1>1, <2>1, <2>2, NewestIs DEF Outdated
    <2>4. legs'[m.leg] = [tx |-> m.absorbed, value |-> legs[m.leg].value]
      BY <1>1, <2>1, ApartIs DEF LegBack
    <2> QED
      BY <2>3, <2>4
  <1>2. TypeOK /\ TransferInv /\ [Next]_vars =>
          [\A s \in Transaction \ torn' : Len(merges'[s]) < Len(merges[s]) /\ s \in txns' =>
              LET m == Last(merges[s]) IN
              legs'[m.leg] = [tx |-> m.absorbed, value |-> m.value]]_vars
    BY <1>1
  <1> QED
    BY <1>2, TransferTypes, TransferInvariant, PTL DEF Spec, LegsReturnAsMerged

-----------------------------------------------------------------------------
(* Headers.                                                                *)

\* Undoing the open merges q of a header h one by one gives o.  A date or state goes
\* back while it is what the merge wrote ...
DatesStand(o, h, q) ==
    \E D \in [0 .. Len(q) -> 1 .. MaxDate] :
        /\ D[0] = o.date /\ D[Len(q)] = h.date
        /\ \A i \in 1 .. Len(q) :
             D[i - 1] = IF D[i] = MergedDate(q[i].before, q[i].was) THEN q[i].before.date ELSE D[i]

StatesStand(o, h, q) ==
    \E D \in [0 .. Len(q) -> Settled] :
        /\ D[0] = o.settled /\ D[Len(q)] = h.settled
        /\ \A i \in 1 .. Len(q) :
             D[i - 1] = IF D[i] = MergedSettled(q[i].before, q[i].was) THEN q[i].before.settled
                        ELSE D[i]

\* ... the tags that only merges brought go ...
TagsStand(o, h, q) ==
    o.tags = h.tags \ UNION {q[i].was.tags \ q[i].before.tags : i \in DOMAIN q}

\* ... and the newest merge that brought an entry takes it back.  Were there two, the
\* user had removed all the first one brought, and his own before that.
Bringing(q, e) == {i \in DOMAIN q : Brought(q[i], e) > 0}
EntryStands(o, h, q, e) ==
    /\ Bringing(q, e) = {} => o.meta[e] = h.meta[e]
    /\ \A i \in Bringing(q, e) :
         /\ (\A j \in Bringing(q, e) : j <= i) => o.meta[e] = Less(h.meta[e], Brought(q[i], e))
         /\ \A j \in Bringing(q, e) : i # j => o.meta[e] = 0
MetaStands(o, h, q) == \A e \in Entry : EntryStands(o, h, q, e)

Stands(o, h, q) ==
    DatesStand(o, h, q) /\ StatesStand(o, h, q) /\ TagsStand(o, h, q) /\ MetaStands(o, h, q)

IsHistory(q) == IsLog(q) /\ \A i \in DOMAIN q : q[i].before \in Header /\ q[i].was \in Header

\* One more merge, one merge less.
Longer(q, r, m) ==
    /\ Len(r) = Len(q) + 1 /\ DOMAIN r = DOMAIN q \cup {Len(q) + 1}
    /\ r[Len(q) + 1] = m /\ \A i \in DOMAIN q : r[i] = q[i]

LEMMA LongerDomain ==
    ASSUME NEW q, NEW r, NEW m, IsLog(q), Longer(q, r, m)
    PROVE  /\ Len(q) \in Nat /\ DOMAIN q = 1 .. Len(q) /\ DOMAIN r = 1 .. Len(q) + 1
           /\ Len(q) + 1 \notin DOMAIN q
  BY LogDomain DEF Longer

LEMMA NoMergeStands ==
    ASSUME NEW o \in Header, NEW h \in Header, o = h
    PROVE  Stands(o, h, <<>>)
  <1>1. Len(<<>>) = 0 /\ DOMAIN <<>> = {}
    OBVIOUS
  <1>2. DatesStand(o, h, <<>>)
    <2> DEFINE D == [i \in 0 .. 0 |-> o.date]
    <2>1. D \in [0 .. Len(<<>>) -> 1 .. MaxDate]
      BY <1>1 DEF Header
    <2>2. D[0] = o.date /\ D[Len(<<>>)] = h.date /\ 1 .. Len(<<>>) = {}
      BY <1>1
    <2> HIDE DEF D
    <2> QED
      BY <2>1, <2>2 DEF DatesStand
  <1>3. StatesStand(o, h, <<>>)
    <2> DEFINE D == [i \in 0 .. 0 |-> o.settled]
    <2>1. D \in [0 .. Len(<<>>) -> Settled]
      BY <1>1 DEF Header
    <2>2. D[0] = o.settled /\ D[Len(<<>>)] = h.settled /\ 1 .. Len(<<>>) = {}
      BY <1>1
    <2> HIDE DEF D
    <2> QED
      BY <2>1, <2>2 DEF StatesStand
  <1>4. TagsStand(o, h, <<>>)
    BY <1>1 DEF TagsStand
  <1>5. MetaStands(o, h, <<>>)
    BY <1>1 DEF MetaStands, EntryStands, Bringing
  <1> QED
    BY <1>2, <1>3, <1>4, <1>5 DEF Stands

LEMMA StandsAlone ==
    ASSUME NEW o \in Header, NEW h \in Header, Stands(o, h, <<>>)
    PROVE  h = o
  <1>1. Len(<<>>) = 0 /\ DOMAIN <<>> = {}
    OBVIOUS
  <1>2. o.date = h.date /\ o.settled = h.settled
    BY <1>1 DEF Stands, DatesStand, StatesStand
  <1>3. o.tags = h.tags
    BY <1>1 DEF Stands, TagsStand
  <1>4. o.meta = h.meta
    <2>1. \A e \in Entry : o.meta[e] = h.meta[e]
      BY <1>1 DEF Stands, MetaStands, EntryStands, Bringing
    <2> QED
      BY <2>1 DEF Header, Meta
  <1> QED
    BY <1>2, <1>3, <1>4 DEF Header

\* What stands is read off the headers a log's records hold.
LEMMA StandsSame ==
    ASSUME NEW o, NEW h, NEW q, NEW r, IsLog(q), Len(r) = Len(q), DOMAIN r = DOMAIN q,
           \A i \in DOMAIN q : r[i].before = q[i].before /\ r[i].was = q[i].was, Stands(o, h, q)
    PROVE  Stands(o, h, r)
  <1>1. DOMAIN q = 1 .. Len(q) /\ Len(q) \in Nat
    BY LogDomain
  <1>2. DatesStand(o, h, r)
    <2>1. PICK D \in [0 .. Len(q) -> 1 .. MaxDate] :
            /\ D[0] = o.date /\ D[Len(q)] = h.date
            /\ \A i \in 1 .. Len(q) :
                 D[i - 1] = IF D[i] = MergedDate(q[i].before, q[i].was) THEN q[i].before.date ELSE D[i]
      BY DEF Stands, DatesStand
    <2>2. \A i \in 1 .. Len(r) :
            D[i - 1] = IF D[i] = MergedDate(r[i].before, r[i].was) THEN r[i].before.date ELSE D[i]
      BY <1>1, <2>1
    <2> QED
      BY <2>1, <2>2 DEF DatesStand
  <1>3. StatesStand(o, h, r)
    <2>1. PICK D \in [0 .. Len(q) -> Settled] :
            /\ D[0] = o.settled /\ D[Len(q)] = h.settled
            /\ \A i \in 1 .. Len(q) :
                 D[i - 1] = IF D[i] = MergedSettled(q[i].before, q[i].was) THEN q[i].before.settled ELSE D[i]
      BY DEF Stands, StatesStand
    <2>2. \A i \in 1 .. Len(r) :
            D[i - 1] = IF D[i] = MergedSettled(r[i].before, r[i].was) THEN r[i].before.settled ELSE D[i]
      BY <1>1, <2>1
    <2> QED
      BY <2>1, <2>2 DEF StatesStand
  <1>4. TagsStand(o, h, r)
    BY DEF Stands, TagsStand
  <1>5. MetaStands(o, h, r)
    <2>1. \A e \in Entry, i \in DOMAIN q : Brought(r[i], e) = Brought(q[i], e)
      BY DEF Brought
    <2>2. \A e \in Entry : Bringing(r, e) = Bringing(q, e)
      BY <2>1 DEF Bringing
    <2>3. \A e \in Entry : Bringing(q, e) \subseteq DOMAIN q
      BY DEF Bringing
    <2> QED
      BY <2>1, <2>2, <2>3 DEF Stands, MetaStands, EntryStands
  <1> QED
    BY <1>2, <1>3, <1>4, <1>5 DEF Stands

\* A merge.
LEMMA MergeStands ==
    ASSUME TransferAssumption, NEW o \in Header, NEW h \in Header, NEW w \in Header,
           NEW q, IsHistory(q), NEW r, NEW m, m.before = h, m.was = w, Longer(q, r, m),
           NEW j, j.date = MergedDate(h, w), j.tags = h.tags \cup w.tags,
           j.meta = JoinMeta(h.meta, w.meta), j.settled = MergedSettled(h, w), Stands(o, h, q)
    PROVE  Stands(o, j, r)
  <1> DEFINE n == Len(q)
  <1>1. n \in Nat /\ DOMAIN q = 1 .. n /\ DOMAIN r = 1 .. n + 1 /\ n + 1 \notin DOMAIN q
    BY LongerDomain DEF IsHistory
  <1>2. Len(r) = n + 1 /\ r[n + 1] = m /\ \A i \in 1 .. n : r[i] = q[i]
    BY <1>1 DEF Longer
  <1> HIDE DEF n
  <1>3. DatesStand(o, j, r)
    <2>1. PICK D \in [0 .. n -> 1 .. MaxDate] :
            /\ D[0] = o.date /\ D[n] = h.date
            /\ \A i \in 1 .. n :
                 D[i - 1] = IF D[i] = MergedDate(q[i].before, q[i].was) THEN q[i].before.date ELSE D[i]
      BY DEF Stands, DatesStand, n
    <2> DEFINE E == [i \in 0 .. n + 1 |-> IF i = n + 1 THEN j.date ELSE D[i]]
    <2>2. j.date \in 1 .. MaxDate
      BY MergedTypes
    <2>3. E \in [0 .. n + 1 -> 1 .. MaxDate] /\ E[0] = o.date /\ E[n + 1] = j.date
          /\ \A i \in 0 .. n : E[i] = D[i]
      BY <1>1, <2>1, <2>2
    <2> HIDE DEF E
    <2>4. ASSUME NEW i \in 1 .. n + 1
          PROVE  E[i - 1] = IF E[i] = MergedDate(r[i].before, r[i].was) THEN r[i].before.date ELSE E[i]
      <3>1. CASE i = n + 1
        BY <1>1, <1>2, <2>1, <2>3, <3>1
      <3>2. CASE i # n + 1
        <4>1. i \in 1 .. n /\ i - 1 \in 0 .. n /\ i \in 0 .. n
          BY <1>1, <3>2
        <4> QED
          BY <1>2, <2>1, <2>3, <4>1
      <3> QED
        BY <3>1, <3>2
    <2>5. /\ E \in [0 .. Len(r) -> 1 .. MaxDate] /\ E[0] = o.date /\ E[Len(r)] = j.date
          /\ \A i \in 1 .. Len(r) :
               E[i - 1] = IF E[i] = MergedDate(r[i].before, r[i].was) THEN r[i].before.date ELSE E[i]
      BY <1>2, <2>3, <2>4
    <2> QED
      BY <2>5 DEF DatesStand
  <1>4. StatesStand(o, j, r)
    <2>1. PICK D \in [0 .. n -> Settled] :
            /\ D[0] = o.settled /\ D[n] = h.settled
            /\ \A i \in 1 .. n :
                 D[i - 1] = IF D[i] = MergedSettled(q[i].before, q[i].was) THEN q[i].before.settled
                            ELSE D[i]
      BY DEF Stands, StatesStand, n
    <2> DEFINE E == [i \in 0 .. n + 1 |-> IF i = n + 1 THEN j.settled ELSE D[i]]
    <2>2. j.settled \in Settled
      BY MergedTypes
    <2>3. E \in [0 .. n + 1 -> Settled] /\ E[0] = o.settled /\ E[n + 1] = j.settled
          /\ \A i \in 0 .. n : E[i] = D[i]
      BY <1>1, <2>1, <2>2
    <2> HIDE DEF E
    <2>4. ASSUME NEW i \in 1 .. n + 1
          PROVE  E[i - 1] = IF E[i] = MergedSettled(r[i].before, r[i].was) THEN r[i].before.settled
                            ELSE E[i]
      <3>1. CASE i = n + 1
        BY <1>1, <1>2, <2>1, <2>3, <3>1
      <3>2. CASE i # n + 1
        <4>1. i \in 1 .. n /\ i - 1 \in 0 .. n /\ i \in 0 .. n
          BY <1>1, <3>2
        <4> QED
          BY <1>2, <2>1, <2>3, <4>1
      <3> QED
        BY <3>1, <3>2
    <2>5. /\ E \in [0 .. Len(r) -> Settled] /\ E[0] = o.settled /\ E[Len(r)] = j.settled
          /\ \A i \in 1 .. Len(r) :
               E[i - 1] = IF E[i] = MergedSettled(r[i].before, r[i].was) THEN r[i].before.settled
                          ELSE E[i]
      BY <1>2, <2>3, <2>4
    <2> QED
      BY <2>5 DEF StatesStand
  <1>5. TagsStand(o, j, r)
    <2> DEFINE U(s, x) == \E i \in DOMAIN s : x \in s[i].was.tags \ s[i].before.tags
    <2>1. \A x : x \in o.tags <=> x \in h.tags /\ ~U(q, x)
      BY DEF Stands, TagsStand
    <2>2. \A x : U(r, x) <=> U(q, x) \/ x \in w.tags \ h.tags
      BY <1>1, <1>2
    <2>3. \A x : x \in o.tags <=> x \in j.tags /\ ~U(r, x)
      BY <2>1, <2>2
    <2> QED
      BY <2>3 DEF TagsStand
  <1>6. MetaStands(o, j, r)
    <2> SUFFICES ASSUME NEW e \in Entry
                 PROVE  EntryStands(o, j, r, e)
      BY DEF MetaStands
    <2> DEFINE B == Bringing(q, e)
               C == Bringing(r, e)
               b == Brought(m, e)
    <2>1. h.meta[e] \in Nat /\ w.meta[e] \in Nat /\ o.meta[e] \in Nat
      BY DEF Header, Meta
    <2>2. b = (IF h.meta[e] > 0 THEN 0 ELSE w.meta[e]) /\ j.meta[e] = h.meta[e] + b
      BY DEF Brought, Appended, JoinMeta
    <2>3. C = B \cup (IF b > 0 THEN {n + 1} ELSE {}) /\ B \subseteq 1 .. n
          /\ \A i \in B : Brought(r[i], e) = Brought(q[i], e)
      BY <1>1, <1>2 DEF Bringing
    <2>4. EntryStands(o, h, q, e)
      BY DEF Stands, MetaStands
    <2>5. \A i \in B : Brought(q[i], e) \in Nat
      BY DEF IsHistory, Bringing, Brought, Appended, Header, Meta
    <2>6. CASE b = 0
      <3>1. C = B /\ j.meta[e] = h.meta[e]
        BY <2>1, <2>2, <2>3, <2>6
      <3> HIDE DEF B, C, b
      <3> QED
        BY <2>3, <2>4, <3>1 DEF EntryStands, B, C
    <2>7. CASE b > 0
      <3>1. h.meta[e] = 0 /\ C = B \cup {n + 1} /\ j.meta[e] = b /\ Brought(r[n + 1], e) = b
        BY <1>2, <2>1, <2>2, <2>3, <2>7
      <3>2. o.meta[e] = 0
        <4>1. CASE B = {}
          BY <2>4, <3>1, <4>1 DEF EntryStands
        <4>2. CASE B # {}
          <5>1. PICK i \in B : TRUE
            BY <4>2
          <5>2. CASE \A k \in B : k <= i
            BY <2>4, <2>5, <3>1, <5>2 DEF EntryStands, Less
          <5>3. CASE \E k \in B : ~(k <= i)
            <6>1. PICK k \in B : ~(k <= i)
              BY <5>3
            <6>2. k # i
              BY <2>3, <6>1
            <6> QED
              BY <2>4, <6>2 DEF EntryStands
          <5> QED
            BY <5>2, <5>3
        <4> QED
          BY <4>1, <4>2
      <3>3. ASSUME NEW i \in C, \A k \in C : k <= i
            PROVE  o.meta[e] = Less(j.meta[e], Brought(r[i], e))
        <4>1. i = n + 1
          BY <1>1, <2>3, <3>1, <3>3
        <4>2. Less(b, b) = 0
          BY <2>1, <2>2 DEF Less
        <4> QED
          BY <3>1, <3>2, <4>1, <4>2
      <3> QED
        BY <3>1, <3>2, <3>3 DEF EntryStands
    <2> QED
      BY <2>1, <2>2, <2>6, <2>7
  <1> QED
    BY <1>3, <1>4, <1>5, <1>6 DEF Stands

\* An unmerge of the newest.
LEMMA UnmergeStands ==
    ASSUME TransferAssumption, NEW o \in Header, NEW h \in Header,
           NEW q, IsLog(q), NEW r, IsHistory(r), NEW m, m.before \in Header, m.was \in Header,
           Longer(q, r, m), Stands(o, h, r)
    PROVE  Stands(o, Parted(h, h.meta, m), q)
  <1> DEFINE n == Len(q)
             j == Parted(h, h.meta, m)
  <1>1. n \in Nat /\ DOMAIN q = 1 .. n /\ DOMAIN r = 1 .. n + 1 /\ n + 1 \notin DOMAIN q
    BY LongerDomain
  <1>2. Len(r) = n + 1 /\ r[n + 1] = m /\ \A i \in 1 .. n : r[i] = q[i]
    BY <1>1 DEF Longer
  <1>3. /\ j.date = (IF h.date = MergedDate(m.before, m.was) THEN m.before.date ELSE h.date)
        /\ j.settled = (IF h.settled = MergedSettled(m.before, m.was) THEN m.before.settled ELSE h.settled)
        /\ j.tags = h.tags \ (m.was.tags \ m.before.tags)
        /\ j.meta = Subtract(h.meta, m.before.meta, m.was.meta)
    BY DEF Parted
  <1> HIDE DEF n, j
  <1>4. DatesStand(o, j, q)
    <2>1. PICK D \in [0 .. n + 1 -> 1 .. MaxDate] :
            /\ D[0] = o.date /\ D[n + 1] = h.date
            /\ \A i \in 1 .. n + 1 :
                 D[i - 1] = IF D[i] = MergedDate(r[i].before, r[i].was) THEN r[i].before.date ELSE D[i]
      BY <1>2 DEF Stands, DatesStand
    <2> DEFINE E == [i \in 0 .. n |-> D[i]]
    <2>2. E \in [0 .. n -> 1 .. MaxDate] /\ \A i \in 0 .. n : E[i] = D[i]
      BY <1>1, <2>1
    <2> HIDE DEF E
    <2>3. n + 1 \in 1 .. n + 1 /\ n + 1 - 1 = n /\ n \in 0 .. n /\ 0 \in 0 .. n
      BY <1>1
    <2>4. E[n] = j.date /\ E[0] = o.date
      BY <1>2, <1>3, <2>1, <2>2, <2>3
    <2>5. ASSUME NEW i \in 1 .. n
          PROVE  E[i - 1] = IF E[i] = MergedDate(q[i].before, q[i].was) THEN q[i].before.date ELSE E[i]
      <3>1. i \in 1 .. n + 1 /\ i - 1 \in 0 .. n /\ i \in 0 .. n
        BY <1>1
      <3> QED
        BY <1>2, <2>1, <2>2, <3>1
    <2> QED
      BY <2>2, <2>4, <2>5 DEF DatesStand, n
  <1>5. StatesStand(o, j, q)
    <2>1. PICK D \in [0 .. n + 1 -> Settled] :
            /\ D[0] = o.settled /\ D[n + 1] = h.settled
            /\ \A i \in 1 .. n + 1 :
                 D[i - 1] = IF D[i] = MergedSettled(r[i].before, r[i].was) THEN r[i].before.settled
                            ELSE D[i]
      BY <1>2 DEF Stands, StatesStand
    <2> DEFINE E == [i \in 0 .. n |-> D[i]]
    <2>2. E \in [0 .. n -> Settled] /\ \A i \in 0 .. n : E[i] = D[i]
      BY <1>1, <2>1
    <2> HIDE DEF E
    <2>3. n + 1 \in 1 .. n + 1 /\ n + 1 - 1 = n /\ n \in 0 .. n /\ 0 \in 0 .. n
      BY <1>1
    <2>4. E[n] = j.settled /\ E[0] = o.settled
      BY <1>2, <1>3, <2>1, <2>2, <2>3
    <2>5. ASSUME NEW i \in 1 .. n
          PROVE  E[i - 1] = IF E[i] = MergedSettled(q[i].before, q[i].was) THEN q[i].before.settled
                            ELSE E[i]
      <3>1. i \in 1 .. n + 1 /\ i - 1 \in 0 .. n /\ i \in 0 .. n
        BY <1>1
      <3> QED
        BY <1>2, <2>1, <2>2, <3>1
    <2> QED
      BY <2>2, <2>4, <2>5 DEF StatesStand, n
  <1>6. TagsStand(o, j, q)
    <2> DEFINE U(s, x) == \E i \in DOMAIN s : x \in s[i].was.tags \ s[i].before.tags
    <2>1. \A x : x \in o.tags <=> x \in h.tags /\ ~U(r, x)
      BY DEF Stands, TagsStand
    <2>2. \A x : U(r, x) <=> U(q, x) \/ x \in m.was.tags \ m.before.tags
      BY <1>1, <1>2
    <2>3. \A x : x \in o.tags <=> x \in j.tags /\ ~U(q, x)
      BY <1>3, <2>1, <2>2
    <2> QED
      BY <2>3 DEF TagsStand
  <1>7. MetaStands(o, j, q)
    <2> SUFFICES ASSUME NEW e \in Entry
                 PROVE  EntryStands(o, j, q, e)
      BY DEF MetaStands
    <2> DEFINE B == Bringing(q, e)
               C == Bringing(r, e)
               b == Brought(m, e)
    <2>1. h.meta[e] \in Nat /\ o.meta[e] \in Nat /\ b \in Nat
      BY DEF Header, Meta, Brought, Appended
    <2>2. j.meta[e] = Less(h.meta[e], b)
      BY <1>3 DEF Brought, Subtract
    <2>3. C = B \cup (IF b > 0 THEN {n + 1} ELSE {}) /\ B \subseteq 1 .. n
          /\ \A i \in B : Brought(r[i], e) = Brought(q[i], e)
      BY <1>1, <1>2 DEF Bringing
    <2>4. EntryStands(o, h, r, e)
      BY DEF Stands, MetaStands
    <2>5. \A i \in B : Brought(q[i], e) \in Nat
      BY <1>1, <1>2 DEF IsHistory, Bringing, Brought, Appended, Header, Meta
    <2> HIDE DEF j
    <2>6. CASE b = 0
      <3>1. C = B /\ j.meta[e] = h.meta[e]
        BY <2>1, <2>2, <2>3, <2>6 DEF Less
      <3> HIDE DEF B, C, b
      <3> QED
        BY <2>3, <2>4, <3>1 DEF EntryStands, B, C
    <2>7. CASE b > 0
      <3>1. C = B \cup {n + 1} /\ Brought(r[n + 1], e) = b
        BY <1>2, <2>3, <2>7
      <3>2. \A k \in C : k <= n + 1
        BY <1>1, <2>3, <3>1
      <3>3. o.meta[e] = j.meta[e]
        BY <2>2, <2>4, <3>1, <3>2 DEF EntryStands
      <3>4. B # {} => o.meta[e] = 0
        <4>1. \A k \in B : k # n + 1
          BY <1>1, <2>3
        <4> QED
          BY <2>4, <3>1, <4>1 DEF EntryStands
      <3>5. \A k \in Nat : Less(0, k) = 0
        BY DEF Less
      <3> QED
        BY <2>5, <3>3, <3>4, <3>5 DEF EntryStands
    <2> QED
      BY <2>1, <2>6, <2>7
  <1> QED
    BY <1>4, <1>5, <1>6, <1>7 DEF Stands, j

\* The user's change of a date or state the open merges have not written is theirs.
LEMMA DateWritten ==
    ASSUME NEW o \in Header, NEW now \in Header, NEW h \in Header, NEW r, NEW q, IsHistory(q),
           DatesStand(o, now, q), r.date = (IF h.date # now.date THEN h.date ELSE o.date),
           h.date # now.date => \A i \in DOMAIN q : h.date # MergedDate(q[i].before, q[i].was)
    PROVE  DatesStand(r, h, q)
  <1>1. DOMAIN q = 1 .. Len(q) /\ Len(q) \in Nat
    BY LogDomain DEF IsHistory
  <1>2. CASE h.date = now.date
    BY <1>2 DEF DatesStand
  <1>3. CASE h.date # now.date
    <2> DEFINE D == [i \in 0 .. Len(q) |-> h.date]
    <2>1. D \in [0 .. Len(q) -> 1 .. MaxDate] /\ \A i \in 0 .. Len(q) : D[i] = h.date
      BY DEF Header
    <2>2. 0 \in 0 .. Len(q) /\ Len(q) \in 0 .. Len(q)
          /\ \A i \in 1 .. Len(q) : i \in 0 .. Len(q) /\ i - 1 \in 0 .. Len(q)
      BY <1>1
    <2> HIDE DEF D
    <2>3. D[0] = r.date /\ D[Len(q)] = h.date
      BY <1>3, <2>1, <2>2
    <2>4. \A i \in 1 .. Len(q) :
            D[i - 1] = IF D[i] = MergedDate(q[i].before, q[i].was) THEN q[i].before.date ELSE D[i]
      BY <1>1, <1>3, <2>1, <2>2
    <2> QED
      BY <2>1, <2>3, <2>4 DEF DatesStand
  <1> QED
    BY <1>2, <1>3

LEMMA StateWritten ==
    ASSUME NEW o \in Header, NEW now \in Header, NEW h \in Header, NEW r, NEW q, IsHistory(q),
           StatesStand(o, now, q),
           r.settled = (IF h.settled # now.settled THEN h.settled ELSE o.settled),
           h.settled # now.settled =>
               \A i \in DOMAIN q : h.settled # MergedSettled(q[i].before, q[i].was)
    PROVE  StatesStand(r, h, q)
  <1>1. DOMAIN q = 1 .. Len(q) /\ Len(q) \in Nat
    BY LogDomain DEF IsHistory
  <1>2. CASE h.settled = now.settled
    BY <1>2 DEF StatesStand
  <1>3. CASE h.settled # now.settled
    <2> DEFINE D == [i \in 0 .. Len(q) |-> h.settled]
    <2>1. D \in [0 .. Len(q) -> Settled] /\ \A i \in 0 .. Len(q) : D[i] = h.settled
      BY DEF Header
    <2>2. 0 \in 0 .. Len(q) /\ Len(q) \in 0 .. Len(q)
          /\ \A i \in 1 .. Len(q) : i \in 0 .. Len(q) /\ i - 1 \in 0 .. Len(q)
      BY <1>1
    <2> HIDE DEF D
    <2>3. D[0] = r.settled /\ D[Len(q)] = h.settled
      BY <1>3, <2>1, <2>2
    <2>4. \A i \in 1 .. Len(q) :
            D[i - 1] = IF D[i] = MergedSettled(q[i].before, q[i].was) THEN q[i].before.settled
                       ELSE D[i]
      BY <1>1, <1>3, <2>1, <2>2
    <2> QED
      BY <2>1, <2>3, <2>4 DEF StatesStand
  <1> QED
    BY <1>2, <1>3

LEMMA TagsWritten ==
    ASSUME NEW o, NEW now, NEW h, NEW r, NEW q, TagsStand(o, now, q),
           r.tags = (o.tags \cup (h.tags \ now.tags)) \ (now.tags \ h.tags),
           \A i \in DOMAIN q : (h.tags \ now.tags) \cap (q[i].was.tags \ q[i].before.tags) = {}
    PROVE  TagsStand(r, h, q)
  <1> DEFINE U(x) == \E i \in DOMAIN q : x \in q[i].was.tags \ q[i].before.tags
  <1>1. \A x : x \in o.tags <=> x \in now.tags /\ ~U(x)
    BY DEF TagsStand
  <1>2. \A x \in h.tags \ now.tags : ~U(x)
    OBVIOUS
  <1>3. \A x : x \in r.tags <=> x \in h.tags /\ ~U(x)
    BY <1>1, <1>2
  <1> QED
    BY <1>3 DEF TagsStand

\* A change of how often the entry is there is made to both, unless it puts back
\* what a merge brought.
LEMMA EntryWritten ==
    ASSUME TypeOK, NEW t \in Transaction, NEW h \in Header, NEW e \in Entry,
           IsHistory(merges[t]), EntryStands(own[t], header[t], merges[t], e),
           h.meta[e] > header[t].meta[e] => ~PutsBack(t, e)
    PROVE  EntryStands(Rewritten(own[t], header[t], h), h, merges[t], e)
  <1> DEFINE x == own[t].meta[e]
             y == header[t].meta[e]
             z == h.meta[e]
             r == Rewritten(own[t], header[t], h)
             w == r.meta[e]
             B == Bringing(merges[t], e)
             b(i) == Brought(merges[t][i], e)
  <1>1. x \in Nat /\ y \in Nat /\ z \in Nat
    BY DEF TypeOK, Header, Meta
  <1>2. w = IF z > y THEN x + (z - y) ELSE Less(x, y - z)
    BY DEF Rewritten
  <1>3. \A i \in B : b(i) \in Nat /\ b(i) > 0
    BY DEF IsHistory, Bringing, Brought, Appended, Header, Meta
  <1>4. /\ B = {} => x = y
        /\ \A i \in B :
             /\ (\A j \in B : j <= i) => x = Less(y, b(i))
             /\ \A j \in B : i # j => x = 0
    BY DEF EntryStands
  <1>5. z > y => \A i \in B : x + b(i) <= y /\ \A j \in B : j = i
    <2> SUFFICES ASSUME z > y, NEW i \in B
                 PROVE  x + b(i) <= y /\ \A j \in B : j = i
      OBVIOUS
    <2>1. /\ ~(x + b(i) > y)
          /\ ~ \E j \in DOMAIN merges[t] \ {i} : b(j) > 0
      BY DEF PutsBack, Bringing
    <2>2. x + b(i) <= y
      BY <1>1, <1>3, <2>1
    <2> QED
      BY <2>1, <2>2 DEF Bringing
  <1> HIDE DEF x, y, z, r, w, B, b
  <1>6. B = {} => w = z
    BY <1>1, <1>2, <1>4 DEF Less
  <1>7. ASSUME NEW i \in B, \A j \in B : j <= i
        PROVE  w = Less(z, b(i))
    <2>1. x = Less(y, b(i)) /\ b(i) \in Nat
      BY <1>3, <1>4, <1>7
    <2>2. CASE z > y
      <3>1. x + b(i) <= y
        BY <1>5, <2>2
      <3> QED
        BY <1>1, <1>2, <2>1, <2>2, <3>1 DEF Less
    <2>3. CASE ~(z > y)
      BY <1>1, <1>2, <2>1, <2>3 DEF Less
    <2> QED
      BY <2>2, <2>3
  <1>8. ASSUME NEW i \in B, NEW j \in B, i # j
        PROVE  w = 0
    <2>1. x = 0 /\ ~(z > y)
      BY <1>4, <1>5, <1>8
    <2> QED
      BY <1>1, <1>2, <2>1 DEF Less
  <1> QED
    BY <1>6, <1>7, <1>8 DEF EntryStands, w, z, B, b, r

LEMMA WriteStands ==
    ASSUME TypeOK, NEW t \in Transaction, NEW h \in Header, IsHistory(merges[t]),
           ~Echoes(t, h), Stands(own[t], header[t], merges[t])
    PROVE  Stands(Rewritten(own[t], header[t], h), h, merges[t])
  <1> DEFINE o == own[t]
             now == header[t]
             q == merges[t]
             r == Rewritten(own[t], header[t], h)
  <1>1. o \in Header /\ now \in Header
    BY DEF TypeOK
  <1>2. /\ r.date = (IF h.date # now.date THEN h.date ELSE o.date)
        /\ r.settled = (IF h.settled # now.settled THEN h.settled ELSE o.settled)
        /\ r.tags = (o.tags \cup (h.tags \ now.tags)) \ (now.tags \ h.tags)
    BY DEF Rewritten
  <1>3. \A i \in DOMAIN q :
          /\ h.date # now.date => h.date # MergedDate(q[i].before, q[i].was)
          /\ h.settled # now.settled => h.settled # MergedSettled(q[i].before, q[i].was)
          /\ (h.tags \ now.tags) \cap (q[i].was.tags \ q[i].before.tags) = {}
    BY DEF Echoes
  <1>4. \A e \in Entry : h.meta[e] > now.meta[e] => ~PutsBack(t, e)
    BY DEF Echoes
  <1>5. MetaStands(r, h, q)
    BY <1>4, EntryWritten DEF Stands, MetaStands
  <1> HIDE DEF o, now, q, r
  <1>6. DatesStand(o, now, q) /\ StatesStand(o, now, q) /\ TagsStand(o, now, q) /\ IsHistory(q)
    BY DEF Stands, o, now, q
  <1>7. DatesStand(r, h, q)
    BY <1>1, <1>2, <1>3, <1>6, DateWritten
  <1>8. StatesStand(r, h, q)
    BY <1>1, <1>2, <1>3, <1>6, StateWritten
  <1>9. TagsStand(r, h, q)
    BY <1>2, <1>3, <1>6, TagsWritten
  <1> QED
    BY <1>5, <1>7, <1>8, <1>9 DEF Stands, o, now, q, r

\* Undoing its open merges gives a transaction what its user made it, and a record
\* gives the transaction it absorbed the header that does the same there.
HeadersStand == \A t \in txns \ clouded : Stands(own[t], header[t], merges[t])

Absent(s, i) ==
    LET m == merges[s][i]
        a == merges[s][i].absorbed
    IN  a \notin clouded =>
            /\ a \notin txns /\ Stands(own[a], m.was, merges[a])
            /\ \A u \in Transaction : \A j \in DOMAIN merges[u] :
                 merges[u][j].absorbed = a => u = s /\ j = i

AbsentStand == \A s \in Transaction : \A i \in DOMAIN merges[s] : Absent(s, i)

HeadInv == HeadersStand /\ AbsentStand

LEMMA LogTypes ==
    ASSUME TypeOK, NEW s \in Transaction
    PROVE  /\ IsHistory(merges[s]) /\ DOMAIN merges[s] = 1 .. Len(merges[s])
           /\ \A i \in DOMAIN merges[s] : merges[s][i] \in Record
           /\ own[s] \in Header /\ header[s] \in Header
  <1>1. merges[s] \in Seq(Record)
    BY DEF TypeOK
  <1>2. /\ IsLog(merges[s]) /\ DOMAIN merges[s] = 1 .. Len(merges[s])
        /\ \A i \in DOMAIN merges[s] : merges[s][i] \in Record
    BY <1>1, SeqIsLog
  <1>3. IsHistory(merges[s])
    BY <1>2, RecordFields DEF IsHistory
  <1> QED
    BY <1>2, <1>3 DEF TypeOK

LEMMA HeadsKept ==
    ASSUME HeadInv, UNCHANGED <<txns, header, own, merges, clouded>>
    PROVE  HeadInv'
  BY DEF HeadInv, HeadersStand, AbsentStand, Absent

\* What a merge that goes through does with headers and logs.
Absorbs(s, a, m) ==
    /\ s \in txns /\ a \in txns /\ s # a
    /\ m.absorbed = a /\ LogGrown(s, m) /\ own' = own /\ txns' = txns \ {a}
    /\ header'[s].date = MergedDate(m.before, m.was)
    /\ header'[s].tags = header[s].tags \cup header[a].tags
    /\ header'[s].meta = JoinMeta(m.before.meta, m.was.meta)
    /\ header'[s].settled = MergedSettled(m.before, m.was)
    /\ \A u \in Transaction \ {s, a} : header'[u] = header[u]
    /\ clouded \subseteq clouded'
    /\ {s, a} \subseteq clouded' \/ (m.before = header[s] /\ m.was = header[a])

LEMMA MergeAbsorbs ==
    ASSUME TransferAssumption, TypeOK, TransferInv, NEW c \in DOMAIN call, Merge(c)
    PROVE  \/ UNCHANGED <<txns, header, own, merges, clouded>>
           \/ \E s, a \in Transaction : \E m : Absorbs(s, a, m)
  <1> DEFINE k == call[c]
             s == k.survivor
             a == k.absorbed
             m == [absorbed |-> a, was |-> k.was, before |-> k.shown, leg |-> k.leg,
                   sources |-> k.sources, edited |-> FALSE, value |-> legs[k.leg].value]
             J == Joined(s, a, k.shown, k.was)
  <1>1. s \in Transaction /\ a \in Transaction /\ s # a
    BY MergeFuses
  <1>2. UNCHANGED own
    BY DEF Merge
  <1>3. CASE UNCHANGED <<txns, header, legs, refs, merges, clouded, torn>>
    BY <1>2, <1>3
  <1>4. CASE /\ StillOneSided(k)
             /\ merges' = [merges EXCEPT ![s] = Append(@, m)]
             /\ header' = [header EXCEPT ![s] = J, ![a] = Blank]
             /\ txns' = txns \ {a}
             /\ clouded' = clouded \cup IF Stale(k) THEN {s, a} ELSE {}
    <2>1. s \in txns /\ a \in txns
      <3>1. \E p \in Posting : legs[p].tx = s
        <4>1. PICK p \in Posting : LegsOf(s) = {p}
          BY <1>1, <1>4, OneLeg DEF StillOneSided
        <4> QED
          BY <4>1 DEF LegsOf
      <3>2. \E p \in Posting : legs[p].tx = a
        <4>1. PICK p \in Posting : LegsOf(a) = {p}
          BY <1>1, <1>4, OneLeg DEF StillOneSided
        <4> QED
          BY <4>1 DEF LegsOf
      <3>3. s # None /\ a # None
        BY <1>1 DEF TransferAssumption
      <3> QED
        BY <3>1, <3>2, <3>3 DEF TransferInv, Rows
    <2>2. LogGrown(s, m)
      <3> HIDE DEF m
      <3>1. IsLog(merges[s]) /\ DOMAIN merges = Transaction
        BY <1>1 DEF TransferInv, Shapes
      <3>2. merges'[s] = Append(merges[s], m) /\ \A u \in Transaction : u # s => merges'[u] = merges[u]
        BY <1>1, <1>4, <3>1
      <3> QED
        BY <3>1, <3>2, AppendLog DEF LogGrown
    <2>3. header'[s] = J /\ \A u \in Transaction \ {s, a} : header'[u] = header[u]
      <3> HIDE DEF J
      <3> QED
        BY <1>1, <1>4 DEF TypeOK
    <2>4. m.absorbed = a /\ m.before = k.shown /\ m.was = k.was
      OBVIOUS
    <2>5. /\ J.date = MergedDate(k.shown, k.was) /\ J.tags = header[s].tags \cup header[a].tags
          /\ J.meta = JoinMeta(k.shown.meta, k.was.meta) /\ J.settled = MergedSettled(k.shown, k.was)
      BY DEF Joined
    <2>6. {s, a} \subseteq clouded' \/ (k.shown = header[s] /\ k.was = header[a])
      BY <1>4 DEF Stale
    <2>7. clouded \subseteq clouded' /\ txns' = txns \ {a}
      BY <1>4
    <2> HIDE DEF m, J, s, a, k
    <2>8. Absorbs(s, a, m)
      BY <1>1, <1>2, <2>1, <2>2, <2>3, <2>4, <2>5, <2>6, <2>7 DEF Absorbs
    <2> QED
      BY <1>1, <2>8
  <1> QED
    BY <1>3, <1>4 DEF Merge

LEMMA MergeHeads ==
    ASSUME TransferAssumption, TypeOK, HeadInv, NEW s \in Transaction, NEW a \in Transaction,
           NEW m, Absorbs(s, a, m)
    PROVE  HeadInv'
  <1> DEFINE n == Len(merges[s]) + 1
  <1>1. /\ s \in txns /\ a \in txns /\ s # a /\ m.absorbed = a
        /\ own' = own /\ txns' = txns \ {a} /\ clouded \subseteq clouded'
        /\ {s, a} \subseteq clouded' \/ (m.before = header[s] /\ m.was = header[a])
        /\ \A u \in Transaction \ {s, a} : header'[u] = header[u]
    BY DEF Absorbs
  <1>2. /\ \A u \in Transaction : u # s => merges'[u] = merges[u]
        /\ Len(merges'[s]) = n /\ DOMAIN merges'[s] = DOMAIN merges[s] \cup {n}
        /\ n \notin DOMAIN merges[s]
        /\ merges'[s][n] = m /\ \A i \in DOMAIN merges[s] : merges'[s][i] = merges[s][i]
    BY DEF Absorbs, LogGrown
  <1>3. txns \subseteq Transaction
    BY DEF TypeOK
  <1>4. HeadersStand'
    <2> SUFFICES ASSUME NEW t \in txns' \ clouded'
                 PROVE  Stands(own[t], header'[t], merges'[t])
      BY <1>1 DEF HeadersStand
    <2>1. t \in txns \ clouded /\ t # a /\ t \in Transaction
      BY <1>1, <1>3
    <2>2. Stands(own[t], header[t], merges[t])
      BY <2>1 DEF HeadInv, HeadersStand
    <2>3. CASE t # s
      BY <1>1, <1>2, <2>1, <2>2, <2>3
    <2>4. CASE t = s
      <3>1. m.before = header[s] /\ m.was = header[a]
        BY <1>1, <2>4
      <3>2. own[s] \in Header /\ header[s] \in Header /\ header[a] \in Header /\ IsHistory(merges[s])
        BY LogTypes
      <3>3. Longer(merges[s], merges'[s], m)
        BY <1>2 DEF Longer
      <3>4. /\ header'[s].date = MergedDate(header[s], header[a])
            /\ header'[s].tags = header[s].tags \cup header[a].tags
            /\ header'[s].meta = JoinMeta(header[s].meta, header[a].meta)
            /\ header'[s].settled = MergedSettled(header[s], header[a])
        BY <3>1 DEF Absorbs
      <3> QED
        BY <2>2, <2>4, <3>1, <3>2, <3>3, <3>4, MergeStands
    <2> QED
      BY <2>3, <2>4
  <1>5. AbsentStand'
    <2> SUFFICES ASSUME NEW u \in Transaction, NEW i \in DOMAIN merges'[u],
                        merges'[u][i].absorbed \notin clouded'
                 PROVE  /\ merges'[u][i].absorbed \notin txns'
                        /\ Stands(own[merges'[u][i].absorbed], merges'[u][i].was,
                                  merges'[merges'[u][i].absorbed])
                        /\ \A v \in Transaction : \A j \in DOMAIN merges'[v] :
                             merges'[v][j].absorbed = merges'[u][i].absorbed => v = u /\ j = i
      BY <1>1 DEF AbsentStand, Absent
    <2>1. \A v \in Transaction : \A j : j \in DOMAIN merges'[v] =>
             \/ v = s /\ j = n /\ merges'[v][j] = m
             \/ j \in DOMAIN merges[v] /\ merges'[v][j] = merges[v][j]
      BY <1>2
    <2>2. CASE u = s /\ i = n
      <3>1. a \notin clouded /\ m.was = header[a] /\ merges'[u][i] = m
        BY <1>1, <1>2, <2>2
      <3>2. Stands(own[a], header[a], merges[a])
        BY <1>1, <3>1 DEF HeadInv, HeadersStand
      <3>3. \A v \in Transaction : \A j \in DOMAIN merges[v] : merges[v][j].absorbed # a
        BY <1>1, <3>1 DEF HeadInv, AbsentStand, Absent
      <3> QED
        BY <1>1, <1>2, <2>1, <2>2, <3>1, <3>2, <3>3
    <2>3. CASE ~(u = s /\ i = n)
      <3> DEFINE b == merges[u][i].absorbed
      <3>1. i \in DOMAIN merges[u] /\ merges'[u][i] = merges[u][i]
        BY <2>1, <2>3
      <3>2. b \notin clouded
        BY <1>1, <3>1
      <3>3. /\ b \notin txns /\ Stands(own[b], merges[u][i].was, merges[b])
            /\ \A v \in Transaction : \A j \in DOMAIN merges[v] :
                 merges[v][j].absorbed = b => v = u /\ j = i
        BY <3>1, <3>2 DEF HeadInv, AbsentStand, Absent
      <3>4. b \in Transaction
        BY <3>1, LogTypes, RecordFields
      <3>5. merges'[b] = merges[b] /\ b # a
        BY <1>1, <1>2, <3>3, <3>4
      <3> QED
        BY <1>1, <2>1, <3>1, <3>3, <3>5
    <2> QED
      BY <2>2, <2>3
  <1> QED
    BY <1>4, <1>5 DEF HeadInv

\* What an unmerge that goes through does with them; q is the log it leaves.
Returns(s, a, m, q) ==
    /\ s \in txns /\ a \in Transaction /\ s # a /\ m.absorbed = a /\ a \notin txns
    /\ own' = own /\ txns' = txns \cup {a}
    /\ DOMAIN q = DOMAIN merges[s] \ {Len(merges[s])} /\ IsLog(q)
    /\ \A i \in DOMAIN q : q[i] = merges[s][i]
    /\ merges'[s] = q /\ \A u \in Transaction \ {s} : merges'[u] = merges[u]
    /\ header'[a] = m.was /\ \A u \in Transaction \ {s, a} : header'[u] = header[u]
    /\ clouded \subseteq clouded'
    /\ \/ {s, a} \subseteq clouded'
       \/ /\ Longer(q, merges[s], m) /\ Len(merges[s]) \in DOMAIN merges[s]
          /\ header'[s] = Parted(header[s], header[s].meta, m)

LEMMA UnmergeReturns ==
    ASSUME TransferAssumption, TypeOK, TransferInv, NEW c \in DOMAIN call, Unmerge(c)
    PROVE  \/ UNCHANGED <<txns, header, own, merges, clouded>>
           \/ \E s, a \in Transaction : \E m, q : Returns(s, a, m, q)
  <1> DEFINE k == call[c]
             s == k.survivor
             m == k.record
             a == m.absorbed
             H == Parted(header[s], k.meta, m)
             q == Front(merges[s])
  <1>1. s \in Transaction /\ a \in Transaction /\ s # a /\ m.leg \in Posting
    BY DEF Unmerge, TransferInv, Shapes, CallShape, RecordShape
  <1>2. UNCHANGED own
    BY DEF Unmerge
  <1>3. CASE UNCHANGED <<txns, header, legs, refs, merges, clouded, torn>>
    BY <1>2, <1>3
  <1>4. CASE /\ MayUnmerge(s, m)
             /\ merges' = [merges EXCEPT ![s] = Front(@)]
             /\ txns' = txns \cup {a}
             /\ header' = [header EXCEPT ![s] = H, ![a] = m.was]
             /\ clouded' = clouded \cup IF Outdated(s, m) \/ k.meta # header[s].meta THEN {s, a} ELSE {}
    <2>1. s \in txns /\ a \notin txns
      <3>1. legs[m.leg].tx = s /\ a \notin txns
        BY <1>4 DEF MayUnmerge
      <3>2. s # None
        BY <1>1 DEF TransferAssumption
      <3> QED
        BY <1>1, <3>1, <3>2 DEF TransferInv, Rows
    <2>2. IsLog(merges[s]) /\ DOMAIN merges = Transaction
      BY <1>1 DEF TransferInv, Shapes
    <2>3. merges'[s] = q /\ \A u \in Transaction \ {s} : merges'[u] = merges[u]
      BY <1>1, <1>4, <2>2
    <2>4. /\ IsLog(q) /\ DOMAIN q = DOMAIN merges[s] \ {Len(merges[s])}
          /\ \A i \in DOMAIN q : q[i] = merges[s][i]
      BY <2>2, FrontLog
    <2>5. /\ header'[s] = H /\ header'[a] = m.was
          /\ \A u \in Transaction \ {s, a} : header'[u] = header[u]
      <3> HIDE DEF H
      <3> QED
        BY <1>1, <1>4 DEF TypeOK
    <2>6. /\ clouded \subseteq clouded' /\ txns' = txns \cup {a}
          /\ \/ {s, a} \subseteq clouded'
             \/ ~Outdated(s, m) /\ k.meta = header[s].meta
      BY <1>4
    <2>7. ASSUME ~Outdated(s, m)
          PROVE  Longer(q, merges[s], m) /\ Len(merges[s]) \in DOMAIN merges[s]
      <3>1. merges[s] # <<>> /\ m = Last(merges[s])
        BY <2>7 DEF Outdated
      <3>2. /\ Len(merges[s]) \in Nat \ {0} /\ DOMAIN merges[s] = 1 .. Len(merges[s])
            /\ m = merges[s][Len(merges[s])]
        <4>1. merges[s] \in Seq(ToSet(merges[s]))
          BY <2>2 DEF IsLog
        <4> QED
          BY <3>1, <4>1 DEF Last
      <3>3. Len(q) \in Nat /\ DOMAIN q = 1 .. Len(q)
        BY <2>4, LogDomain
      <3>4. Len(merges[s]) = Len(q) + 1
        <4> DEFINE x == Len(q)
                   y == Len(merges[s])
        <4>1. DOMAIN q = DOMAIN merges[s] \ {y}
          BY <2>4
        <4>2. x \in Nat /\ y \in Nat \ {0}
          BY <3>2, <3>3
        <4>3. \A i \in Nat : (1 <= i /\ i <= x) <=> (1 <= i /\ i <= y /\ i # y)
          <5>1. \A i \in Nat : (i \in DOMAIN q <=> 1 <= i /\ i <= x)
                               /\ (i \in DOMAIN merges[s] <=> 1 <= i /\ i <= y)
            BY <3>2, <3>3
          <5> HIDE DEF x, y, q, s
          <5> QED
            BY <4>1, <5>1
        <4> HIDE DEF x, y, q, s
        <4>4. y - 1 \in Nat /\ (y - 1 >= 1 => y - 1 <= x) /\ ~(1 <= y /\ y <= x)
          BY <4>2, <4>3
        <4> QED
          BY <4>2, <4>3, <4>4 DEF x, y
      <3> HIDE DEF q, m, s
      <3> QED
        BY <2>4, <3>2, <3>3, <3>4 DEF Longer
    <2>8. m.absorbed = a /\ (k.meta = header[s].meta => H = Parted(header[s], header[s].meta, m))
      OBVIOUS
    <2> HIDE DEF m, H, s, a, k, q
    <2>9. Returns(s, a, m, q)
      BY <1>1, <1>2, <2>1, <2>3, <2>4, <2>5, <2>6, <2>7, <2>8 DEF Returns
    <2> QED
      BY <1>1, <2>9
  <1> QED
    BY <1>3, <1>4 DEF Unmerge

LEMMA UnmergeHeads ==
    ASSUME TransferAssumption, TypeOK, HeadInv, NEW s \in Transaction, NEW a \in Transaction,
           NEW m, NEW q, Returns(s, a, m, q)
    PROVE  HeadInv'
  <1> DEFINE n == Len(merges[s])
  <1>1. /\ s \in txns /\ s # a /\ m.absorbed = a /\ a \notin txns
        /\ own' = own /\ txns' = txns \cup {a} /\ clouded \subseteq clouded'
        /\ header'[a] = m.was /\ \A u \in Transaction \ {s, a} : header'[u] = header[u]
    BY DEF Returns
  <1>2. /\ DOMAIN q = DOMAIN merges[s] \ {n} /\ IsLog(q) /\ \A i \in DOMAIN q : q[i] = merges[s][i]
        /\ merges'[s] = q /\ \A u \in Transaction \ {s} : merges'[u] = merges[u]
    BY DEF Returns
  <1>3. \/ {s, a} \subseteq clouded'
        \/ /\ Longer(q, merges[s], m) /\ n \in DOMAIN merges[s] /\ m = merges[s][n]
           /\ header'[s] = Parted(header[s], header[s].meta, m)
    BY DEF Returns, Longer
  <1>4. txns \subseteq Transaction
    BY DEF TypeOK
  <1>5. a \notin clouded' =>
          /\ n \in DOMAIN merges[s] /\ m = merges[s][n] /\ Stands(own[a], m.was, merges[a])
          /\ \A u \in Transaction : \A j \in DOMAIN merges[u] :
               merges[u][j].absorbed = a => u = s /\ j = n
    <2> SUFFICES ASSUME a \notin clouded'
                 PROVE  /\ n \in DOMAIN merges[s] /\ m = merges[s][n]
                        /\ Stands(own[a], m.was, merges[a])
                        /\ \A u \in Transaction : \A j \in DOMAIN merges[u] :
                             merges[u][j].absorbed = a => u = s /\ j = n
      OBVIOUS
    <2>1. n \in DOMAIN merges[s] /\ m = merges[s][n] /\ a \notin clouded
      BY <1>1, <1>3
    <2> HIDE DEF n
    <2>2. Absent(s, n)
      BY <2>1 DEF HeadInv, AbsentStand
    <2> QED
      BY <1>1, <2>1, <2>2 DEF Absent
  <1> HIDE DEF n
  <1>6. HeadersStand'
    <2> SUFFICES ASSUME NEW t \in txns' \ clouded'
                 PROVE  Stands(own[t], header'[t], merges'[t])
      BY <1>1 DEF HeadersStand
    <2>1. CASE t = a
      BY <1>1, <1>2, <1>5, <2>1
    <2>2. CASE t = s
      <3>1. /\ Longer(q, merges[s], m) /\ n \in DOMAIN merges[s] /\ m = merges[s][n]
            /\ header'[s] = Parted(header[s], header[s].meta, m)
        BY <1>3, <2>2
      <3>2. Stands(own[s], header[s], merges[s])
        BY <1>1, <2>2 DEF HeadInv, HeadersStand
      <3>3. own[s] \in Header /\ header[s] \in Header /\ IsHistory(merges[s]) /\ m \in Record
        BY <3>1, LogTypes
      <3>4. m.before \in Header /\ m.was \in Header
        BY <3>3, RecordFields
      <3> QED
        BY <1>2, <2>2, <3>1, <3>2, <3>3, <3>4, UnmergeStands
    <2>3. CASE t # a /\ t # s
      <3>1. t \in txns \ clouded /\ t \in Transaction
        BY <1>1, <1>4, <2>3
      <3>2. Stands(own[t], header[t], merges[t])
        BY <3>1 DEF HeadInv, HeadersStand
      <3> QED
        BY <1>1, <1>2, <2>3, <3>1, <3>2
    <2> QED
      BY <2>1, <2>2, <2>3
  <1>7. AbsentStand'
    <2> SUFFICES ASSUME NEW u \in Transaction, NEW i \in DOMAIN merges'[u],
                        merges'[u][i].absorbed \notin clouded'
                 PROVE  /\ merges'[u][i].absorbed \notin txns'
                        /\ Stands(own[merges'[u][i].absorbed], merges'[u][i].was,
                                  merges'[merges'[u][i].absorbed])
                        /\ \A v \in Transaction : \A j \in DOMAIN merges'[v] :
                             merges'[v][j].absorbed = merges'[u][i].absorbed => v = u /\ j = i
      BY <1>1 DEF AbsentStand, Absent
    <2>1. \A v \in Transaction : \A j \in DOMAIN merges'[v] :
             j \in DOMAIN merges[v] /\ merges'[v][j] = merges[v][j] /\ ~(v = s /\ j = n)
      BY <1>2
    <2> DEFINE b == merges[u][i].absorbed
    <2>2. i \in DOMAIN merges[u] /\ merges'[u][i] = merges[u][i] /\ b \notin clouded
      BY <1>1, <2>1
    <2>3. /\ b \notin txns /\ Stands(own[b], merges[u][i].was, merges[b])
          /\ \A v \in Transaction : \A j \in DOMAIN merges[v] :
               merges[v][j].absorbed = b => v = u /\ j = i
      BY <2>2 DEF HeadInv, AbsentStand, Absent
    <2>4. b \in Transaction
      BY <2>2, LogTypes, RecordFields
    <2>5. b # a
      BY <1>5, <2>1, <2>2
    <2>6. merges'[b] = merges[b]
      BY <1>1, <1>2, <2>3, <2>4
    <2> QED
      BY <1>1, <2>1, <2>2, <2>3, <2>5, <2>6
  <1> QED
    BY <1>6, <1>7 DEF HeadInv

\* What the logs hold of headers, which edits of legs do not touch.
LogsAlike ==
    \A u \in Transaction :
        /\ DOMAIN merges'[u] = DOMAIN merges[u] /\ Len(merges'[u]) = Len(merges[u])
        /\ \A i \in DOMAIN merges[u] :
             /\ merges'[u][i].before = merges[u][i].before /\ merges'[u][i].was = merges[u][i].was
             /\ merges'[u][i].absorbed = merges[u][i].absorbed

LEMMA LoggedAlike ==
    ASSUME TypeOK, TransferInv, NEW t \in Transaction, NEW E, merges' = Logged(t, E)
    PROVE  LogsAlike
  <1>1. \A u \in Transaction : DOMAIN merges'[u] = DOMAIN merges[u] /\ Len(merges'[u]) = Len(merges[u])
    BY LoggedIs
  <1>2. ASSUME NEW u \in Transaction, NEW i \in DOMAIN merges[u]
        PROVE  /\ merges'[u][i].before = merges[u][i].before /\ merges'[u][i].was = merges[u][i].was
               /\ merges'[u][i].absorbed = merges[u][i].absorbed
    <2> DEFINE L == [j \in DOMAIN merges[t] |->
                   [merges[t][j] EXCEPT !.edited = merges[t][j].edited \/ merges[t][j].leg \in E]]
    <2>1. merges' = [merges EXCEPT ![t] = L] /\ DOMAIN merges = Transaction
      BY DEF Logged, TypeOK
    <2>2. CASE u # t
      <3> HIDE DEF L
      <3> QED
        BY <2>1, <2>2
    <2>3. CASE u = t
      <3>1. merges'[t] = L
        <4> HIDE DEF L
        <4> QED
          BY <2>1
      <3>2. merges'[u][i] = [merges[u][i] EXCEPT !.edited = merges[u][i].edited \/ merges[u][i].leg \in E]
        BY <2>3, <3>1
      <3>3. merges[u][i] \in Record
        BY LogTypes
      <3> DEFINE x == merges[u][i].edited \/ merges[u][i].leg \in E
      <3>4. merges'[u][i] = [merges[u][i] EXCEPT !.edited = x]
        BY <3>2
      <3> HIDE DEF x
      <3> QED
        BY <3>3, <3>4 DEF Record
    <2> QED
      BY <2>2, <2>3
  <1> QED
    BY <1>1, <1>2 DEF LogsAlike

\* A write of one header, that of a transaction which is clouded by it or stands.
LEMMA HeadsWritten ==
    ASSUME TypeOK, HeadInv, NEW t \in txns, txns' = txns, clouded \subseteq clouded', LogsAlike,
           \A u \in Transaction \ {t} : header'[u] = header[u] /\ own'[u] = own[u],
           t \notin clouded' => Stands(own'[t], header'[t], merges[t])
    PROVE  HeadInv'
  <1>1. txns \subseteq Transaction
    BY DEF TypeOK
  <1>2. \A u \in Transaction : \A o, h : Stands(o, h, merges[u]) => Stands(o, h, merges'[u])
    <2> SUFFICES ASSUME NEW u \in Transaction, NEW o, NEW h, Stands(o, h, merges[u])
                 PROVE  Stands(o, h, merges'[u])
      OBVIOUS
    <2>1. IsLog(merges[u])
      BY LogTypes DEF IsHistory
    <2> QED
      BY <2>1, StandsSame DEF LogsAlike
  <1>3. HeadersStand'
    <2> SUFFICES ASSUME NEW u \in txns, u \notin clouded'
                 PROVE  Stands(own'[u], header'[u], merges'[u])
      BY DEF HeadersStand
    <2>1. u \notin clouded /\ u \in Transaction
      BY <1>1
    <2>2. Stands(own[u], header[u], merges[u])
      BY <2>1 DEF HeadInv, HeadersStand
    <2>3. Stands(own'[u], header'[u], merges[u])
      BY <2>1, <2>2
    <2> QED
      BY <1>2, <2>1, <2>3
  <1>4. AbsentStand'
    <2> SUFFICES ASSUME NEW u \in Transaction, NEW i \in DOMAIN merges[u],
                        merges[u][i].absorbed \notin clouded'
                 PROVE  /\ merges[u][i].absorbed \notin txns
                        /\ Stands(own'[merges[u][i].absorbed], merges[u][i].was,
                                  merges'[merges[u][i].absorbed])
                        /\ \A v \in Transaction : \A j \in DOMAIN merges[v] :
                             merges[v][j].absorbed = merges[u][i].absorbed => v = u /\ j = i
      BY DEF AbsentStand, Absent, LogsAlike
    <2>1. merges[u][i].absorbed \in Transaction /\ merges[u][i].absorbed \notin clouded
      BY LogTypes, RecordFields
    <2>2. Absent(u, i)
      BY DEF HeadInv, AbsentStand
    <2>3. merges[u][i].absorbed # t
      BY <2>1, <2>2 DEF Absent
    <2> QED
      BY <1>2, <2>1, <2>2, <2>3 DEF Absent
  <1> QED
    BY <1>3, <1>4 DEF HeadInv

LEMMA LogsUntouched ==
    ASSUME UNCHANGED merges
    PROVE  LogsAlike
  BY DEF LogsAlike

LEMMA EditLegsHeads ==
    ASSUME TransferAssumption, TypeOK, TransferInv, HeadInv, NEW t \in Transaction, EditLegs(t)
    PROVE  HeadInv'
  <1>1. t \in txns /\ UNCHANGED <<txns, header, own, clouded>>
    BY DEF EditLegs
  <1>2. PICK value, E : Edited(t, value, E)
    BY EditLegsEdits DEF TypeOK
  <1>3. LogsAlike
    BY <1>2, LoggedAlike DEF Edited
  <1>4. t \notin clouded' => Stands(own'[t], header'[t], merges[t])
    BY <1>1 DEF HeadInv, HeadersStand
  <1> QED
    BY <1>1, <1>3, <1>4, HeadsWritten

\* The user writes a header that they were shown as it stands.
LEMMA WrittenStands ==
    ASSUME TypeOK, HeadInv, NEW t \in txns, NEW h \in Header, SetHeader(t, header[t], h),
           t \notin clouded, ~Echoes(t, h)
    PROVE  Stands(own'[t], header'[t], merges[t])
  <1> DEFINE r == Rewritten(own[t], header[t], h)
  <1>1. header' = [header EXCEPT ![t] = h] /\ own' = [own EXCEPT ![t] = r]
    BY DEF SetHeader
  <1>2. t \in Transaction
    BY DEF TypeOK
  <1> HIDE DEF r
  <1>3. header'[t] = h /\ own'[t] = r
    BY <1>1, <1>2 DEF TypeOK
  <1>4. Stands(own[t], header[t], merges[t]) /\ IsHistory(merges[t])
    BY <1>2, LogTypes DEF HeadInv, HeadersStand
  <1> QED
    BY <1>2, <1>3, <1>4, WriteStands DEF r

LEMMA OthersKept ==
    ASSUME TypeOK, NEW t, NEW shown, NEW h, SetHeader(t, shown, h), NEW u \in Transaction \ {t}
    PROVE  header'[u] = header[u] /\ own'[u] = own[u]
  BY DEF SetHeader, TypeOK

LEMMA WriteHeads ==
    ASSUME TypeOK, HeadInv, NEW t \in txns, NEW h \in Header, Write(t, h)
    PROVE  HeadInv'
  <1>1. /\ SetHeader(t, header[t], h) /\ UNCHANGED <<txns, merges>>
        /\ clouded' = clouded \cup IF Echoes(t, h) THEN {t} ELSE {}
    BY DEF Write
  <1>2. t \notin clouded' => Stands(own'[t], header'[t], merges[t])
    BY <1>1, WrittenStands
  <1> QED
    BY <1>1, <1>2, OthersKept, LogsUntouched, HeadsWritten

\* An edit from the command line clouds its transaction, or was shown it as it stands.
LEMMA WriteEditHeads ==
    ASSUME TransferAssumption, TypeOK, TransferInv, HeadInv, NEW e \in DOMAIN draft, WriteEdit(e)
    PROVE  HeadInv'
  <1> DEFINE k == draft[e]
             t == draft[e].tx
  <1>1. txns' = txns /\ t \in Transaction
    BY WriteEditEdits
  <1>2. CASE UNCHANGED <<header, legs, refs, merges, own, clouded, torn>>
    BY <1>1, <1>2, HeadsKept
  <1>3. CASE /\ t \in txns /\ \E h \in Header : HeaderEdited(k, h)
             /\ \E value, E : Edited(t, value, E)
    <2>1. PICK h \in Header : HeaderEdited(k, h)
      BY <1>3
    <2> DEFINE shown == [k.shown EXCEPT !.settled = header[t].settled]
               w == [h EXCEPT !.settled = header[t].settled]
    <2>2. /\ SetHeader(t, shown, w)
          /\ clouded' = clouded \cup IF shown # header[t] \/ Echoes(t, w) THEN {t} ELSE {}
      BY <2>1 DEF HeaderEdited
    <2>3. header[t] \in Header
      BY <1>1 DEF TypeOK
    <2>4. w \in Header
      BY <2>3, Reconciles
    <2>5. LogsAlike
      BY <1>1, <1>3, LoggedAlike DEF Edited
    <2> HIDE DEF shown, w
    <2>6. t \notin clouded' => Stands(own'[t], header'[t], merges[t])
      BY <1>3, <2>2, <2>4, WrittenStands
    <2>7. \A u \in Transaction \ {t} : header'[u] = header[u] /\ own'[u] = own[u]
      BY <2>2, OthersKept
    <2>8. clouded \subseteq clouded'
      BY <2>2
    <2> HIDE DEF t
    <2> QED
      BY <1>1, <1>3, <2>5, <2>6, <2>7, <2>8, HeadsWritten
  <1> QED
    BY <1>2, <1>3, WriteEditHeader

LEMMA DeleteHeads ==
    ASSUME TypeOK, HeadInv, NEW t \in Transaction, Delete(t)
    PROVE  HeadInv'
  <1>1. /\ t \in txns /\ txns' = txns \ {t} /\ header' = [header EXCEPT ![t] = Blank]
        /\ own' = [own EXCEPT ![t] = Blank] /\ merges' = [merges EXCEPT ![t] = <<>>]
        /\ clouded' = clouded
    BY DEF Delete
  <1>2. txns \subseteq Transaction
    BY DEF TypeOK
  <1>3. /\ merges'[t] = <<>> /\ DOMAIN merges'[t] = {}
        /\ \A u \in Transaction \ {t} :
             header'[u] = header[u] /\ own'[u] = own[u] /\ merges'[u] = merges[u]
    BY <1>1 DEF TypeOK
  <1>4. HeadersStand'
    <2> SUFFICES ASSUME NEW u \in txns' \ clouded'
                 PROVE  Stands(own'[u], header'[u], merges'[u])
      BY DEF HeadersStand
    <2>1. u \in txns \ clouded /\ u # t /\ u \in Transaction
      BY <1>1, <1>2
    <2> QED
      BY <1>3, <2>1 DEF HeadInv, HeadersStand
  <1>5. AbsentStand'
    <2> SUFFICES ASSUME NEW u \in Transaction, NEW i \in DOMAIN merges'[u],
                        merges'[u][i].absorbed \notin clouded'
                 PROVE  /\ merges'[u][i].absorbed \notin txns'
                        /\ Stands(own'[merges'[u][i].absorbed], merges'[u][i].was,
                                  merges'[merges'[u][i].absorbed])
                        /\ \A v \in Transaction : \A j \in DOMAIN merges'[v] :
                             merges'[v][j].absorbed = merges'[u][i].absorbed => v = u /\ j = i
      BY DEF AbsentStand, Absent
    <2> DEFINE b == merges[u][i].absorbed
    <2>1. u # t /\ merges'[u] = merges[u] /\ i \in DOMAIN merges[u]
      BY <1>3
    <2>2. b \in Transaction /\ b \notin clouded
      BY <1>1, <2>1, LogTypes, RecordFields
    <2>3. /\ b \notin txns /\ Stands(own[b], merges[u][i].was, merges[b])
          /\ \A v \in Transaction : \A j \in DOMAIN merges[v] :
               merges[v][j].absorbed = b => v = u /\ j = i
      BY <2>1, <2>2 DEF HeadInv, AbsentStand, Absent
    <2>4. own'[b] = own[b] /\ merges'[b] = merges[b]
      BY <1>1, <1>3, <2>2, <2>3
    <2>5. \A v \in Transaction : \A j \in DOMAIN merges'[v] :
            j \in DOMAIN merges[v] /\ merges'[v][j] = merges[v][j]
      BY <1>3
    <2> QED
      BY <1>1, <2>1, <2>3, <2>4, <2>5
  <1> QED
    BY <1>4, <1>5 DEF HeadInv

LEMMA HeadStep ==
    ASSUME TransferAssumption, TypeOK, TransferInv, HeadInv, [Next]_vars
    PROVE  HeadInv'
  <1>1. ASSUME NEW t \in Transaction, UserStep(t)
        PROVE  HeadInv'
    <2>1. header[t] \in Header
      BY DEF TypeOK
    <2>2. CASE EditHeader(t)
      BY <2>1, <2>2, RevisionsType, WriteHeads DEF EditHeader
    <2>3. CASE Reconcile(t)
      <3>1. PICK n \in Settled : Write(t, [header[t] EXCEPT !.settled = n])
        BY <2>3 DEF Reconcile
      <3>2. [header[t] EXCEPT !.settled = n] \in Header /\ t \in txns
        BY <2>1, <2>3 DEF Header, Reconcile
      <3> QED
        BY <3>1, <3>2, WriteHeads
    <2>4. CASE EditLegs(t)
      BY <2>4, EditLegsHeads
    <2>5. CASE Delete(t)
      BY <2>5, DeleteHeads
    <2>6. CASE Adopt(t) \/ AddSourced(t)
      BY <2>6, HeadsKept DEF Adopt, AddSourced
    <2> QED
      BY <1>1, <2>2, <2>3, <2>4, <2>5, <2>6 DEF UserStep
  <1>2. ASSUME NEW c \in DOMAIN call, CallerStep(c)
        PROVE  HeadInv'
    <2>1. CASE (\E s, a \in Transaction : ReadMerge(c, s, a)) \/ (\E s \in Transaction : ReadLog(c, s))
      BY <2>1, HeadsKept DEF ReadMerge, ReadLog
    <2>2. CASE Merge(c)
      BY <2>2, MergeAbsorbs, MergeHeads, HeadsKept
    <2>3. CASE Unmerge(c)
      BY <2>3, UnmergeReturns, UnmergeHeads, HeadsKept
    <2> QED
      BY <1>2, <2>1, <2>2, <2>3 DEF CallerStep
  <1>3. ASSUME NEW e \in DOMAIN draft, EditorStep(e)
        PROVE  HeadInv'
    BY <1>3, HeadsKept, WriteEditHeads DEF EditorStep, StartEdit, ReadCurrent
  <1>4. CASE UNCHANGED vars
    BY <1>4, HeadsKept DEF vars
  <1> QED
    BY <1>1, <1>2, <1>3, <1>4 DEF Next

LEMMA InitHeads ==
    ASSUME TransferAssumption, Init
    PROVE  HeadInv
  <1>1. merges = [t \in Transaction |-> <<>>] /\ own = header /\ TypeOK
    BY InitTypes DEF Init
  <1>2. \A t \in Transaction : merges[t] = <<>> /\ DOMAIN merges[t] = {}
    BY <1>1
  <1>3. AbsentStand
    BY <1>2 DEF AbsentStand
  <1>4. HeadersStand
    BY <1>1, <1>2, NoMergeStands DEF HeadersStand, TypeOK
  <1> QED
    BY <1>3, <1>4 DEF HeadInv

\* Once no merge into it is open, a transaction's date, tags, metadata and
\* reconciliation are what its user made them, edits while merged included
\* (transfer.rs, unmerge: "edits made while merged are preserved").
THEOREM HeadersReturn ==
    ASSUME TransferAssumption
    PROVE  Spec => []EditsStand
  <1> DEFINE I == TypeOK /\ TransferInv /\ HeadInv
  <1>1. Init => I
    BY InitTypes, InitHolds, InitHeads
  <1>2. I /\ [Next]_vars => I'
    BY TypeStep, StepHolds, HeadStep
  <1>3. I => EditsStand
    <2> SUFFICES ASSUME I, NEW t \in txns \ clouded, merges[t] = <<>>
                 PROVE  header[t] = own[t]
      BY DEF EditsStand
    <2>1. Stands(own[t], header[t], <<>>)
      BY DEF HeadInv, HeadersStand
    <2>2. own[t] \in Header /\ header[t] \in Header
      BY DEF TypeOK
    <2> QED
      BY <2>1, <2>2, StandsAlone
  <1> HIDE DEF I
  <1> QED
    BY <1>1, <1>2, <1>3, PTL DEF Spec

=============================================================================
