------------------------- MODULE DeclarationsProofs -------------------------
(***************************************************************************)
(* Proofs about Declarations: its type invariant, that the windows of      *)
(* accounts nest, that a run leaves the values it read, that a discard     *)
(* spares what others name and takes back all a lone run did.              *)
(*                                                                         *)
(* The inductive invariant is Inv: what runs have decided fits the copies  *)
(* they hold (RunsGood), the rows nest (WindowsNest), and what batches     *)
(* record tells later edits from their own (Batches).                      *)
(***************************************************************************)
EXTENDS Declarations, SequenceTheorems, TLAPS

-----------------------------------------------------------------------------
(* Runs.                                                                   *)

\* What a run has decided still fits its copy of the account.
StepFits(R, s) ==
    s.do # "create" =>
        /\ s.id \in Id /\ R.cache[s.id] # None
        /\ s.do = "open" => R.cache[s.id].opened = None
        /\ s.do = "codes" => R.cache[s.id].codes = None
StepsFit(R) ==
    /\ Len(R.steps) \in 0 .. 2
    /\ Len(R.steps) = 2 => R.steps[1].do = "open" /\ R.steps[2].do = "codes"
    /\ \A k \in 1 .. Len(R.steps) : StepFits(R, R.steps[k])

GoodRun(R) ==
    /\ R \in RunState
    /\ R.todo \subseteq DOMAIN R.doc
    /\ \A i \in R.made : R.cache[i] # None
    /\ StepsFit(R)

RunsGood == run \in [Run -> RunState] /\ \A r \in Run : GoodRun(run[r])
RowsGood == rows \in [Id -> Account \cup {None}]

LEMMA RunMoves ==
    ASSUME RunsGood, NEW r \in Run, NEW X, GoodRun(X), run' = [run EXCEPT ![r] = X]
    PROVE  RunsGood'
  BY DEF RunsGood, GoodRun

LEMMA IdleGood ==
    ASSUME NEW ph \in Phase
    PROVE  GoodRun([Idle EXCEPT !.phase = ph])
  <1> DEFINE X == [Idle EXCEPT !.phase = ph]
  <1>1. X \in RunState
    <2>1. <<>> \in Seq(Declaration) /\ <<>> \in Seq(Step)
      OBVIOUS
    <2>2. NoId \in [Id -> Account \cup {None}] /\ NoId \in [Id -> Rec \cup {None}]
      BY DEF NoId
    <2>3. [p \in Path |-> None] \in [Path -> Id \cup {None}]
      OBVIOUS
    <2> QED
      BY <2>1, <2>2, <2>3 DEF Idle, RunState
  <1>2. X.todo = {} /\ X.made = {} /\ X.steps = <<>>
    BY DEF Idle
  <1> QED
    BY <1>1, <1>2 DEF GoodRun, StepsFit

LEMMA StopsGood ==
    ASSUME RunsGood, NEW r \in Run, NEW ph \in Phase,
           run' = [run EXCEPT ![r] = [Idle EXCEPT !.phase = ph]]
    PROVE  RunsGood'
  BY IdleGood, RunMoves

\* The steps that remain after the first.
LEMMA FirstStep ==
    ASSUME NEW R \in RunState, StepsFit(R), R.steps # <<>>
    PROVE  /\ Head(R.steps) = R.steps[1] /\ Head(R.steps) \in Step /\ StepFits(R, Head(R.steps))
           /\ Tail(R.steps) \in Seq(Step) /\ Len(Tail(R.steps)) \in 0 .. 1
           /\ Head(R.steps).do # "open" => Tail(R.steps) = <<>>
           /\ \A k \in 1 .. Len(Tail(R.steps)) :
                 /\ Tail(R.steps)[k] \in Step /\ Tail(R.steps)[k].do = "codes"
                 /\ StepFits(R, Tail(R.steps)[k])
  <1>1. R.steps \in Seq(Step) /\ R.steps # <<>>
    BY DEF RunState
  <1>2. Len(R.steps) \in 1 .. 2 /\ (Len(R.steps) = 2 => R.steps[1].do = "open" /\ R.steps[2].do = "codes")
        /\ \A k \in 1 .. Len(R.steps) : StepFits(R, R.steps[k])
    <2>1. Len(R.steps) \in 0 .. 2
      BY DEF StepsFit
    <2>2. Len(R.steps) \in 1 .. 2
      BY <1>1, <2>1
    <2> QED
      BY <2>2 DEF StepsFit
  <1>3. Head(R.steps) = R.steps[1] /\ R.steps[1] \in Step
    BY <1>1, <1>2
  <1>4. Tail(R.steps) \in Seq(Step) /\ Len(Tail(R.steps)) = Len(R.steps) - 1
    BY <1>1
  <1>5. \A k \in 1 .. Len(Tail(R.steps)) : k = 1 /\ Tail(R.steps)[k] = R.steps[2] /\ Len(R.steps) = 2 /\ R.steps[2] \in Step
    BY <1>1, <1>2, <1>4
  <1>6. \A k \in 1 .. Len(Tail(R.steps)) :
            Tail(R.steps)[k] \in Step /\ Tail(R.steps)[k].do = "codes" /\ StepFits(R, Tail(R.steps)[k])
    BY <1>2, <1>5
  <1>7. R.steps[1].do # "open" => Tail(R.steps) = <<>>
    BY <1>1, <1>2, <1>4
  <1>8. Head(R.steps) \in Step /\ StepFits(R, Head(R.steps)) /\ Len(Tail(R.steps)) \in 0 .. 1
    BY <1>1, <1>2, <1>3, <1>4
  <1> QED
    BY <1>3, <1>4, <1>6, <1>7, <1>8

LEMMA FewStepsFit ==
    ASSUME NEW X, NEW q, X.steps = q, Len(q) \in 0 .. 1, \A k \in 1 .. Len(q) : StepFits(X, q[k])
    PROVE  StepsFit(X)
  <1>1. Len(q) \in 0 .. 2 /\ Len(q) # 2
    OBVIOUS
  <1> QED
    BY <1>1 DEF StepsFit

LEMMA OneStepFits ==
    ASSUME NEW X, NEW c \in Step, StepFits(X, c), X.steps = <<c>> \/ X.steps = <<>>
    PROVE  X.steps \in Seq(Step) /\ StepsFit(X)
  <1>1. CASE X.steps = <<c>>
    <2>1. <<c>> \in Seq(Step) /\ Len(<<c>>) \in 0 .. 1 /\ \A k \in 1 .. Len(<<c>>) : <<c>>[k] = c
      OBVIOUS
    <2> QED
      BY <1>1, <2>1, FewStepsFit
  <1>2. CASE X.steps = <<>>
    <2>1. <<>> \in Seq(Step) /\ Len(<<>>) \in 0 .. 1 /\ \A k \in 1 .. Len(<<>>) : FALSE
      OBVIOUS
    <2> QED
      BY <1>2, <2>1, FewStepsFit
  <1> QED
    BY <1>1, <1>2

LEMMA TwoSteps ==
    ASSUME NEW o, NEW c
    PROVE  /\ <<o>> \o <<c>> = <<o, c>>
           /\ <<o>> \o <<>> = <<o>> /\ <<>> \o <<c>> = <<c>>
  <1> DEFINE S == {o, c}
  <1>1. /\ <<o>> \in Seq(S) /\ <<c>> \in Seq(S) /\ <<o, c>> \in Seq(S)
        /\ Len(<<o>>) = 1 /\ Len(<<c>>) = 1 /\ Len(<<o, c>>) = 2
    OBVIOUS
  <1>2. \A k \in 1 .. 2 : (<<o>> \o <<c>>)[k] = <<o, c>>[k]
    BY <1>1
  <1>3. <<o>> \o <<c>> \in Seq(S) /\ Len(<<o>> \o <<c>>) = 2
    BY <1>1
  <1>4. <<o>> \o <<c>> = <<o, c>>
    BY <1>1, <1>2, <1>3, SeqEqual
  <1> QED
    BY <1>4

\* A step is over: the copy is C, which still lets the next step stand.
LEMMA StepDone ==
    ASSUME RunsGood, NEW r \in Run, run[r].steps # <<>>,
           NEW C \in [Id -> Account \cup {None}],
           \A i \in Id : run[r].cache[i] # None => C[i] # None /\ C[i].codes = run[r].cache[i].codes,
           NEW O \in [Id -> Rec \cup {None}],
           run' = [run EXCEPT ![r].steps = Tail(@), ![r].cache = C, ![r].owes = O]
    PROVE  RunsGood'
  <1> DEFINE R == run[r]
             X == [R EXCEPT !.steps = Tail(R.steps), !.cache = C, !.owes = O]
  <1>1. R \in RunState /\ GoodRun(R) /\ StepsFit(R)
    BY DEF RunsGood, GoodRun
  <1>2. run' = [run EXCEPT ![r] = X]
    BY DEF RunsGood
  <1>3. X \in RunState /\ X.todo = R.todo /\ X.doc = R.doc /\ X.made = R.made
        /\ X.cache = C /\ X.steps = Tail(R.steps)
    <2>1. Tail(R.steps) \in Seq(Step)
      BY <1>1, FirstStep
    <2> QED
      BY <1>1, <2>1 DEF RunState
  <1>4. StepsFit(X)
    <2>1. ASSUME NEW k \in 1 .. Len(Tail(R.steps))
          PROVE  StepFits(X, Tail(R.steps)[k])
      <3> DEFINE s == Tail(R.steps)[k]
      <3>1. s.do = "codes" /\ StepFits(R, s)
        BY <1>1, <2>1, FirstStep
      <3>2. X.cache = C
        BY <1>3
      <3> HIDE DEF s, X
      <3>3. s.id \in Id /\ R.cache[s.id] # None /\ R.cache[s.id].codes = None
        BY <3>1 DEF StepFits
      <3>4. C[s.id] # None /\ C[s.id].codes = None
        BY <3>3
      <3> QED
        BY <3>1, <3>2, <3>3, <3>4 DEF s, StepFits
    <2>2. Len(Tail(R.steps)) \in 0 .. 1
      BY <1>1, FirstStep
    <2>3. X.steps = Tail(R.steps)
      BY <1>3
    <2> HIDE DEF X
    <2> QED
      BY <2>1, <2>2, <2>3, FewStepsFit, Zenon
  <1>5. \A i \in X.made : X.cache[i] # None
    <2>1. R.made \subseteq Id
      BY <1>1 DEF RunState
    <2> QED
      BY <1>1, <1>3, <2>1 DEF GoodRun
  <1>6. GoodRun(X)
    BY <1>1, <1>3, <1>4, <1>5 DEF GoodRun
  <1> HIDE DEF X
  <1> QED
    BY <1>2, <1>6, RunMoves

LEMMA RefusedGood ==
    ASSUME RunsGood, NEW r \in Run, run[r].steps # <<>>,
           run' = [run EXCEPT ![r].steps = Tail(@)]
    PROVE  RunsGood'
  <1>1. run[r].cache \in [Id -> Account \cup {None}] /\ run[r].owes \in [Id -> Rec \cup {None}]
    BY DEF RunsGood, RunState
  <1>2. run' = [run EXCEPT ![r].steps = Tail(@), ![r].cache = run[r].cache, ![r].owes = run[r].owes]
    BY DEF RunsGood, RunState
  <1> QED
    BY <1>1, <1>2, StepDone

LEMMA LiveIds ==
    ASSUME RowsGood, NEW p, Exists(p)
    PROVE  IdOf(p) \in Id /\ rows[IdOf(p)] # None /\ rows[IdOf(p)].path = p
  BY DEF Exists, IdOf, Live

LEMMA BeginGood ==
    ASSUME RunsGood, RowsGood, NEW r \in Run, NEW doc \in Documents, Begin(r, doc)
    PROVE  RunsGood'
  <1> DEFINE R == run[r]
             K == [p \in Path |-> IF Exists(p) THEN IdOf(p) ELSE None]
             X == [R EXCEPT !.phase = "running", !.doc = doc, !.todo = Applied(doc), !.known = K]
  <1>1. R \in RunState /\ GoodRun(R)
    BY DEF RunsGood
  <1>2. run' = [run EXCEPT ![r] = X]
    BY DEF RunsGood, Begin
  <1>3. K \in [Path -> Id \cup {None}]
    BY LiveIds
  <1>4. doc \in Seq(Declaration) /\ Applied(doc) \subseteq DOMAIN doc /\ Applied(doc) \subseteq Nat
    <2>1. doc \in Seq(Declaration)
      BY DeclarationsAssumption
    <2> QED
      BY <2>1 DEF Applied
  <1> HIDE DEF K
  <1>5. X \in RunState /\ X.todo = Applied(doc) /\ X.doc = doc /\ X.made = R.made
        /\ X.cache = R.cache /\ X.steps = R.steps
    BY <1>1, <1>3, <1>4 DEF RunState, Phase
  <1> HIDE DEF X
  <1>6. StepsFit(X)
    BY <1>1, <1>5 DEF GoodRun, StepsFit, StepFits
  <1> QED
    BY <1>1, <1>2, <1>4, <1>5, <1>6, RunMoves DEF GoodRun

\* What a run has of an account is an account.
LEMMA StoredAccount ==
    ASSUME RunsGood, RowsGood, NEW r \in Run, NEW i \in Id
    PROVE  /\ Stored(r, i) \in Account \cup {None}
           /\ run[r].cache[i] # None => Stored(r, i) = run[r].cache[i]
  BY DEF Stored, RunsGood, RunState, RowsGood

LEMMA ReadGood ==
    ASSUME RunsGood, RowsGood, NEW r \in Run, NEW S
    PROVE  /\ Read(r, S) \in [Id -> Account \cup {None}]
           /\ \A i \in Id : run[r].cache[i] # None => Read(r, S)[i] = run[r].cache[i]
           /\ \A i \in Id \cap S : Read(r, S)[i] = Stored(r, i)
  <1>1. run[r].cache \in [Id -> Account \cup {None}]
    BY DEF RunsGood, RunState
  <1> QED
    BY <1>1, StoredAccount DEF Read

\* The accounts a declaration reads.
LEMMA PrefixPath ==
    ASSUME NEW p \in Path
    PROVE  Len(p) \in Nat /\ \A k \in 1 .. Len(p) : Prefix(p, k) \in Path
  BY DeclarationsAssumption

LEMMA KnownIds ==
    ASSUME RunsGood, NEW r \in Run, NEW p \in Path, NEW n \in 0 .. Len(p), Resolves(r, p, n)
    PROVE  \A k \in 1 .. n : KnownId(r, p, k) \in Id
  <1>1. \A k \in 1 .. n : k \in 1 .. Len(p)
    BY PrefixPath
  <1> QED
    BY <1>1, PrefixPath DEF RunsGood, RunState, Resolves, KnownId

LEMMA ReadIds ==
    ASSUME RunsGood, NEW r \in Run, NEW d \in Declaration, NEW n \in 0 .. Len(d.path),
           Resolves(r, d.path, n)
    PROVE  ReadFor(r, d, n) \subseteq Id
  <1>1. d.path \in Path
    BY DEF Declaration
  <1>2. run[r].known[d.path] \in Id \cup {None}
    BY <1>1 DEF RunsGood, RunState
  <1>3. n # 0 => KnownId(r, d.path, 1) \in Id /\ KnownId(r, d.path, n) \in Id
    BY <1>1, KnownIds, PrefixPath
  <1> QED
    BY <1>2, <1>3 DEF ReadFor

\* Deciding a declaration yields no step, one, or an opening and its commodities.
LEMMA PlanOpenFits ==
    ASSUME NEW acct \in Account, NEW d \in Declaration, NEW i \in Id, NEW X,
           X.steps = PlanOpen(acct, d, i), X.cache[i] = acct, acct # None
    PROVE  PlanOpen(acct, d, i) \in Seq(Step) /\ StepsFit(X)
  <1> DEFINE o == StepFor("open", d, i)
             c == StepFor("codes", d, i)
  <1>1. o \in Step /\ o.do = "open" /\ o.id = i /\ c \in Step /\ c.do = "codes" /\ c.id = i
    BY DEF StepFor, Step, Declaration
  <1> HIDE DEF o, c
  <1>2. PlanOpen(acct, d, i) = (IF acct.opened = None THEN <<o>> ELSE <<>>)
                               \o (IF d.codes # None /\ acct.codes = None THEN <<c>> ELSE <<>>)
    BY DEF PlanOpen, o, c
  <1>3. CASE acct.opened = None /\ d.codes # None /\ acct.codes = None
    <2>1. PlanOpen(acct, d, i) = <<o>> \o <<c>>
      BY <1>2, <1>3
    <2>2. PlanOpen(acct, d, i) = <<o, c>>
      BY <2>1, TwoSteps
    <2>3. <<o, c>> \in Seq(Step)
      BY <1>1
    <2>4. StepFits(X, o) /\ StepFits(X, c)
      BY <1>1, <1>3 DEF StepFits
    <2> QED
      BY <1>1, <2>2, <2>3, <2>4 DEF StepsFit
  <1>4. CASE acct.opened = None /\ ~ (d.codes # None /\ acct.codes = None)
    <2>1. PlanOpen(acct, d, i) = <<o>> \o <<>>
      BY <1>2, <1>4
    <2>2. StepFits(X, o)
      BY <1>1, <1>4 DEF StepFits
    <2> QED
      BY <1>1, <2>1, <2>2, TwoSteps, OneStepFits
  <1>5. CASE acct.opened # None /\ d.codes # None /\ acct.codes = None
    <2>1. PlanOpen(acct, d, i) = <<>> \o <<c>>
      BY <1>2, <1>5
    <2>2. StepFits(X, c)
      BY <1>1, <1>5 DEF StepFits
    <2> QED
      BY <1>1, <2>1, <2>2, TwoSteps, OneStepFits
  <1>6. CASE acct.opened # None /\ ~ (d.codes # None /\ acct.codes = None)
    <2>1. PlanOpen(acct, d, i) = <<>>
      BY <1>2, <1>6
    <2> QED
      BY <2>1 DEF StepsFit
  <1> QED
    BY <1>3, <1>4, <1>5, <1>6

LEMMA DecideGood ==
    ASSUME RunsGood, RowsGood, NEW r \in Run, NEW k \in run[r].todo, Decide(r, k)
    PROVE  RunsGood'
  <1> DEFINE R == run[r]
             d == run[r].doc[k]
  <1>1. R \in RunState /\ GoodRun(R)
    BY DEF RunsGood
  <1>2. d \in Declaration
    BY <1>1 DEF GoodRun, RunState
  <1>3. PICK n \in 0 .. Len(d.path) :
             /\ Resolves(r, d.path, n)
             /\ \A i \in ReadFor(r, d, n) : Stored(r, i) # None
             /\ run' = [run EXCEPT ![r].todo = run[r].todo \ {k},
                                   ![r].cache = Read(r, ReadFor(r, d, n)),
                                   ![r].steps = StepsFor(r, d, n)]
    BY DEF Decide
  <1> DEFINE X == [R EXCEPT !.todo = R.todo \ {k}, !.cache = Read(r, ReadFor(r, d, n)),
                            !.steps = StepsFor(r, d, n)]
  <1>4. run' = [run EXCEPT ![r] = X]
    BY <1>3 DEF RunsGood
  <1>5. /\ Read(r, ReadFor(r, d, n)) \in [Id -> Account \cup {None}]
        /\ \A i \in Id : R.cache[i] # None => Read(r, ReadFor(r, d, n))[i] # None
    BY ReadGood
  <1>6. /\ X.doc = R.doc /\ X.todo = R.todo \ {k} /\ X.made = R.made
        /\ X.cache = Read(r, ReadFor(r, d, n)) /\ X.steps = StepsFor(r, d, n)
    BY <1>1 DEF RunState
  <1>7. StepsFor(r, d, n) \in Seq(Step) => X \in RunState
    BY <1>1, <1>5 DEF RunState
  <1>8. ReadFor(r, d, n) \subseteq Id
    BY <1>2, <1>3, ReadIds
  <1> HIDE DEF X, d
  <1>9. StepsFor(r, d, n) \in Seq(Step) /\ StepsFit(X)
    <2>1. CASE R.known[d.path] # None
      <3> DEFINE i == R.known[d.path]
      <3>1. ReadFor(r, d, n) = {i} /\ i \in Id
        BY <1>8, <2>1 DEF ReadFor
      <3>2. Stored(r, i) \in Account /\ Stored(r, i) # None /\ X.cache[i] = Stored(r, i)
        BY <1>3, <1>6, <3>1, StoredAccount, ReadGood
      <3>3. StepsFor(r, d, n) = IF d.kind = "open" THEN PlanOpen(Stored(r, i), d, i)
                                ELSE PlanClose(Stored(r, i), d, i)
        BY <2>1 DEF StepsFor
      <3> HIDE DEF i
      <3>4. CASE d.kind = "open"
        BY <1>2, <1>6, <3>1, <3>2, <3>3, <3>4, PlanOpenFits
      <3>5. CASE d.kind # "open"
        <4>1. X.steps = PlanClose(Stored(r, i), d, i)
          BY <1>6, <3>3, <3>5
        <4> DEFINE c == StepFor("close", d, i)
        <4>2. c \in Step /\ c.do = "close" /\ c.id = i
          BY <1>2, <3>1 DEF StepFor, Step, Declaration
        <4>3. StepFits(X, c)
          BY <3>1, <3>2, <4>2 DEF StepFits
        <4> HIDE DEF c
        <4>4. X.steps = <<c>> \/ X.steps = <<>>
          BY <4>1 DEF PlanClose, c
        <4> QED
          BY <1>6, <4>2, <4>3, <4>4, OneStepFits
      <3> QED
        BY <3>4, <3>5
    <2>2. CASE R.known[d.path] = None
      <3> DEFINE c == StepFor("create", d, None)
      <3>1. c \in Step /\ c.do = "create"
        BY <1>2 DEF StepFor, Step, Declaration
      <3>2. StepFits(X, c)
        BY <3>1 DEF StepFits
      <3> HIDE DEF c
      <3>3. X.steps = <<c>> \/ X.steps = <<>>
        BY <1>6, <2>2 DEF StepsFor, c
      <3> QED
        BY <1>6, <3>1, <3>2, <3>3, OneStepFits
    <2> QED
      BY <2>1, <2>2
  <1>10. GoodRun(X)
    <2>1. R.made \subseteq Id
      BY <1>1 DEF RunState
    <2> QED
      BY <1>1, <1>5, <1>6, <1>7, <1>9, <2>1 DEF GoodRun
  <1> QED
    BY <1>4, <1>10, RunMoves

\* The step a run is at.
LEMMA AtStep ==
    ASSUME RunsGood, NEW r \in Run, NEW do, Writing(r, do)
    PROVE  /\ run[r].steps # <<>> /\ Head(run[r].steps) \in Step /\ Head(run[r].steps).do = do
           /\ do # "create" =>
                /\ Head(run[r].steps).id \in Id /\ run[r].cache[Head(run[r].steps).id] # None
                /\ do = "open" => run[r].cache[Head(run[r].steps).id].opened = None
                /\ do = "codes" => run[r].cache[Head(run[r].steps).id].codes = None
  <1>1. run[r] \in RunState /\ StepsFit(run[r]) /\ run[r].steps # <<>> /\ Head(run[r].steps).do = do
    BY DEF RunsGood, GoodRun, Writing
  <1>2. Head(run[r].steps) \in Step /\ StepFits(run[r], Head(run[r].steps))
    BY <1>1, FirstStep
  <1> QED
    BY <1>1, <1>2 DEF StepFits

LEMMA RecTypes ==
    ASSUME NEW on \in Date \cup {None}, NEW c \in Codes \cup {None}, NEW b \in BOOLEAN
    PROVE  /\ [Nothing EXCEPT !.opened = on] \in Rec /\ [Nothing EXCEPT !.closed = on] \in Rec
           /\ [Nothing EXCEPT !.codes = c] \in Rec /\ [Nothing EXCEPT !.created = b] \in Rec
           /\ [Nothing EXCEPT !.opened = on].created = FALSE
           /\ [Nothing EXCEPT !.closed = on].created = FALSE
           /\ [Nothing EXCEPT !.codes = c].created = FALSE
           /\ [Nothing EXCEPT !.created = b].created = b
  BY DEF Nothing, Rec

LEMMA OwesOne ==
    ASSUME NEW i \in Id, NEW rec \in Rec
    PROVE  [NoId EXCEPT ![i] = rec] \in [Id -> Rec \cup {None}]
  BY DEF NoId

\* Writing a date or a list in an account leaves an account.
LEMMA AccountCopies ==
    ASSUME NEW a \in Account, NEW on \in Date \cup {None}, NEW c \in Codes \cup {None}
    PROVE  /\ [a EXCEPT !.opened = on] \in Account /\ [a EXCEPT !.opened = on].codes = a.codes
           /\ [a EXCEPT !.closed = on] \in Account /\ [a EXCEPT !.closed = on].codes = a.codes
           /\ [a EXCEPT !.codes = c] \in Account /\ [a EXCEPT !.codes = c].codes = c
           /\ a.codes \in Codes \cup {None}
  BY DEF Account

LEMMA CopyGood ==
    ASSUME NEW B \in [Id -> Account \cup {None}], NEW i \in Id, NEW a \in Account,
           a.codes = B[i].codes
    PROVE  /\ [B EXCEPT ![i] = a] \in [Id -> Account \cup {None}]
           /\ \A j \in Id : B[j] # None =>
                 [B EXCEPT ![i] = a][j] # None /\ [B EXCEPT ![i] = a][j].codes = B[j].codes
  BY DeclarationsAssumption

LEMMA SetOpenedOnGood ==
    ASSUME RunsGood, RowsGood, NEW r \in Run, SetOpenedOn(r)
    PROVE  RunsGood'
  <1> DEFINE s == Head(run[r].steps)
             a == [run[r].cache[s.id] EXCEPT !.opened = s.date]
             C == [run[r].cache EXCEPT ![s.id] = a]
             O == [NoId EXCEPT ![s.id] = [Nothing EXCEPT !.opened = s.date]]
  <1>1. /\ run[r].steps # <<>> /\ s \in Step /\ s.id \in Id /\ run[r].cache[s.id] # None
        /\ s.date \in Date
    BY AtStep DEF SetOpenedOn, Step
  <1>2. CASE run' = [run EXCEPT ![r].steps = Tail(@), ![r].cache = C, ![r].owes = O]
    <2>1. run[r].cache \in [Id -> Account \cup {None}]
      BY DEF RunsGood, RunState
    <2>2. run[r].cache[s.id] \in Account
      BY <1>1, <2>1
    <2>3. C \in [Id -> Account \cup {None}]
          /\ \A i \in Id : run[r].cache[i] # None => C[i] # None /\ C[i].codes = run[r].cache[i].codes
      <3>1. a \in Account /\ a.codes = run[r].cache[s.id].codes
        BY <1>1, <2>2, AccountCopies
      <3> HIDE DEF a
      <3> QED
        BY <1>1, <2>1, <3>1, CopyGood
    <2>4. O \in [Id -> Rec \cup {None}]
      BY <1>1, RecTypes, OwesOne
    <2> HIDE DEF C, O
    <2> QED
      BY <1>1, <1>2, <2>3, <2>4, StepDone
  <1>3. CASE Refused(r)
    BY <1>1, <1>3, RefusedGood DEF Refused
  <1> QED
    BY <1>2, <1>3 DEF SetOpenedOn, Wrote

LEMMA SetCommoditiesGood ==
    ASSUME RunsGood, RowsGood, NEW r \in Run, SetCommodities(r)
    PROVE  RunsGood'
  <1> DEFINE s == Head(run[r].steps)
             a == [run[r].cache[s.id] EXCEPT !.codes = Stored(r, s.id).codes]
             C == [run[r].cache EXCEPT ![s.id] = a]
             O == [NoId EXCEPT ![s.id] = [Nothing EXCEPT !.codes = s.codes]]
  <1>1. /\ run[r].steps # <<>> /\ s \in Step /\ s.id \in Id /\ run[r].cache[s.id] # None
        /\ s.codes \in Codes \cup {None}
    BY AtStep DEF SetCommodities, Step
  <1>2. CASE run' = [run EXCEPT ![r].steps = Tail(@), ![r].cache = C, ![r].owes = O]
    <2>1. run[r].cache \in [Id -> Account \cup {None}]
      BY DEF RunsGood, RunState
    <2>2. run[r].cache[s.id] \in Account /\ Stored(r, s.id) = run[r].cache[s.id]
      BY <1>1, <2>1 DEF Stored
    <2>3. C \in [Id -> Account \cup {None}]
          /\ \A i \in Id : run[r].cache[i] # None => C[i] # None /\ C[i].codes = run[r].cache[i].codes
      <3> DEFINE b == run[r].cache[s.id]
                 c == Stored(r, s.id).codes
      <3>1. b \in Account /\ c = b.codes /\ c \in Codes \cup {None}
        BY <2>2 DEF Account
      <3> HIDE DEF b, c
      <3>2. [b EXCEPT !.codes = c] \in Account /\ [b EXCEPT !.codes = c].codes = c
        BY <3>1 DEF Account
      <3>3. a \in Account /\ a.codes = run[r].cache[s.id].codes
        BY <3>1, <3>2 DEF b, c
      <3> HIDE DEF a
      <3> QED
        BY <1>1, <2>1, <3>3, CopyGood
    <2>4. O \in [Id -> Rec \cup {None}]
      BY <1>1, RecTypes, OwesOne
    <2> HIDE DEF C, O
    <2> QED
      BY <1>1, <1>2, <2>3, <2>4, StepDone
  <1>3. CASE Refused(r)
    BY <1>1, <1>3, RefusedGood DEF Refused
  <1> QED
    BY <1>2, <1>3 DEF SetCommodities, Wrote

LEMMA CloseGood ==
    ASSUME RunsGood, RowsGood, NEW r \in Run, Close(r)
    PROVE  RunsGood'
  <1> DEFINE s == Head(run[r].steps)
             B == Read(r, RunBelow(r, s.id))
             a == [B[s.id] EXCEPT !.closed = s.date]
             C == [B EXCEPT ![s.id] = a]
             O == [NoId EXCEPT ![s.id] = [Nothing EXCEPT !.closed = s.date]]
  <1>1. /\ run[r].steps # <<>> /\ s \in Step /\ s.id \in Id /\ run[r].cache[s.id] # None
        /\ s.date \in Date
    <2>1. Writing(r, "close")
      BY DEF Close
    <2> QED
      BY <2>1, AtStep DEF Step
  <1>2. B \in [Id -> Account \cup {None}]
        /\ \A i \in Id : run[r].cache[i] # None => B[i] = run[r].cache[i]
    BY ReadGood
  <1> HIDE DEF B
  <1>3. CASE run' = [run EXCEPT ![r].steps = Tail(@), ![r].cache = C, ![r].owes = O]
    <2>1. B[s.id] \in Account
      BY <1>1, <1>2
    <2>2. C \in [Id -> Account \cup {None}]
          /\ \A i \in Id : run[r].cache[i] # None => C[i] # None /\ C[i].codes = run[r].cache[i].codes
      <3>1. a \in Account /\ a.codes = B[s.id].codes
        BY <1>1, <2>1, AccountCopies
      <3>2. \A i \in Id : run[r].cache[i] # None => B[i] # None /\ B[i].codes = run[r].cache[i].codes
        BY <1>2
      <3> HIDE DEF a
      <3>3. C \in [Id -> Account \cup {None}]
            /\ \A i \in Id : B[i] # None => C[i] # None /\ C[i].codes = B[i].codes
        BY <1>1, <1>2, <3>1, CopyGood
      <3> QED
        BY <3>2, <3>3
    <2>3. O \in [Id -> Rec \cup {None}]
      BY <1>1, RecTypes, OwesOne
    <2> HIDE DEF C, O
    <2> QED
      BY <1>1, <1>3, <2>2, <2>3, StepDone
  <1>4. CASE run' = [run EXCEPT ![r].steps = Tail(@), ![r].cache = B]
    <2>1. run[r].owes \in [Id -> Rec \cup {None}]
      BY DEF RunsGood, RunState
    <2>2. run' = [run EXCEPT ![r].steps = Tail(@), ![r].cache = B, ![r].owes = run[r].owes]
      BY <1>4 DEF RunsGood, RunState
    <2> QED
      BY <1>1, <1>2, <2>1, <2>2, StepDone
  <1> QED
    BY <1>3, <1>4 DEF Close, B

LEMMA RecordGood ==
    ASSUME RunsGood, NEW r \in Run, Record(r)
    PROVE  RunsGood'
  <1>1. CASE run' = [run EXCEPT ![r].owes = NoId]
    <2> DEFINE X == [run[r] EXCEPT !.owes = NoId]
    <2>1. run' = [run EXCEPT ![r] = X]
      BY <1>1 DEF RunsGood
    <2>2. NoId \in [Id -> Rec \cup {None}]
      BY DEF NoId
    <2>3. X \in RunState /\ X.todo = run[r].todo /\ X.doc = run[r].doc /\ X.made = run[r].made
          /\ X.cache = run[r].cache /\ X.steps = run[r].steps
      BY <2>2 DEF RunsGood, RunState
    <2> HIDE DEF X
    <2>4. GoodRun(run[r])
      BY DEF RunsGood
    <2>5. \A s : StepFits(run[r], s) => StepFits(X, s)
      BY <2>3 DEF StepFits
    <2>6. StepsFit(X)
      BY <2>3, <2>4, <2>5 DEF StepsFit, GoodRun
    <2>7. GoodRun(X)
      BY <2>3, <2>4, <2>6 DEF GoodRun
    <2> QED
      BY <2>1, <2>7, RunMoves
  <1>2. CASE run' = [run EXCEPT ![r] = [Idle EXCEPT !.phase = "stopped"]]
    BY <1>2, StopsGood DEF Phase
  <1> QED
    BY <1>1, <1>2 DEF Record

-----------------------------------------------------------------------------
(* Creating the accounts of a path.                                        *)

\* Minted ids are fresh ones, each given once.
LEMMA MintedIds ==
    ASSUME NEW n \in Nat, CanMint(n)
    PROVE  /\ Minted(n) \in [1 .. n -> Fresh]
           /\ \A j, k \in 1 .. n : Minted(n)[j] = Minted(n)[k] => j = k
  BY DEF CanMint, Minted, ExistsInjection, Injection, IsInjective

LEMMA Places ==
    ASSUME NEW m \in Nat, NEW minted \in [1 .. m -> Fresh],
           \A j, k \in 1 .. m : minted[j] = minted[k] => j = k
    PROVE  /\ Range(minted) \subseteq Fresh
           /\ \A i \in Range(minted) : Place(minted, i) \in 1 .. m /\ minted[Place(minted, i)] = i
           /\ \A k \in 1 .. m : minted[k] \in Range(minted) /\ Place(minted, minted[k]) = k
  BY DEF Range, Place

LEMMA FreshIds == Fresh \subseteq Id /\ \A i \in Fresh : rows[i] = None
  BY DEF Fresh

LEMMA PrefixLen ==
    ASSUME NEW p \in Path, NEW k \in 1 .. Len(p)
    PROVE  Len(Prefix(p, k)) = k
  <1>1. p \in Seq(Name)
    BY DeclarationsAssumption
  <1> QED
    BY <1>1 DEF Prefix

LEMMA NewAccountType ==
    ASSUME NEW s, s.path \in Path, s.date \in Date \cup {None}, s.codes \in Codes \cup {None},
           NEW parent \in Id \cup {None}, NEW k \in 1 .. Len(s.path)
    PROVE  /\ NewAccount(s, parent, k) \in Account
           /\ NewAccount(s, parent, k).parent = parent /\ NewAccount(s, parent, k).closed = None
           /\ NewAccount(s, parent, k).edited = "never" /\ NewAccount(s, parent, k).used = FALSE
  <1>1. Prefix(s.path, k) \in Path
    BY PrefixPath
  <1> QED
    BY <1>1 DEF NewAccount, Account

\* The rows create_paths inserts: nobody's before, open, and under an open account,
\* another of them, or none.
NewUnder(R, S, i) ==
    /\ R[i] \in Account /\ R[i].closed = None /\ R[i].edited = "never" /\ R[i].used = FALSE
    /\ \/ R[i].parent = None
       \/ R[i].parent \in S
       \/ R[i].parent \in Live /\ rows[R[i].parent].closed = None
CreatedIn(R, S) ==
    /\ R \in [Id -> Account \cup {None}] /\ S \subseteq Fresh
    /\ \A i \in Id \ S : R[i] = rows[i]
    /\ \A i \in S : NewUnder(R, S, i)

LEMMA NewRows ==
    ASSUME RowsGood, NEW s, s.path \in Path, s.date \in Date \cup {None},
           s.codes \in Codes \cup {None},
           NEW have \in 0 .. Len(s.path), Reuses(s.path, have), MayCreate(s, have),
           CanMint(Len(s.path) - have)
    PROVE  CreatedIn(CreateRows(s, have, Minted(Len(s.path) - have)),
                     Range(Minted(Len(s.path) - have)))
  <1> DEFINE m == Len(s.path) - have
             minted == Minted(m)
             top == IF have = 0 THEN None ELSE IdOf(Prefix(s.path, have))
             Parent(k) == IF k > 1 THEN minted[k - 1] ELSE top
             R == CreateRows(s, have, minted)
  <1>1. Len(s.path) \in Nat /\ m \in Nat
    BY PrefixPath
  <1>2. minted \in [1 .. m -> Fresh] /\ \A j, k \in 1 .. m : minted[j] = minted[k] => j = k
    BY <1>1, MintedIds
  <1>3. m > 0 => top = None \/ (top \in Live /\ rows[top].closed = None)
    <2>1. SUFFICES ASSUME m > 0, have # 0
                   PROVE  top \in Live /\ rows[top].closed = None
      OBVIOUS
    <2>2. Exists(Prefix(s.path, have))
      BY <1>1, <2>1 DEF Reuses
    <2>3. top \in Id /\ rows[top] # None
      BY <2>1, <2>2, LiveIds
    <2>4. rows[IdOf(Prefix(s.path, have))].closed = None
      BY <1>1, <2>1 DEF MayCreate
    <2> QED
      BY <2>1, <2>3, <2>4 DEF Live
  <1>4. R = [i \in Id |-> IF i \in Range(minted)
                          THEN NewAccount(s, Parent(Place(minted, i)), have + Place(minted, i))
                          ELSE rows[i]]
    BY DEF CreateRows
  <1> HIDE DEF m, minted, top, R
  <1>5. ASSUME NEW i \in Range(minted)
        PROVE  NewUnder(R, Range(minted), i)
    <2> DEFINE k == Place(minted, i)
    <2>1. k \in 1 .. m /\ i \in Id
      BY <1>1, <1>2, Places, FreshIds
    <2>2. have + k \in 1 .. Len(s.path)
      BY <1>1, <2>1 DEF m
    <2>3. \/ Parent(k) \in Range(minted) /\ Parent(k) \in Id
          \/ Parent(k) = None
          \/ Parent(k) \in Live /\ rows[Parent(k)].closed = None
      <3>1. CASE k > 1
        <4>1. k - 1 \in 1 .. m
          BY <1>1, <2>1, <3>1
        <4>2. minted[k - 1] \in Range(minted)
          BY <1>1, <1>2, <4>1, Places
        <4>3. minted[k - 1] \in Id
          BY <1>1, <1>2, <4>1, FreshIds
        <4> QED
          BY <3>1, <4>2, <4>3
      <3>2. CASE k = 1
        BY <1>1, <1>3, <2>1, <3>2
      <3> QED
        BY <2>1, <3>1, <3>2
    <2>4. Parent(k) \in Id \cup {None}
      BY <2>3 DEF Live
    <2>5. R[i] = NewAccount(s, Parent(k), have + k)
      BY <1>4, <2>1
    <2> DEFINE q == Parent(k)
               n == have + k
    <2>6. R[i] = NewAccount(s, q, n) /\ q \in Id \cup {None} /\ n \in 1 .. Len(s.path)
      BY <2>2, <2>4, <2>5
    <2>7. q \in Range(minted) \/ q = None \/ (q \in Live /\ rows[q].closed = None)
      BY <2>3
    <2> HIDE DEF q, n
    <2>8. R[i] \in Account /\ R[i].parent = q /\ R[i].closed = None /\ R[i].edited = "never"
          /\ R[i].used = FALSE
      <3> DEFINE a == NewAccount(s, q, n)
      <3>1. a \in Account /\ a.parent = q /\ a.closed = None /\ a.edited = "never" /\ a.used = FALSE
        <4>1. q \in Id \cup {None} /\ n \in 1 .. Len(s.path)
          BY <2>6
        <4>2. Prefix(s.path, n) \in Path
          BY <4>1, PrefixPath
        <4> QED
          BY <4>1, <4>2 DEF NewAccount, Account
      <3>2. R[i] = a
        BY <2>6
      <3> HIDE DEF a
      <3> QED
        BY <3>1, <3>2
    <2> QED
      BY <2>7, <2>8 DEF NewUnder
  <1>6. Range(minted) \subseteq Fresh
    BY <1>1, <1>2, Places
  <1>7. \A i \in Id \ Range(minted) : R[i] = rows[i]
    BY <1>4
  <1>8. R \in [Id -> Account \cup {None}]
    <2>1. \A i \in Id : R[i] \in Account \cup {None}
      BY <1>5, <1>7 DEF NewUnder, RowsGood
    <2>2. R = [i \in Id |-> R[i]]
      BY <1>4
    <2> QED
      BY <2>1, <2>2
  <1>9. CreatedIn(R, Range(minted))
    BY <1>5, <1>6, <1>7, <1>8 DEF CreatedIn
  <1> QED
    BY <1>9 DEF R, minted, m

\* The ids a run takes the segments to have.
GoodIds(ids, p, knew, minted) ==
    /\ DOMAIN ids \subseteq 1 .. Len(p)
    /\ \A k \in DOMAIN ids :
          /\ ids[k] \in Id
          /\ k > 1 => k - 1 \in DOMAIN ids
          /\ k > knew => ids[k] \in Range(minted)

LEMMA AssumedIds ==
    ASSUME RunsGood, NEW r \in Run, NEW p \in Path, NEW knew \in 0 .. Len(p), Resolves(r, p, knew),
           NEW m \in Nat, NEW minted \in [1 .. m -> Fresh]
    PROVE  GoodIds(Assumed(r, p, knew, minted), p, knew, minted)
  <1> DEFINE D == {k \in 1 .. Len(p) : k <= knew \/ k - knew \in 1 .. m}
             ids == Assumed(r, p, knew, minted)
  <1>1. ids = [k \in D |-> IF k <= knew THEN KnownId(r, p, k) ELSE minted[k - knew]]
    BY DEF Assumed
  <1>2. Len(p) \in Nat
    BY PrefixPath
  <1>3. \A k \in 1 .. knew : KnownId(r, p, k) \in Id
    BY KnownIds
  <1>4. \A k \in 1 .. m : minted[k] \in Id /\ minted[k] \in Range(minted)
    BY FreshIds DEF Range
  <1>5. ASSUME NEW k \in D
        PROVE  /\ ids[k] \in Id
               /\ k > 1 => k - 1 \in D
               /\ k > knew => ids[k] \in Range(minted)
    <2>1. CASE k <= knew
      <3>1. ids[k] = KnownId(r, p, k) /\ k \in 1 .. knew
        BY <1>1, <1>2, <2>1
      <3> QED
        BY <1>2, <1>3, <2>1, <3>1
    <2>2. CASE k > knew
      <3>1. ids[k] = minted[k - knew] /\ k - knew \in 1 .. m
        BY <1>1, <1>2, <2>2
      <3>2. k > 1 => k - 1 \in D
        BY <1>2, <2>2
      <3> QED
        BY <1>4, <3>1, <3>2
    <2> QED
      BY <1>2, <2>1, <2>2
  <1> HIDE DEF ids
  <1>6. DOMAIN ids = D
    BY <1>1
  <1> QED
    BY <1>5, <1>6 DEF ids, GoodIds

LEMMA CopyType ==
    ASSUME NEW s, s.path \in Path, s.date \in Date \cup {None}, s.codes \in Codes \cup {None},
           NEW ids, NEW knew \in 0 .. Len(s.path), NEW minted, GoodIds(ids, s.path, knew, minted),
           NEW i \in NewAmong(ids, knew)
    PROVE  i \in Id /\ i \in Range(minted) /\ CopyOf(s, ids, i) \in Account
  <1> DEFINE k == Place(ids, i)
             q == IF k = 1 THEN None ELSE ids[k - 1]
  <1>1. PICK n \in DOMAIN ids \ 1 .. knew : i = ids[n]
    BY DEF NewAmong
  <1>2. k \in DOMAIN ids /\ ids[k] = i
    BY <1>1 DEF Place
  <1>3. Len(s.path) \in Nat
    BY PrefixPath
  <1>4. n > knew
    BY <1>1, <1>3 DEF GoodIds
  <1>5. i \in Id /\ i \in Range(minted)
    BY <1>1, <1>4 DEF GoodIds
  <1>6. CopyOf(s, ids, i) = NewAccount(s, q, k)
    BY DEF CopyOf
  <1> HIDE DEF k
  <1>7. k \in 1 .. Len(s.path) /\ q \in Id \cup {None}
    BY <1>2, <1>3 DEF GoodIds
  <1> HIDE DEF q
  <1> QED
    BY <1>5, <1>6, <1>7, NewAccountType

LEMMA LearnedType ==
    ASSUME RunsGood, NEW r \in Run, NEW s, s.path \in Path, NEW ids, NEW knew, NEW minted,
           GoodIds(ids, s.path, knew, minted)
    PROVE  Learned(r, s, ids) \in [Path -> Id \cup {None}]
  <1>1. ASSUME NEW p \in Path, NEW k \in DOMAIN ids, p = Prefix(s.path, k)
        PROVE  ids[Len(p)] \in Id
    <2>1. Len(p) = k
      BY <1>1, PrefixLen DEF GoodIds
    <2> QED
      BY <2>1 DEF GoodIds
  <1>2. \A p \in Path : run[r].known[p] \in Id \cup {None}
    BY DEF RunsGood, RunState
  <1> QED
    BY <1>1, <1>2 DEF Learned

LEMMA CreateAsGood ==
    ASSUME RunsGood, NEW r \in Run, Writing(r, "create"),
           NEW s, s = Head(run[r].steps), NEW knew \in 0 .. Len(s.path),
           NEW minted, NEW ids, GoodIds(ids, s.path, knew, minted),
           CreateAs(r, s, minted, ids, NewAmong(ids, knew))
    PROVE  RunsGood'
  <1> DEFINE made == NewAmong(ids, knew)
             C == [i \in Id |-> IF i \in made THEN CopyOf(s, ids, i) ELSE run[r].cache[i]]
             K == Learned(r, s, ids)
             O == [i \in Id |-> IF i \in Range(minted) THEN [Nothing EXCEPT !.created = TRUE] ELSE None]
             M == run[r].made \cup made
             X == [run[r] EXCEPT !.steps = Tail(run[r].steps), !.cache = C,
                                 !.made = M, !.known = K, !.owes = O]
  <1>1. run[r].steps # <<>> /\ s \in Step
    BY AtStep
  <1>2. s.path \in Path /\ s.date \in Date \cup {None} /\ s.codes \in Codes \cup {None}
    BY <1>1 DEF Step
  <1>3. run[r] \in RunState /\ GoodRun(run[r])
    BY DEF RunsGood
  <1>4. run' = [run EXCEPT ![r] = X]
    BY DEF RunsGood, CreateAs
  <1> HIDE DEF made
  <1>5. \A i \in made : i \in Id /\ CopyOf(s, ids, i) \in Account
    BY <1>2, CopyType DEF made
  <1>6. C \in [Id -> Account \cup {None}]
         /\ \A i \in Id : C[i] = IF i \in made THEN CopyOf(s, ids, i) ELSE run[r].cache[i]
    <2>1. \A i \in Id : run[r].cache[i] \in Account \cup {None}
      BY <1>3 DEF RunState
    <2> QED
      BY <1>5, <2>1
  <1>7. K \in [Path -> Id \cup {None}]
    BY <1>2, LearnedType
  <1>8. O \in [Id -> Rec \cup {None}]
    <2>1. [Nothing EXCEPT !.created = TRUE] \in Rec
      BY RecTypes
    <2> QED
      BY <2>1
  <1>9. Tail(run[r].steps) = <<>> /\ <<>> \in Seq(Step)
    <2>1. Head(run[r].steps).do = "create" /\ StepsFit(run[r])
      BY <1>3 DEF Writing, GoodRun
    <2> QED
      BY <1>1, <1>3, <2>1, FirstStep
  <1>10. run[r].made \subseteq Id /\ M \subseteq Id
    BY <1>3, <1>5 DEF RunState
  <1> HIDE DEF C, K, O, M
  <1>11. X \in RunState /\ X.todo = run[r].todo /\ X.doc = run[r].doc /\ X.cache = C
         /\ X.made = M /\ X.steps = <<>>
    BY <1>3, <1>6, <1>7, <1>8, <1>9, <1>10 DEF RunState
  <1> HIDE DEF X
  <1>12. \A i \in X.made : X.cache[i] # None
    <2>1. \A i \in made : CopyOf(s, ids, i) # None
      BY <1>5, DeclarationsAssumption
    <2>2. \A i \in run[r].made : run[r].cache[i] # None
      BY <1>3 DEF GoodRun
    <2> QED
      BY <1>5, <1>6, <1>10, <1>11, <2>1, <2>2 DEF M
  <1>13. StepsFit(X)
    BY <1>11 DEF StepsFit
  <1>14. GoodRun(X)
    BY <1>3, <1>11, <1>12, <1>13 DEF GoodRun
  <1> QED
    BY <1>4, <1>14, RunMoves

\* What a creation does: rows of new accounts, and the run's part of it.
LEMMA CreateMeans ==
    ASSUME RunsGood, RowsGood, NEW r \in Run, Create(r)
    PROVE  \E minted :
             /\ CreatedIn(rows', Range(minted))
             /\ run'[r].owes = [i \in Id |-> IF i \in Range(minted) THEN [Nothing EXCEPT !.created = TRUE]
                                             ELSE None]
             /\ run'[r].phase = "running" /\ \A q \in Run \ {r} : run'[q] = run[q]
             /\ RunsGood'
  <1> DEFINE s == Head(run[r].steps)
  <1>1. Writing(r, "create")
    BY DEF Create
  <1>2. s \in Step
    BY <1>1, AtStep
  <1>3. s.path \in Path /\ s.date \in Date \cup {None} /\ s.codes \in Codes \cup {None}
    BY <1>2 DEF Step
  <1> HIDE DEF s
  <1>4. PICK have \in 0 .. Len(s.path), knew \in 0 .. Len(s.path) :
           /\ Reuses(s.path, have) /\ MayCreate(s, have)
           /\ CanMint(Len(s.path) - have)
           /\ Resolves(r, s.path, knew)
           /\ rows' = CreateRows(s, have, Minted(Len(s.path) - have))
           /\ CreateAs(r, s, Minted(Len(s.path) - have),
                       Assumed(r, s.path, knew, Minted(Len(s.path) - have)),
                       NewAmong(Assumed(r, s.path, knew, Minted(Len(s.path) - have)), knew))
    BY DEF Create, s
  <1> DEFINE m == Len(s.path) - have
             minted == Minted(m)
             ids == Assumed(r, s.path, knew, minted)
  <1>5. CreatedIn(rows', Range(minted))
    BY <1>3, <1>4, NewRows
  <1>6. m \in Nat
    BY <1>3, PrefixPath
  <1>7. CanMint(m) /\ Resolves(r, s.path, knew) /\ CreateAs(r, s, minted, ids, NewAmong(ids, knew))
    BY <1>4
  <1> HIDE DEF m
  <1>8. minted \in [1 .. m -> Fresh]
    BY <1>6, <1>7, MintedIds
  <1> HIDE DEF minted
  <1>9. GoodIds(ids, s.path, knew, minted)
    BY <1>3, <1>6, <1>7, <1>8, AssumedIds
  <1> HIDE DEF ids
  <1>10. RunsGood'
    BY <1>1, <1>7, <1>9, CreateAsGood DEF s
  <1> DEFINE made == NewAmong(ids, knew)
             C == [i \in Id |-> IF i \in made THEN CopyOf(s, ids, i) ELSE run[r].cache[i]]
             K == Learned(r, s, ids)
             O == [i \in Id |-> IF i \in Range(minted) THEN [Nothing EXCEPT !.created = TRUE] ELSE None]
             M == run[r].made \cup made
             S == Tail(run[r].steps)
             X == [run[r] EXCEPT !.steps = S, !.cache = C, !.made = M, !.known = K, !.owes = O]
  <1>11. run' = [run EXCEPT ![r] = X]
    BY <1>7 DEF RunsGood, CreateAs
  <1> HIDE DEF made, C, K, O, M, S
  <1>12. X.owes = O /\ X.phase = run[r].phase
    <2>1. run[r] \in RunState
      BY DEF RunsGood
    <2> QED
      BY <2>1 DEF RunState
  <1> HIDE DEF X
  <1>13. run'[r] = X /\ \A q \in Run \ {r} : run'[q] = run[q]
    BY <1>11 DEF RunsGood
  <1>14. run[r].phase = "running"
    BY <1>1 DEF Writing
  <1> QED
    BY <1>5, <1>10, <1>12, <1>13, <1>14 DEF O

-----------------------------------------------------------------------------
(* Accounts.                                                               *)

Window(a) == a.closed # None /\ a.opened # None => a.opened <= a.closed
\* Account i of R, and its parent.
Nested(R, i) ==
    R[i].parent # None => /\ R[R[i].parent] # None
                          /\ R[R[i].parent].closed # None => R[i].closed # None

LEMMA Nesting ==
    WindowsNest <=> \A i \in Id : rows[i] # None => Window(rows[i]) /\ Nested(rows, i)
  BY DEF WindowsNest, Live, Window, Nested

\* What a step does to the accounts that stand, and which others it adds.
RowsGrow ==
    \A i \in Id :
        IF rows[i] # None
        THEN /\ rows'[i] # None /\ rows'[i].events >= rows[i].events
             /\ rows'[i].edited = rows[i].edited
        ELSE rows'[i] # None => i \in Fresh /\ rows'[i].edited = "never"

\* One account changes: it keeps its parent and its window, closes with its
\* children and opens under its parent.
MayBecome(i, w) ==
    /\ w \in Account /\ w.parent = rows[i].parent /\ Window(w)
    /\ w.closed # None => \A c \in Children(i) : rows[c].closed # None
    /\ w.closed = None /\ w.parent # None => rows[w.parent].closed = None

LEMMA RowChanges ==
    ASSUME RowsGood, WindowsNest, NEW i \in Id, rows[i] # None, NEW w, MayBecome(i, w),
           rows' = [rows EXCEPT ![i] = w]
    PROVE  RowsGood' /\ WindowsNest'
  <1>1. w \in Account /\ w # None
    BY DeclarationsAssumption DEF MayBecome
  <1>2. rows' \in [Id -> Account \cup {None}] /\ rows'[i] = w /\ \A j \in Id \ {i} : rows'[j] = rows[j]
    BY <1>1 DEF RowsGood
  <1>3. ASSUME NEW j \in Id, rows'[j] # None
        PROVE  Window(rows'[j]) /\ Nested(rows', j)
    <2> DEFINE q == rows'[j].parent
    <2>1. rows[j] # None /\ q = rows[j].parent /\ q \in Id \cup {None}
      <3>1. rows[j] # None /\ q = rows[j].parent
        BY <1>2, <1>3 DEF MayBecome
      <3>2. rows[j] \in Account
        BY <3>1 DEF RowsGood
      <3> QED
        BY <3>1, <3>2 DEF Account
    <2>2. Window(rows'[j])
      BY <1>2, <2>1, Nesting DEF MayBecome
    <2>3. ASSUME q # None
          PROVE  rows'[q] # None /\ (rows'[q].closed # None => rows'[j].closed # None)
      <3>1. q \in Id /\ rows[q] # None /\ (rows[q].closed # None => rows[j].closed # None)
        BY <2>1, <2>3, Nesting DEF Nested
      <3>2. rows'[q] # None
        BY <1>1, <1>2, <3>1
      <3>3. ASSUME rows'[q].closed # None
            PROVE  rows'[j].closed # None
        <4>1. CASE j = i /\ q = i
          BY <3>3, <4>1
        <4>2. CASE j = i /\ q # i
          <5>1. rows[q].closed # None /\ q = w.parent
            BY <1>2, <3>1, <3>3, <4>2
          <5> QED
            BY <1>2, <2>3, <4>2, <5>1 DEF MayBecome
        <4>3. CASE j # i /\ q = i
          <5>1. j \in Children(i) /\ w.closed # None
            BY <1>2, <2>1, <3>3, <4>3 DEF Children, Live
          <5> QED
            BY <1>2, <4>3, <5>1 DEF MayBecome
        <4>4. CASE j # i /\ q # i
          BY <1>2, <3>1, <3>3, <4>4
        <4> QED
          BY <4>1, <4>2, <4>3, <4>4
      <3> QED
        BY <3>2, <3>3
    <2> QED
      BY <2>2, <2>3 DEF Nested
  <1>4. WindowsNest'
    BY <1>3 DEF WindowsNest, Live, Window, Nested
  <1> QED
    BY <1>2, <1>4 DEF RowsGood

\* A child is among the accounts below.
LEMMA ChildBelow ==
    ASSUME NEW i \in Id
    PROVE  Children(i) \subseteq Below(i)
  BY DEF Children, Below, Live

LEMMA ChangeTypes ==
    ASSUME NEW a \in Account, NEW on \in Date \cup {None}, NEW c \in Codes \cup {None}
    PROVE  /\ /\ Change(a, "opened", on) \in Account /\ Change(a, "opened", on).parent = a.parent
              /\ Change(a, "opened", on).events = a.events + 1 /\ Change(a, "opened", on).edited = a.edited
              /\ Change(a, "opened", on).opened = on /\ Change(a, "opened", on).closed = a.closed
           /\ /\ Change(a, "closed", on) \in Account /\ Change(a, "closed", on).parent = a.parent
              /\ Change(a, "closed", on).events = a.events + 1 /\ Change(a, "closed", on).edited = a.edited
              /\ Change(a, "closed", on).opened = a.opened /\ Change(a, "closed", on).closed = on
           /\ /\ Change(a, "codes", c) \in Account /\ Change(a, "codes", c).parent = a.parent
              /\ Change(a, "codes", c).events = a.events + 1 /\ Change(a, "codes", c).edited = a.edited
              /\ Change(a, "codes", c).opened = a.opened /\ Change(a, "codes", c).closed = a.closed
  <1>1. a.events \in Nat /\ a.events + 1 \in Nat
    BY DEF Account
  <1>2. Change(a, "opened", on) = [a EXCEPT !.opened = on, !.events = a.events + 1]
    BY DEF Change, Account
  <1>3. Change(a, "closed", on) = [a EXCEPT !.closed = on, !.events = a.events + 1]
    BY DEF Change, Account
  <1>4. Change(a, "codes", c) = [a EXCEPT !.codes = c, !.events = a.events + 1]
    BY DEF Change, Account
  <1> DEFINE n == a.events + 1
  <1>5. n \in Nat
    BY <1>1
  <1> HIDE DEF n
  <1>6. LET w == [a EXCEPT !.opened = on, !.events = n]
        IN  /\ w \in Account /\ w.parent = a.parent /\ w.events = n /\ w.edited = a.edited
            /\ w.opened = on /\ w.closed = a.closed
    BY <1>5 DEF Account
  <1>7. LET w == [a EXCEPT !.closed = on, !.events = n]
        IN  /\ w \in Account /\ w.parent = a.parent /\ w.events = n /\ w.edited = a.edited
            /\ w.opened = a.opened /\ w.closed = on
    BY <1>5 DEF Account
  <1>8. LET w == [a EXCEPT !.codes = c, !.events = n]
        IN  /\ w \in Account /\ w.parent = a.parent /\ w.events = n /\ w.edited = a.edited
            /\ w.opened = a.opened /\ w.closed = a.closed
    BY <1>5 DEF Account
  <1> QED
    BY <1>2, <1>3, <1>4, <1>6, <1>7, <1>8 DEF n

LEMMA MarkTypes ==
    ASSUME NEW a \in Account, NEW m \in {"never", "during", "since"}
    PROVE  /\ [a EXCEPT !.edited = m] \in Account /\ [a EXCEPT !.edited = m].parent = a.parent
           /\ [a EXCEPT !.edited = m].opened = a.opened /\ [a EXCEPT !.edited = m].closed = a.closed
           /\ [a EXCEPT !.edited = m].events = a.events /\ [a EXCEPT !.edited = m].edited = m
  BY DEF Account

LEMMA UseTypes ==
    ASSUME NEW a \in Account, NEW u \in BOOLEAN
    PROVE  /\ [a EXCEPT !.used = u] \in Account /\ [a EXCEPT !.used = u].parent = a.parent
           /\ [a EXCEPT !.used = u].opened = a.opened /\ [a EXCEPT !.used = u].closed = a.closed
           /\ [a EXCEPT !.used = u].events = a.events /\ [a EXCEPT !.used = u].edited = a.edited
  BY DEF Account

LEMMA RowFacts ==
    ASSUME RowsGood, WindowsNest, NEW i \in Id, rows[i] # None
    PROVE  /\ rows[i] \in Account /\ rows[i].parent \in Id \cup {None} /\ Window(rows[i])
           /\ rows[i].closed # None => \A c \in Children(i) : rows[c].closed # None
           /\ rows[i].closed = None /\ rows[i].parent # None => rows[rows[i].parent].closed = None
  <1>1. rows[i] \in Account
    BY DEF RowsGood
  <1>2. rows[i].parent \in Id \cup {None}
    BY <1>1 DEF Account
  <1>3. \A j \in Id : rows[j] # None => Window(rows[j]) /\ Nested(rows, j)
    BY Nesting
  <1>4. ASSUME rows[i].closed # None, NEW c \in Children(i)
        PROVE  rows[c].closed # None
    <2>1. c \in Id /\ rows[c] # None /\ rows[c].parent = i /\ i # None
      BY DeclarationsAssumption DEF Children, Live
    <2> QED
      BY <1>3, <1>4, <2>1 DEF Nested
  <1> QED
    BY <1>1, <1>2, <1>3, <1>4 DEF Nested

LEMMA SameClosed ==
    ASSUME RowsGood, WindowsNest, NEW i \in Id, rows[i] # None,
           NEW w \in Account, w.parent = rows[i].parent, w.closed = rows[i].closed, Window(w)
    PROVE  MayBecome(i, w)
  BY RowFacts DEF MayBecome

LEMMA OpenedRow ==
    ASSUME RowsGood, WindowsNest, NEW i \in Id, NEW on \in Date, MayOpen(i, on)
    PROVE  rows[i] # None /\ MayBecome(i, Change(rows[i], "opened", on))
  <1>1. rows[i] # None /\ rows[i] \in Account
    BY DEF MayOpen, RowsGood
  <1> DEFINE w == Change(rows[i], "opened", on)
  <1>2. w \in Account /\ w.parent = rows[i].parent /\ w.closed = rows[i].closed /\ w.opened = on
    BY <1>1, ChangeTypes
  <1> HIDE DEF w
  <1>3. Window(w)
    BY <1>2 DEF Window, MayOpen
  <1>4. MayBecome(i, w)
    BY <1>1, <1>2, <1>3, SameClosed
  <1> QED
    BY <1>1, <1>4 DEF w

LEMMA CodesRow ==
    ASSUME RowsGood, WindowsNest, NEW i \in Id, NEW c \in Codes \cup {None}, rows[i] # None
    PROVE  MayBecome(i, Change(rows[i], "codes", c))
  <1>1. rows[i] \in Account
    BY DEF RowsGood
  <1> DEFINE w == Change(rows[i], "codes", c)
  <1>2. w \in Account /\ w.parent = rows[i].parent /\ w.closed = rows[i].closed
        /\ w.opened = rows[i].opened
    BY <1>1, ChangeTypes
  <1> HIDE DEF w
  <1>3. Window(w)
    BY <1>2, RowFacts DEF Window
  <1>4. MayBecome(i, w)
    BY <1>1, <1>2, <1>3, SameClosed
  <1> QED
    BY <1>4 DEF w

LEMMA ClosedRow ==
    ASSUME RowsGood, WindowsNest, NEW i \in Id, NEW on \in Date, MayClose(i, on)
    PROVE  rows[i] # None /\ MayBecome(i, Change(rows[i], "closed", on))
  <1>1. rows[i] # None /\ rows[i] \in Account
    BY DEF MayClose, RowsGood
  <1> DEFINE w == Change(rows[i], "closed", on)
  <1>2. w \in Account /\ w.parent = rows[i].parent /\ w.closed = on /\ w.opened = rows[i].opened
    BY <1>1, ChangeTypes
  <1> HIDE DEF w
  <1>3. Window(w)
    BY <1>2 DEF Window, MayClose
  <1>4. \A c \in Children(i) : rows[c].closed # None
    BY ChildBelow DEF MayClose
  <1>5. w.closed # None
    BY <1>2, DeclarationsAssumption
  <1>6. MayBecome(i, w)
    BY <1>2, <1>3, <1>4, <1>5 DEF MayBecome
  <1> QED
    BY <1>1, <1>6 DEF w

LEMMA ReopenedRow ==
    ASSUME RowsGood, WindowsNest, NEW i \in Id, rows[i] # None, MayReopen(i)
    PROVE  MayBecome(i, Change(rows[i], "closed", None))
  <1>1. rows[i] \in Account
    BY DEF RowsGood
  <1> DEFINE w == Change(rows[i], "closed", None)
  <1>2. w \in Account /\ w.parent = rows[i].parent /\ w.closed = None
    BY <1>1, ChangeTypes
  <1> HIDE DEF w
  <1>3. MayBecome(i, w)
    BY <1>2 DEF MayBecome, Window, MayReopen
  <1> QED
    BY <1>3 DEF w

\* A marked row is as good as the row.
LEMMA MarkedRow ==
    ASSUME NEW i, NEW w, MayBecome(i, w), NEW m \in {"never", "during", "since"}
    PROVE  MayBecome(i, [w EXCEPT !.edited = m])
  <1> DEFINE x == [w EXCEPT !.edited = m]
  <1>1. w \in Account
    BY DEF MayBecome
  <1>2. x \in Account /\ x.parent = w.parent /\ x.opened = w.opened /\ x.closed = w.closed
    BY <1>1, MarkTypes
  <1> HIDE DEF x
  <1>3. MayBecome(i, x)
    BY <1>2 DEF MayBecome, Window
  <1> QED
    BY <1>3 DEF x

-----------------------------------------------------------------------------
(* Steps of a run, on the accounts.                                        *)

LEMMA RowsStay ==
    ASSUME RowsGood, WindowsNest, UNCHANGED rows
    PROVE  RowsGood' /\ WindowsNest' /\ RowsGrow
  <1>1. RowsGood' /\ WindowsNest'
    BY DEF RowsGood, WindowsNest, Live
  <1>2. \A i \in Id : rows[i] # None => rows[i].events >= rows[i].events
    BY DEF RowsGood, Account
  <1> QED
    BY <1>1, <1>2 DEF RowsGrow

LEMMA RunChangesRow ==
    ASSUME RowsGood, WindowsNest, NEW i \in Id, rows[i] # None, NEW w, MayBecome(i, w),
           w.events = rows[i].events + 1, w.edited = rows[i].edited,
           rows' = [rows EXCEPT ![i] = w]
    PROVE  RowsGood' /\ WindowsNest' /\ RowsGrow
  <1>1. RowsGood' /\ WindowsNest'
    BY RowChanges
  <1>2. w # None
    BY DeclarationsAssumption DEF MayBecome
  <1>3. \A j \in Id : rows'[j] = IF j = i THEN w ELSE rows[j]
    BY DEF RowsGood
  <1>4. \A j \in Id : rows[j] # None => rows[j].events \in Nat
    BY DEF RowsGood, Account
  <1> QED
    BY <1>1, <1>2, <1>3, <1>4 DEF RowsGrow

LEMMA SetRow ==
    ASSUME RowsGood, WindowsNest, NEW i \in Id, NEW field, NEW value,
           rows[i] # None, MayBecome(i, Change(rows[i], field, value)),
           Change(rows[i], field, value).events = rows[i].events + 1,
           Change(rows[i], field, value).edited = rows[i].edited,
           rows' = Set(i, field, value)
    PROVE  RowsGood' /\ WindowsNest' /\ RowsGrow
  <1>1. rows' = rows \/ rows' = [rows EXCEPT ![i] = Change(rows[i], field, value)]
    BY DEF Set, RowsGood
  <1> QED
    BY <1>1, RowsStay, RunChangesRow

LEMMA SetOpenedOnRows ==
    ASSUME RunsGood, RowsGood, WindowsNest, NEW r \in Run, SetOpenedOn(r)
    PROVE  RowsGood' /\ WindowsNest' /\ RowsGrow
  <1> DEFINE s == Head(run[r].steps)
  <1>1. s.id \in Id /\ s.date \in Date
    BY AtStep DEF SetOpenedOn, Step
  <1>2. CASE MayOpen(s.id, s.date) /\ rows' = Set(s.id, "opened", s.date)
    <2> HIDE DEF s
    <2>1. rows[s.id] # None /\ MayBecome(s.id, Change(rows[s.id], "opened", s.date))
      BY <1>1, <1>2, OpenedRow
    <2>2. rows[s.id] \in Account
      BY <1>1, <2>1 DEF RowsGood
    <2>3. /\ Change(rows[s.id], "opened", s.date).events = rows[s.id].events + 1
          /\ Change(rows[s.id], "opened", s.date).edited = rows[s.id].edited
      BY <1>1, <2>2, ChangeTypes
    <2> QED
      BY <1>1, <1>2, <2>1, <2>3, SetRow
  <1>3. CASE UNCHANGED rows
    BY <1>3, RowsStay
  <1> QED
    BY <1>2, <1>3 DEF SetOpenedOn, Refused

LEMMA SetCommoditiesRows ==
    ASSUME RunsGood, RowsGood, WindowsNest, NEW r \in Run, SetCommodities(r)
    PROVE  RowsGood' /\ WindowsNest' /\ RowsGrow
  <1> DEFINE s == Head(run[r].steps)
  <1>1. s.id \in Id /\ s.codes \in Codes \cup {None}
    BY AtStep DEF SetCommodities, Step
  <1>2. CASE rows[s.id] # None /\ rows' = Set(s.id, "codes", s.codes)
    <2> HIDE DEF s
    <2>1. MayBecome(s.id, Change(rows[s.id], "codes", s.codes))
      BY <1>1, <1>2, CodesRow
    <2>2. rows[s.id] \in Account
      BY <1>1, <1>2 DEF RowsGood
    <2>3. /\ Change(rows[s.id], "codes", s.codes).events = rows[s.id].events + 1
          /\ Change(rows[s.id], "codes", s.codes).edited = rows[s.id].edited
      BY <1>1, <2>2, ChangeTypes
    <2> QED
      BY <1>1, <1>2, <2>1, <2>3, SetRow
  <1>3. CASE UNCHANGED rows
    BY <1>3, RowsStay
  <1> QED
    BY <1>2, <1>3 DEF SetCommodities, Refused

LEMMA CloseRows ==
    ASSUME RunsGood, RowsGood, WindowsNest, NEW r \in Run, Close(r)
    PROVE  RowsGood' /\ WindowsNest' /\ RowsGrow
  <1> DEFINE s == Head(run[r].steps)
  <1>1. s.id \in Id /\ s.date \in Date
    <2>1. Writing(r, "close")
      BY DEF Close
    <2> QED
      BY <2>1, AtStep DEF Step
  <1>2. CASE MayClose(s.id, s.date) /\ rows' = [rows EXCEPT ![s.id] = Change(@, "closed", s.date)]
    <2> HIDE DEF s
    <2>1. rows[s.id] # None /\ MayBecome(s.id, Change(rows[s.id], "closed", s.date))
      BY <1>1, <1>2, ClosedRow
    <2>2. rows[s.id] \in Account
      BY <1>1, <2>1 DEF RowsGood
    <2>3. /\ Change(rows[s.id], "closed", s.date).events = rows[s.id].events + 1
          /\ Change(rows[s.id], "closed", s.date).edited = rows[s.id].edited
      BY <1>1, <2>2, ChangeTypes
    <2>4. rows' = [rows EXCEPT ![s.id] = Change(rows[s.id], "closed", s.date)]
      BY <1>1, <1>2 DEF RowsGood
    <2> QED
      BY <1>1, <2>1, <2>3, <2>4, RunChangesRow
  <1>3. CASE UNCHANGED rows
    BY <1>3, RowsStay
  <1> QED
    BY <1>2, <1>3 DEF Close

\* New accounts: those that stand have a parent that stands.
LEMMA RowsCreated ==
    ASSUME RowsGood, WindowsNest, NEW S, CreatedIn(rows', S)
    PROVE  RowsGood' /\ WindowsNest' /\ RowsGrow
  <1>1. rows' \in [Id -> Account \cup {None}] /\ S \subseteq Fresh /\ S \subseteq Id
        /\ \A i \in S : rows[i] = None
    BY FreshIds DEF CreatedIn
  <1>2. \A i \in Id \ S : rows'[i] = rows[i]
    BY DEF CreatedIn
  <1>3. \A i \in S : rows'[i] # None /\ NewUnder(rows', S, i)
    BY DeclarationsAssumption DEF CreatedIn, NewUnder
  <1>4. ASSUME NEW i \in Id, rows'[i] # None
        PROVE  Window(rows'[i]) /\ Nested(rows', i)
    <2>1. CASE i \in S
      BY <1>1, <1>2, <1>3, <2>1 DEF NewUnder, Window, Nested, Live
    <2>2. CASE i \notin S
      <3>1. rows[i] # None /\ rows'[i] = rows[i]
        BY <1>2, <1>4, <2>2
      <3>2. Window(rows[i]) /\ Nested(rows, i) /\ rows[i].parent \in Id \cup {None}
        BY <3>1, Nesting, RowFacts
      <3> QED
        BY <1>1, <1>2, <3>1, <3>2 DEF Nested
    <2> QED
      BY <2>1, <2>2
  <1>5. WindowsNest'
    BY <1>4 DEF WindowsNest, Live, Window, Nested
  <1>6. RowsGrow
    <2>1. \A i \in Id : rows[i] # None => rows[i].events \in Nat
      BY DEF RowsGood, Account
    <2> QED
      BY <1>1, <1>2, <1>3, <2>1 DEF RowsGrow, NewUnder
  <1> QED
    BY <1>1, <1>5, <1>6 DEF RowsGood

-----------------------------------------------------------------------------
(* Discards.                                                               *)

\* What goes is created by the run, unnamed, and takes its children along.
LEMMA RemovedFacts ==
    ASSUME NEW r \in Run
    PROVE  \A i \in Removed(r) :
              /\ i \in Made(r) /\ ~ Named(r, i)
              /\ Children(i) \subseteq Removed(r)
  <1>1. ASSUME NEW i \in Removed(r)
        PROVE  i \in Made(r) /\ ~ Named(r, i) /\ Children(i) \subseteq Removed(r)
    <2>1. PICK S \in SUBSET Made(r) :
             i \in S /\ \A j \in S : ~ Named(r, j) /\ Children(j) \subseteq S
      BY DEF Removed
    <2>2. S \subseteq Removed(r)
      BY <2>1 DEF Removed
    <2> QED
      BY <2>1, <2>2
  <1> QED
    BY <1>1

\* What is reopened was closed by the run, under no parent, one reopened or one open.
LEMMA ReopenedFacts ==
    ASSUME NEW r \in Run
    PROVE  \A i \in Reopened(r) :
              /\ i \in Recorded(r) \ Made(r)
              /\ \/ rows[i].parent = None
                 \/ rows[i].parent \in Reopened(r)
                 \/ rows[rows[i].parent].closed = None
  <1>1. ASSUME NEW i \in Reopened(r)
        PROVE  /\ i \in Recorded(r) \ Made(r)
               /\ \/ rows[i].parent = None
                  \/ rows[i].parent \in Reopened(r)
                  \/ rows[rows[i].parent].closed = None
    <2>1. PICK S \in SUBSET ClosedBy(r) :
             i \in S /\ \A j \in S : rows[j].parent = None \/ rows[j].parent \in S
                                     \/ rows[rows[j].parent].closed = None
      BY DEF Reopened
    <2>2. S \subseteq Reopened(r)
      BY <2>1 DEF Reopened
    <2> QED
      BY <2>1, <2>2 DEF ClosedBy
  <1> QED
    BY <1>1

LEMMA RevertedRow ==
    ASSUME RowsGood, NEW r \in Run, NEW i \in Id, rows[i] # None
    PROVE  /\ Reverted(r, i) \in Account /\ Reverted(r, i).parent = rows[i].parent
           /\ Reverted(r, i).events = rows[i].events /\ Reverted(r, i).edited = rows[i].edited
           /\ Reverted(r, i).opened \in {None, rows[i].opened}
           /\ Reverted(r, i).closed = IF i \in Reopened(r) THEN None ELSE rows[i].closed
  <1> DEFINE a == rows[i]
             o == Cleared(r, i, "opened")
             c == IF i \in Reopened(r) THEN None ELSE rows[i].closed
             l == Cleared(r, i, "codes")
             w == [a EXCEPT !.opened = o, !.closed = c, !.codes = l]
  <1>1. a \in Account
    BY DEF RowsGood
  <1>2. o \in {None, a.opened} /\ l \in {None, a.codes} /\ c \in {None, a.closed}
    BY DEF Cleared
  <1>3. Reverted(r, i) = w
    BY DEF Reverted
  <1> HIDE DEF a, o, c, l
  <1>4. w \in Account /\ w.parent = a.parent /\ w.events = a.events /\ w.edited = a.edited
        /\ w.opened = o /\ w.closed = c
    BY <1>1, <1>2 DEF Account
  <1> HIDE DEF w
  <1> QED
    BY <1>2, <1>3, <1>4 DEF a, c

\* The rows a discard leaves.
LEMMA DiscardLeaves ==
    ASSUME RowsGood, NEW r \in Run, Discard(r)
    PROVE  /\ rows' \in [Id -> Account \cup {None}]
           /\ \A i \in Id :
                 /\ rows'[i] = None <=> rows[i] = None \/ i \in Removed(r)
                 /\ rows'[i] # None =>
                       /\ rows'[i].parent = rows[i].parent
                       /\ rows'[i].events = rows[i].events /\ rows'[i].edited = rows[i].edited
                       /\ rows'[i].opened \in {None, rows[i].opened}
                       /\ rows'[i].closed = IF i \in Reopened(r) THEN None ELSE rows[i].closed
  <1>1. rows' = [i \in Id |-> IF i \in Removed(r) THEN None
                              ELSE IF i \in Recorded(r) \ Made(r) THEN Reverted(r, i)
                              ELSE rows[i]]
    BY DEF Discard, ReverseAccounts
  <1>2. \A i \in Id : rows[i] \in Account \cup {None}
    BY DEF RowsGood
  <1>3. \A i \in Recorded(r) : rows[i] # None /\ i \in Id
    BY DEF Recorded, Live
  <1>4. ASSUME NEW i \in Id
        PROVE  /\ rows'[i] \in Account \cup {None}
               /\ rows'[i] = None <=> rows[i] = None \/ i \in Removed(r)
               /\ rows'[i] # None =>
                       /\ rows'[i].parent = rows[i].parent
                       /\ rows'[i].events = rows[i].events /\ rows'[i].edited = rows[i].edited
                       /\ rows'[i].opened \in {None, rows[i].opened}
                       /\ rows'[i].closed = IF i \in Reopened(r) THEN None ELSE rows[i].closed
    <2>1. CASE i \in Removed(r)
      BY <1>1, <2>1
    <2>2. CASE i \notin Removed(r) /\ i \in Recorded(r) \ Made(r)
      <3>1. rows'[i] = Reverted(r, i) /\ rows[i] # None
        BY <1>1, <1>3, <2>2
      <3>2. Reverted(r, i) # None
        BY <3>1, RevertedRow, DeclarationsAssumption
      <3> QED
        BY <2>2, <3>1, <3>2, RevertedRow
    <2>3. CASE i \notin Removed(r) /\ i \notin Recorded(r) \ Made(r)
      <3>1. rows'[i] = rows[i] /\ i \notin Reopened(r)
        BY <1>1, <2>3, ReopenedFacts
      <3> QED
        BY <1>2, <2>3, <3>1
    <2> QED
      BY <2>1, <2>2, <2>3
  <1> QED
    BY <1>1, <1>4

LEMMA DiscardRows ==
    ASSUME RowsGood, WindowsNest, NEW r \in Run, Discard(r)
    PROVE  RowsGood' /\ WindowsNest'
  <1>1. ASSUME NEW i \in Id, rows'[i] # None
        PROVE  Window(rows'[i]) /\ Nested(rows', i)
    <2> DEFINE q == rows'[i].parent
    <2>1. /\ rows[i] # None /\ i \notin Removed(r) /\ q = rows[i].parent
          /\ rows'[i].opened \in {None, rows[i].opened}
          /\ rows'[i].closed = IF i \in Reopened(r) THEN None ELSE rows[i].closed
      BY <1>1, DiscardLeaves
    <2>2. Window(rows[i]) /\ Nested(rows, i) /\ q \in Id \cup {None}
      BY <2>1, Nesting, RowFacts
    <2>3. Window(rows'[i])
      BY <2>1, <2>2 DEF Window
    <2>4. ASSUME q # None
          PROVE  rows'[q] # None /\ (rows'[q].closed # None => rows'[i].closed # None)
      <3>1. q \in Id /\ rows[q] # None /\ (rows[q].closed # None => rows[i].closed # None)
        BY <2>1, <2>2, <2>4 DEF Nested
      <3>2. q \notin Removed(r)
        <4>1. i \in Children(q)
          BY <2>1 DEF Children, Live
        <4> QED
          BY <2>1, <4>1, RemovedFacts
      <3>3. rows'[q] # None /\ rows'[q].closed = IF q \in Reopened(r) THEN None ELSE rows[q].closed
        BY <3>1, <3>2, DiscardLeaves
      <3>4. ASSUME rows'[q].closed # None
            PROVE  rows'[i].closed # None
        <4>1. q \notin Reopened(r) /\ rows[q].closed # None /\ rows[i].closed # None
          BY <3>1, <3>3, <3>4
        <4>2. i \notin Reopened(r)
          BY <2>1, <2>4, <4>1, ReopenedFacts
        <4> QED
          BY <2>1, <4>1, <4>2
      <3> QED
        BY <3>3, <3>4
    <2> QED
      BY <2>3, <2>4 DEF Nested
  <1>2. WindowsNest'
    BY <1>1 DEF WindowsNest, Live, Window, Nested
  <1>3. RowsGood'
    BY DiscardLeaves DEF RowsGood
  <1> QED
    BY <1>2, <1>3

-----------------------------------------------------------------------------
(* The user, on the accounts.                                              *)

\* An edit of a field: one more event, and the mark.
UserEdits(i) ==
    /\ i \in Id /\ rows[i] # None /\ rows'[i] # None
    /\ rows'[i].events = rows[i].events + 1 /\ rows'[i].edited = Mark
    /\ \A j \in Id \ {i} : rows'[j] = rows[j]

LEMMA UserChangesRow ==
    ASSUME RowsGood, WindowsNest, NEW i \in Id, rows[i] # None, NEW w, MayBecome(i, w),
           w.events = rows[i].events + 1,
           rows' = ByUser([rows EXCEPT ![i] = w], i)
    PROVE  RowsGood' /\ WindowsNest' /\ UserEdits(i)
  <1> DEFINE x == [w EXCEPT !.edited = Mark]
  <1>1. Mark \in {"never", "during", "since"}
    BY DEF Mark
  <1>2. w \in Account
    BY DEF MayBecome
  <1>3. MayBecome(i, x)
    BY <1>1, MarkedRow
  <1>4. x.events = w.events /\ x.edited = Mark /\ x \in Account
    BY <1>1, <1>2, MarkTypes
  <1>5. rows' = [rows EXCEPT ![i] = x]
    BY DEF ByUser, RowsGood
  <1> HIDE DEF x
  <1>6. RowsGood' /\ WindowsNest'
    BY <1>3, <1>5, RowChanges
  <1>7. x # None
    BY <1>4, DeclarationsAssumption
  <1>8. \A j \in Id : rows'[j] = IF j = i THEN x ELSE rows[j]
    BY <1>5 DEF RowsGood
  <1> QED
    BY <1>4, <1>6, <1>7, <1>8 DEF UserEdits

LEMMA UserSetRows ==
    ASSUME RowsGood, WindowsNest, NEW i \in Id,
           (\E on \in Date : UserSet(i, "opened", on)) \/ (\E list \in Codes : UserSet(i, "codes", list))
    PROVE  RowsGood' /\ WindowsNest' /\ UserEdits(i)
  <1>1. CASE \E on \in Date : UserSet(i, "opened", on)
    <2>1. PICK on \in Date : UserSet(i, "opened", on)
      BY <1>1
    <2> DEFINE w == Change(rows[i], "opened", on)
    <2>2. rows[i] # None /\ MayOpen(i, on) /\ rows' = ByUser([rows EXCEPT ![i] = w], i)
      BY <2>1, DeclarationsAssumption DEF UserSet, Edit, Set, RowsGood
    <2>3. rows[i] \in Account
      BY <2>2 DEF RowsGood
    <2>4. w.events = rows[i].events + 1
      BY <2>3, ChangeTypes
    <2>5. MayBecome(i, w)
      BY <2>2, OpenedRow
    <2> HIDE DEF w
    <2> QED
      BY <2>2, <2>4, <2>5, UserChangesRow
  <1>2. CASE \E list \in Codes : UserSet(i, "codes", list)
    <2>1. PICK list \in Codes : UserSet(i, "codes", list)
      BY <1>2
    <2> DEFINE w == Change(rows[i], "codes", list)
    <2>2. rows[i] # None /\ rows' = ByUser([rows EXCEPT ![i] = w], i)
      BY <2>1 DEF UserSet, Edit, Set, RowsGood
    <2>3. rows[i] \in Account
      BY <2>2 DEF RowsGood
    <2>4. w.events = rows[i].events + 1
      BY <2>3, ChangeTypes
    <2>5. MayBecome(i, w)
      BY <2>2, CodesRow
    <2> HIDE DEF w
    <2> QED
      BY <2>2, <2>4, <2>5, UserChangesRow
  <1> QED
    BY <1>1, <1>2

LEMMA UserCloseRows ==
    ASSUME RowsGood, WindowsNest, NEW i \in Id,
           UserReopen(i) \/ \E on \in Date : UserClose(i, on)
    PROVE  RowsGood' /\ WindowsNest' /\ UserEdits(i)
  <1>1. CASE \E on \in Date : UserClose(i, on)
    <2>1. PICK on \in Date : UserClose(i, on)
      BY <1>1
    <2> DEFINE w == Change(rows[i], "closed", on)
    <2>2. rows[i] # None /\ MayBecome(i, w)
      BY <2>1, ClosedRow DEF UserClose
    <2>3. rows' = ByUser([rows EXCEPT ![i] = w], i)
      BY <2>1 DEF UserClose, Edit, RowsGood
    <2>4. rows[i] \in Account
      BY <2>2 DEF RowsGood
    <2>5. w.events = rows[i].events + 1
      BY <2>4, ChangeTypes
    <2> HIDE DEF w
    <2> QED
      BY <2>2, <2>3, <2>5, UserChangesRow
  <1>2. CASE UserReopen(i)
    <2> DEFINE w == Change(rows[i], "closed", None)
    <2>1. rows[i] # None /\ MayBecome(i, w)
      BY <1>2, ReopenedRow DEF UserReopen
    <2>2. rows' = ByUser([rows EXCEPT ![i] = w], i)
      BY <1>2 DEF UserReopen, Edit, RowsGood
    <2>3. rows[i] \in Account
      BY <2>1 DEF RowsGood
    <2>4. w.events = rows[i].events + 1
      BY <2>3, ChangeTypes
    <2> HIDE DEF w
    <2> QED
      BY <2>1, <2>2, <2>4, UserChangesRow
  <1> QED
    BY <1>1, <1>2

LEMMA UseRows ==
    ASSUME RowsGood, WindowsNest, NEW i \in Id, Use(i)
    PROVE  RowsGood' /\ WindowsNest' /\ RowsGrow
  <1> DEFINE a == rows[i]
             u == ~ rows[i].used
             w == [a EXCEPT !.used = u]
  <1>1. a # None /\ a \in Account /\ rows[i] # None /\ a = rows[i]
    BY DEF Use, RowsGood
  <1>2. rows' = [rows EXCEPT ![i] = w]
    BY DEF Use, Edit, RowsGood
  <1>3. u \in BOOLEAN
    BY Zenon
  <1> HIDE DEF a, u
  <1>4. /\ w \in Account /\ w.parent = a.parent /\ w.opened = a.opened
        /\ w.closed = a.closed /\ w.events = a.events /\ w.edited = a.edited
    BY <1>1, <1>3, UseTypes
  <1> HIDE DEF w
  <1>5. MayBecome(i, w)
    BY <1>1, <1>4, RowFacts, SameClosed DEF Window
  <1>6. RowsGood' /\ WindowsNest'
    BY <1>1, <1>2, <1>5, RowChanges
  <1>7. \A j \in Id : rows'[j] = IF j = i THEN w ELSE rows[j]
    BY <1>2 DEF RowsGood
  <1>8. \A j \in Id : rows[j] # None => rows[j].events \in Nat
    BY DEF RowsGood, Account
  <1>9. w # None
    BY <1>4, DeclarationsAssumption
  <1>10. \A j \in Id : rows[j] # None =>
            /\ rows'[j] # None /\ rows'[j].edited = rows[j].edited
            /\ rows'[j].events = rows[j].events
    BY <1>1, <1>4, <1>7, <1>9
  <1>11. \A j \in Id : rows[j] = None => rows'[j] = None
    BY <1>1, <1>7
  <1>12. RowsGrow
    BY <1>8, <1>10, <1>11 DEF RowsGrow
  <1> QED
    BY <1>6, <1>12

LEMMA UserCreateRows ==
    ASSUME RowsGood, WindowsNest, NEW p \in Path, UserCreate(p)
    PROVE  RowsGood' /\ WindowsNest' /\ RowsGrow
  <1> DEFINE s == [path |-> p, date |-> None, codes |-> None]
             have == Len(p) - 1
  <1>1. Len(p) \in Nat \ {0}
    <2>1. p \in Seq(Name) /\ p # <<>>
      BY DeclarationsAssumption
    <2> QED
      BY <2>1
  <1>2. s.path = p /\ s.date \in Date \cup {None} /\ s.codes \in Codes \cup {None}
    OBVIOUS
  <1>3. Reuses(p, have) /\ MayCreate(s, have) /\ CanMint(1) /\ rows' = CreateRows(s, have, Minted(1))
    BY DEF UserCreate, Edit
  <1> HIDE DEF s
  <1>4. have \in 0 .. Len(s.path) /\ Len(s.path) - have = 1
    BY <1>1, <1>2
  <1> HIDE DEF have
  <1>5. CreatedIn(rows', Range(Minted(1)))
    BY <1>2, <1>3, <1>4, NewRows
  <1> QED
    BY <1>5, RowsCreated

-----------------------------------------------------------------------------
(* Batches.                                                                *)

RecsGood == recs \in [Run -> [Id -> Rec \cup {None}]]
\* A run that has not begun has nothing, and nothing is recorded for it.
IdleHold == \A r \in Run : run[r].phase = "idle" => run[r] = Idle /\ recs[r] = NoId
\* What a batch records stands, with no fewer events than were counted.
CountsHold ==
    \A r \in Run : \A i \in Id :
        recs[r][i] # None => rows[i] # None /\ recs[r][i].count <= rows[i].events
\* An account created by a run and edited since has more of them,
SinceCounted ==
    \A r \in Run : \A i \in Id :
        recs[r][i] # None /\ recs[r][i].created /\ rows[i].edited = "since" =>
            rows[i].events > recs[r][i].count
\* and the run has ended.
SinceEnded ==
    \A r \in Run : \A i \in Id :
        /\ run[r].phase = "running" /\ rows[i] # None
        /\ (recs[r][i] # None /\ recs[r][i].created) \/ (run[r].owes[i] # None /\ run[r].owes[i].created)
        => rows[i].edited # "since"
Batches == RecsGood /\ IdleHold /\ CountsHold /\ SinceCounted /\ SinceEnded

\* What a step of run r leaves owed: nothing created but what was, or is new.
OwesFit(r) ==
    /\ \A q \in Run \ {r} : run'[q] = run[q]
    /\ run'[r].phase # "idle"
    /\ run'[r].phase = "running" =>
          /\ run[r].phase \in {"idle", "running"}
          /\ \A i \in Id : run'[r].owes[i] # None /\ run'[r].owes[i].created =>
                \/ run[r].owes[i] # None /\ run[r].owes[i].created
                \/ rows'[i] # None => rows'[i].edited = "never"

LEMMA IdleOwes ==
    ASSUME Batches, NEW r \in Run, run[r].phase = "idle"
    PROVE  \A i \in Id : run[r].owes[i] = None /\ recs[r][i] = None
  BY DEF Batches, IdleHold, Idle, NoId

LEMMA WorkKeepsBatches ==
    ASSUME RowsGood, RowsGood', Batches, NEW r \in Run, RowsGrow, OwesFit(r), UNCHANGED recs
    PROVE  Batches'
  <1>1. RecsGood' /\ IdleHold'
    BY DEF Batches, RecsGood, IdleHold, OwesFit
  <1>2. ASSUME NEW q \in Run, NEW i \in Id, recs[q][i] # None
        PROVE  /\ rows'[i] # None /\ recs[q][i].count <= rows'[i].events
               /\ recs[q][i].created /\ rows'[i].edited = "since" => rows'[i].events > recs[q][i].count
    <2>1. rows[i] # None /\ recs[q][i].count <= rows[i].events
      BY <1>2 DEF Batches, CountsHold
    <2>2. rows'[i] # None /\ rows'[i].edited = rows[i].edited /\ rows'[i].events >= rows[i].events
      BY <2>1 DEF RowsGrow
    <2>3. rows[i].events \in Nat /\ rows'[i].events \in Nat /\ recs[q][i].count \in Nat
      BY <1>2, <2>1, <2>2 DEF RowsGood, Account, Batches, RecsGood, Rec
    <2>4. recs[q][i].created /\ rows[i].edited = "since" => rows[i].events > recs[q][i].count
      BY <1>2 DEF Batches, SinceCounted
    <2> QED
      BY <2>1, <2>2, <2>3, <2>4
  <1>3. CountsHold' /\ SinceCounted'
    BY <1>2 DEF CountsHold, SinceCounted
  <1>4. ASSUME NEW q \in Run, NEW i \in Id, run'[q].phase = "running", rows'[i] # None,
               \/ recs[q][i] # None /\ recs[q][i].created
               \/ run'[q].owes[i] # None /\ run'[q].owes[i].created
        PROVE  rows'[i].edited # "since"
    <2>1. CASE rows[i] = None
      BY <1>4, <2>1 DEF RowsGrow
    <2>2. CASE rows[i] # None
      <3>1. rows'[i].edited = rows[i].edited
        BY <2>2 DEF RowsGrow
      <3>2. CASE q # r
        <4>1. run'[q] = run[q]
          BY <3>2 DEF OwesFit
        <4> QED
          BY <1>4, <2>2, <3>1, <4>1 DEF Batches, SinceEnded
      <3>3. CASE q = r /\ run[r].phase = "running"
        <4>1. \/ recs[r][i] # None /\ recs[r][i].created
              \/ run[r].owes[i] # None /\ run[r].owes[i].created
              \/ rows'[i].edited = "never"
          BY <1>4, <3>3 DEF OwesFit
        <4> QED
          BY <2>2, <3>1, <3>3, <4>1 DEF Batches, SinceEnded
      <3>4. CASE q = r /\ run[r].phase # "running"
        <4>1. run[r].phase = "idle"
          BY <1>4, <3>4 DEF OwesFit
        <4>2. run[r].owes[i] = None /\ recs[r][i] = None
          BY <4>1, IdleOwes
        <4>3. rows'[i].edited = "never"
          BY <1>4, <3>4, <4>2 DEF OwesFit
        <4> QED
          BY <4>3
      <3> QED
        BY <3>2, <3>3, <3>4
    <2> QED
      BY <2>1, <2>2
  <1>5. SinceEnded'
    BY <1>4 DEF SinceEnded
  <1> QED
    BY <1>1, <1>3, <1>5 DEF Batches

LEMMA UserKeepsBatches ==
    ASSUME RowsGood, RowsGood', Batches, RowsGrow, UNCHANGED <<recs, run>>
    PROVE  Batches'
  <1>1. RecsGood' /\ IdleHold'
    BY DEF Batches, RecsGood, IdleHold
  <1>2. ASSUME NEW q \in Run, NEW i \in Id, recs[q][i] # None
        PROVE  /\ rows'[i] # None /\ recs[q][i].count <= rows'[i].events
               /\ recs[q][i].created /\ rows'[i].edited = "since" => rows'[i].events > recs[q][i].count
    <2>1. rows[i] # None /\ recs[q][i].count <= rows[i].events
      BY <1>2 DEF Batches, CountsHold
    <2>2. rows'[i] # None /\ rows'[i].edited = rows[i].edited /\ rows'[i].events >= rows[i].events
      BY <2>1 DEF RowsGrow
    <2>3. rows[i].events \in Nat /\ rows'[i].events \in Nat /\ recs[q][i].count \in Nat
      BY <1>2, <2>1, <2>2 DEF RowsGood, Account, Batches, RecsGood, Rec
    <2>4. recs[q][i].created /\ rows[i].edited = "since" => rows[i].events > recs[q][i].count
      BY <1>2 DEF Batches, SinceCounted
    <2> QED
      BY <2>1, <2>2, <2>3, <2>4
  <1>3. CountsHold' /\ SinceCounted'
    BY <1>2 DEF CountsHold, SinceCounted
  <1>4. SinceEnded'
    BY DEF Batches, SinceEnded, RowsGrow
  <1> QED
    BY <1>1, <1>3, <1>4 DEF Batches

LEMMA EditKeepsBatches ==
    ASSUME RowsGood, Batches, NEW i, UserEdits(i), UNCHANGED <<recs, run>>
    PROVE  Batches'
  <1>1. RecsGood' /\ IdleHold'
    BY DEF Batches, RecsGood, IdleHold
  <1>2. /\ i \in Id /\ rows[i] # None /\ rows'[i] # None
        /\ rows'[i].events = rows[i].events + 1 /\ rows'[i].edited = Mark
        /\ \A j \in Id \ {i} : rows'[j] = rows[j]
    BY DEF UserEdits
  <1>3. rows[i].events \in Nat
    BY <1>2 DEF RowsGood, Account
  <1>4. \A q \in Run : recs[q][i] # None =>
            recs[q][i].count \in Nat /\ recs[q][i].count <= rows[i].events
    BY <1>2 DEF Batches, RecsGood, Rec, CountsHold
  <1>5. CountsHold'
    BY <1>2, <1>3, <1>4 DEF Batches, CountsHold
  <1>6. SinceCounted'
    BY <1>2, <1>3, <1>4 DEF Batches, SinceCounted
  <1>7. \A q \in Run : run[q].phase = "running" => Mark # "since"
    BY DEF Mark, Running
  <1>8. SinceEnded'
    BY <1>2, <1>7 DEF Batches, SinceEnded
  <1> QED
    BY <1>1, <1>5, <1>6, <1>8 DEF Batches

LEMMA DiscardKeepsBatches ==
    ASSUME RunsGood, RowsGood, Batches, NEW r \in Run, Discard(r)
    PROVE  Batches'
  <1>1. run[r].phase # "idle" /\ recs' = [recs EXCEPT ![r] = NoId] /\ run' = run
    BY DEF Discard
  <1>2. NoId \in [Id -> Rec \cup {None}] /\ \A i \in Id : NoId[i] = None
    BY DEF NoId
  <1>3. recs'[r] = NoId /\ \A q \in Run \ {r} : recs'[q] = recs[q]
    BY <1>1 DEF Batches, RecsGood
  <1>4. RecsGood' /\ IdleHold'
    BY <1>1, <1>2, <1>3 DEF Batches, RecsGood, IdleHold
  <1>5. \A i \in Id : rows'[i] # None =>
            rows[i] # None /\ rows'[i].events = rows[i].events /\ rows'[i].edited = rows[i].edited
    BY DiscardLeaves
  <1>6. ASSUME NEW q \in Run, NEW i \in Id, recs'[q][i] # None
        PROVE  q # r /\ recs'[q][i] = recs[q][i] /\ rows[i] # None /\ rows'[i] # None
    <2>1. q # r /\ recs'[q][i] = recs[q][i]
      BY <1>2, <1>3, <1>6
    <2>2. Named(r, i)
      BY <1>6, <2>1 DEF Named
    <2>3. rows[i] # None
      BY <1>6, <2>1 DEF Batches, CountsHold
    <2> QED
      BY <2>1, <2>2, <2>3, DiscardLeaves, RemovedFacts
  <1>7. CountsHold' /\ SinceCounted'
    BY <1>5, <1>6 DEF Batches, CountsHold, SinceCounted
  <1>8. SinceEnded'
    BY <1>1, <1>5, <1>6 DEF Batches, SinceEnded
  <1> QED
    BY <1>4, <1>7, <1>8 DEF Batches

\* A record merged with another.
LEMMA Merged ==
    ASSUME NEW old \in Rec \cup {None}, NEW new \in Rec, NEW n \in Nat
    PROVE  /\ Merge(old, new, n) \in Rec /\ Merge(old, new, n).count = n
           /\ Merge(old, new, n).created => (old # None /\ old.created) \/ new.created
  <1>1. CASE old = None
    BY <1>1 DEF Merge, Rec
  <1>2. CASE old # None
    <2> DEFINE b == old.created \/ new.created
    <2>1. b \in BOOLEAN /\ (b => old.created \/ new.created)
      BY Zenon
    <2>2. /\ Kept(old.opened, new.opened) \in Date \cup {None}
          /\ Kept(old.closed, new.closed) \in Date \cup {None}
          /\ Kept(old.codes, new.codes) \in Codes \cup {None}
      BY <1>2 DEF Kept, Rec
    <2>3. Merge(old, new, n) = [created |-> b, opened |-> Kept(old.opened, new.opened),
                                closed |-> Kept(old.closed, new.closed),
                                codes |-> Kept(old.codes, new.codes), count |-> n]
      BY <1>2 DEF Merge
    <2> HIDE DEF b
    <2>4. Merge(old, new, n) \in Rec /\ Merge(old, new, n).count = n /\ (Merge(old, new, n).created = b)
      BY <2>1, <2>2, <2>3 DEF Rec
    <2> QED
      BY <1>2, <2>1, <2>4
  <1> QED
    BY <1>1, <1>2

\* What each step of a run leaves owed.
LEMMA QuietOwes ==
    ASSUME RunsGood, NEW r \in Run,
           \/ \E doc \in Documents : Begin(r, doc)
           \/ \E k \in run[r].todo : Decide(r, k) \/ FailToRead(r, k)
           \/ RefuseCreate(r) \/ Finish(r) \/ Crash(r)
    PROVE  OwesFit(r)
  <1>1. CASE \E doc \in Documents : Begin(r, doc)
    <2>1. run[r].phase = "idle"
      BY <1>1 DEF Begin
    <2>2. \E D, T, K : run' = [run EXCEPT ![r].phase = "running", ![r].doc = D, ![r].todo = T, ![r].known = K]
      BY <1>1 DEF Begin
    <2> QED
      BY <2>1, <2>2 DEF OwesFit, RunsGood, RunState
  <1>2. CASE \E k \in run[r].todo : Decide(r, k)
    <2>1. PICK k \in run[r].todo : Decide(r, k)
      BY <1>2
    <2>2. run[r].phase = "running"
      BY <2>1 DEF Decide, Deciding
    <2>3. \E C, S : run' = [run EXCEPT ![r].todo = run[r].todo \ {k}, ![r].cache = C, ![r].steps = S]
      BY <2>1 DEF Decide
    <2> QED
      BY <2>2, <2>3 DEF OwesFit, RunsGood, RunState
  <1>3. CASE RefuseCreate(r)
    <2>1. run[r].phase = "running" /\ run' = [run EXCEPT ![r].steps = Tail(@)]
      BY <1>3 DEF RefuseCreate, Refused, Writing
    <2> QED
      BY <2>1 DEF OwesFit, RunsGood, RunState
  <1>4. CASE (\E k \in run[r].todo : FailToRead(r, k)) \/ Finish(r) \/ Crash(r)
    <2>1. \E ph \in {"stopped", "closed"} : run' = [run EXCEPT ![r] = [Idle EXCEPT !.phase = ph]]
      BY <1>4 DEF FailToRead, Finish, Crash
    <2>2. \A ph \in {"stopped", "closed"} : [Idle EXCEPT !.phase = ph].phase = ph
      BY DEF Idle
    <2> QED
      BY <2>1, <2>2 DEF OwesFit, RunsGood
  <1> QED
    BY <1>1, <1>2, <1>3, <1>4

LEMMA WrittenOwes ==
    ASSUME RunsGood, NEW r \in Run, NEW i \in Id, NEW rec \in Rec, rec.created = FALSE, NEW C,
           run[r].phase = "running",
           run' = [run EXCEPT ![r].steps = Tail(@), ![r].cache = C, ![r].owes = [NoId EXCEPT ![i] = rec]]
    PROVE  OwesFit(r)
  <1> DEFINE O == [NoId EXCEPT ![i] = rec]
  <1>1. \A j \in Id : O[j] = None \/ O[j].created = FALSE
    BY DEF NoId
  <1> HIDE DEF O
  <1>2. /\ run'[r].owes = O /\ run'[r].phase = "running"
        /\ \A q \in Run \ {r} : run'[q] = run[q]
    <2> DEFINE S == Tail(run[r].steps)
               X == [run[r] EXCEPT !.steps = S, !.cache = C, !.owes = O]
    <2>1. run' = [run EXCEPT ![r] = X]
      BY DEF RunsGood, O
    <2> HIDE DEF S
    <2>2. X.owes = O /\ X.phase = run[r].phase
      BY DEF RunsGood, RunState
    <2> HIDE DEF X
    <2> QED
      BY <2>1, <2>2 DEF RunsGood
  <1> QED
    BY <1>1, <1>2 DEF OwesFit

LEMMA RefusedOwes ==
    ASSUME RunsGood, NEW r \in Run, run[r].phase = "running", NEW C,
           \/ run' = [run EXCEPT ![r].steps = Tail(@)]
           \/ run' = [run EXCEPT ![r].steps = Tail(@), ![r].cache = C]
    PROVE  OwesFit(r)
  <1> DEFINE S == Tail(run[r].steps)
             X == [run[r] EXCEPT !.steps = S]
             Y == [run[r] EXCEPT !.steps = S, !.cache = C]
  <1>1. run' = [run EXCEPT ![r] = X] \/ run' = [run EXCEPT ![r] = Y]
    BY DEF RunsGood
  <1> HIDE DEF S
  <1>2. /\ X.owes = run[r].owes /\ X.phase = run[r].phase
        /\ Y.owes = run[r].owes /\ Y.phase = run[r].phase
    BY DEF RunsGood, RunState
  <1> HIDE DEF X, Y
  <1>3. /\ run'[r].owes = run[r].owes /\ run'[r].phase = run[r].phase
        /\ \A q \in Run \ {r} : run'[q] = run[q]
    BY <1>1, <1>2 DEF RunsGood
  <1> QED
    BY <1>3 DEF OwesFit

LEMMA WriteOwes ==
    ASSUME RunsGood, RowsGood, NEW r \in Run, SetOpenedOn(r) \/ SetCommodities(r) \/ Close(r)
    PROVE  OwesFit(r)
  <1> DEFINE s == Head(run[r].steps)
  <1>1. CASE SetOpenedOn(r)
    <2>1. run[r].phase = "running" /\ s.id \in Id /\ s.date \in Date
      BY <1>1, AtStep DEF SetOpenedOn, Writing, Step
    <2> DEFINE rec == [Nothing EXCEPT !.opened = s.date]
    <2>2. rec \in Rec /\ rec.created = FALSE
      BY <2>1, RecTypes
    <2>3. \/ \E C : run' = [run EXCEPT ![r].steps = Tail(@), ![r].cache = C, ![r].owes = [NoId EXCEPT ![s.id] = rec]]
          \/ run' = [run EXCEPT ![r].steps = Tail(@)]
      BY <1>1 DEF SetOpenedOn, Wrote, Refused
    <2> HIDE DEF s, rec
    <2> QED
      BY <2>1, <2>2, <2>3, WrittenOwes, RefusedOwes
  <1>2. CASE SetCommodities(r)
    <2>1. run[r].phase = "running" /\ s.id \in Id /\ s.codes \in Codes \cup {None}
      BY <1>2, AtStep DEF SetCommodities, Writing, Step
    <2> DEFINE rec == [Nothing EXCEPT !.codes = s.codes]
    <2>2. rec \in Rec /\ rec.created = FALSE
      BY <2>1, RecTypes
    <2>3. \/ \E C : run' = [run EXCEPT ![r].steps = Tail(@), ![r].cache = C, ![r].owes = [NoId EXCEPT ![s.id] = rec]]
          \/ run' = [run EXCEPT ![r].steps = Tail(@)]
      BY <1>2 DEF SetCommodities, Wrote, Refused
    <2> HIDE DEF s, rec
    <2> QED
      BY <2>1, <2>2, <2>3, WrittenOwes, RefusedOwes
  <1>3. CASE Close(r)
    <2>1. Writing(r, "close")
      BY <1>3 DEF Close
    <2>2. run[r].phase = "running" /\ s.id \in Id /\ s.date \in Date
      BY <2>1, AtStep DEF Writing, Step
    <2> DEFINE rec == [Nothing EXCEPT !.closed = s.date]
    <2>3. rec \in Rec /\ rec.created = FALSE
      BY <2>2, RecTypes
    <2>4. \/ \E C : run' = [run EXCEPT ![r].steps = Tail(@), ![r].cache = C, ![r].owes = [NoId EXCEPT ![s.id] = rec]]
          \/ \E C : run' = [run EXCEPT ![r].steps = Tail(@), ![r].cache = C]
      BY <1>3 DEF Close
    <2> HIDE DEF s, rec
    <2> QED
      BY <2>2, <2>3, <2>4, WrittenOwes, RefusedOwes
  <1> QED
    BY <1>1, <1>2, <1>3

LEMMA CreateOwes ==
    ASSUME RunsGood, RowsGood, NEW r \in Run, Create(r)
    PROVE  OwesFit(r)
  <1>1. run[r].phase = "running"
    BY DEF Create, Writing
  <1>2. PICK minted :
          /\ CreatedIn(rows', Range(minted))
          /\ run'[r].owes = [i \in Id |-> IF i \in Range(minted) THEN [Nothing EXCEPT !.created = TRUE]
                                          ELSE None]
          /\ run'[r].phase = "running" /\ \A q \in Run \ {r} : run'[q] = run[q]
    BY CreateMeans
  <1>3. \A i \in Id : run'[r].owes[i] # None => rows'[i].edited = "never"
    BY <1>2 DEF CreatedIn, NewUnder
  <1> QED
    BY <1>1, <1>2, <1>3 DEF OwesFit

LEMMA RecordKeepsBatches ==
    ASSUME RunsGood, RowsGood, RowsGood', RowsGrow, Batches, NEW r \in Run, Record(r)
    PROVE  Batches'
  <1>1. run[r].phase = "running" /\ UNCHANGED rows
    BY DEF Record
  <1>2. CASE /\ \A i \in Id : run[r].owes[i] # None => rows[i] # None
             /\ recs' = [recs EXCEPT ![r] = [i \in Id |->
                           IF run[r].owes[i] = None THEN recs[r][i]
                           ELSE Merge(recs[r][i], run[r].owes[i], rows[i].events)]]
             /\ run' = [run EXCEPT ![r].owes = NoId]
    <2>1. /\ run'[r].owes = NoId /\ run'[r].phase = "running"
          /\ \A q \in Run \ {r} : run'[q] = run[q]
      BY <1>1, <1>2 DEF RunsGood, RunState
    <2>2. /\ \A q \in Run \ {r} : recs'[q] = recs[q]
          /\ \A i \in Id : recs'[r][i] = IF run[r].owes[i] = None THEN recs[r][i]
                                         ELSE Merge(recs[r][i], run[r].owes[i], rows[i].events)
          /\ recs'[r] = [i \in Id |-> recs'[r][i]]
          /\ recs' = [recs EXCEPT ![r] = recs'[r]]
      BY <1>2 DEF Batches, RecsGood
    <2>3. \A i \in Id : recs[r][i] \in Rec \cup {None} /\ run[r].owes[i] \in Rec \cup {None}
      BY DEF Batches, RecsGood, RunsGood, RunState
    <2>4. ASSUME NEW i \in Id, run[r].owes[i] # None
          PROVE  /\ recs'[r][i] \in Rec /\ recs'[r][i].count = rows[i].events /\ rows[i] # None
                 /\ rows[i].events \in Nat
                 /\ recs'[r][i].created => (recs[r][i] # None /\ recs[r][i].created) \/ run[r].owes[i].created
      <3> DEFINE old == recs[r][i]
                 new == run[r].owes[i]
                 n == rows[i].events
      <3>1. rows[i] # None /\ n \in Nat /\ new \in Rec /\ old \in Rec \cup {None}
        BY <1>2, <2>3, <2>4 DEF RowsGood, Account
      <3>2. recs'[r][i] = Merge(old, new, n)
        BY <2>2, <2>4
      <3> HIDE DEF old, new, n
      <3>3. /\ Merge(old, new, n) \in Rec /\ Merge(old, new, n).count = n
            /\ Merge(old, new, n).created => (old # None /\ old.created) \/ new.created
        BY <3>1, Merged
      <3>4. /\ recs'[r][i] \in Rec /\ recs'[r][i].count = n
            /\ recs'[r][i].created => (old # None /\ old.created) \/ new.created
        BY <3>2, <3>3
      <3> QED
        BY <3>1, <3>4 DEF old, new, n
    <2>5. RecsGood'
      <3>1. \A i \in Id : recs'[r][i] \in Rec \cup {None}
        BY <2>2, <2>3, <2>4
      <3>2. recs'[r] \in [Id -> Rec \cup {None}]
        BY <2>2, <3>1
      <3> QED
        BY <2>2, <3>2 DEF Batches, RecsGood
    <2>6. IdleHold'
      BY <2>1, <2>2 DEF Batches, IdleHold
    <2>7. \A i \in Id : run[r].owes[i] = None => recs'[r][i] = recs[r][i]
      BY <2>2
    <2>8. CountsHold'
      BY <1>1, <2>2, <2>4, <2>7 DEF Batches, CountsHold
    <2>9. \A i \in Id : /\ run[r].owes[i] # None \/ run'[r].phase = "running"
                        /\ rows[i] # None /\ recs'[r][i] # None /\ recs'[r][i].created
                        => rows[i].edited # "since"
      BY <1>1, <2>4, <2>7 DEF Batches, SinceEnded
    <2>10. SinceCounted'
      BY <1>1, <2>1, <2>2, <2>4, <2>7, <2>9 DEF Batches, SinceCounted
    <2>11. \A i \in Id : run'[r].owes[i] = None
      BY <2>1 DEF NoId
    <2>12. SinceEnded'
      BY <1>1, <2>1, <2>2, <2>9, <2>11 DEF Batches, SinceEnded
    <2> QED
      BY <2>5, <2>6, <2>8, <2>10, <2>12 DEF Batches
  <1>3. CASE run' = [run EXCEPT ![r] = [Idle EXCEPT !.phase = "stopped"]] /\ UNCHANGED recs
    <2>1. [Idle EXCEPT !.phase = "stopped"].phase = "stopped"
      BY DEF Idle
    <2>2. OwesFit(r)
      BY <1>3, <2>1 DEF OwesFit, RunsGood
    <2> QED
      BY <1>3, <2>2, WorkKeepsBatches
  <1> QED
    BY <1>2, <1>3 DEF Record

-----------------------------------------------------------------------------
(* The invariant.                                                          *)

Bounds == discarded \subseteq Run /\ edits \in 0 .. MaxEdits /\ crashes \in 0 .. MaxCrashes
Inv == RunsGood /\ RowsGood /\ WindowsNest /\ Batches /\ Bounds

LEMMA InitInv == Init => Inv
  <1> SUFFICES ASSUME Init PROVE Inv
    OBVIOUS
  <1>1. GoodRun(Idle) /\ Idle \in RunState
    <2>1. <<>> \in Seq(Declaration) /\ <<>> \in Seq(Step)
      OBVIOUS
    <2>2. NoId \in [Id -> Account \cup {None}] /\ NoId \in [Id -> Rec \cup {None}]
      BY DEF NoId
    <2>3. [p \in Path |-> None] \in [Path -> Id \cup {None}]
      OBVIOUS
    <2>4. Idle \in RunState
      BY <2>1, <2>2, <2>3 DEF Idle, RunState, Phase
    <2>5. Idle.todo = {} /\ Idle.made = {} /\ Idle.steps = <<>>
      BY DEF Idle
    <2> QED
      BY <2>4, <2>5 DEF GoodRun, StepsFit
  <1>2. RunsGood
    BY <1>1 DEF Init, RunsGood
  <1>3. RowsGood /\ WindowsNest
    BY DEF Init, RowsGood, WindowsNest, Live
  <1>4. NoId \in [Id -> Rec \cup {None}] /\ \A i \in Id : NoId[i] = None
    BY DEF NoId
  <1>5. Batches
    <2>1. RecsGood /\ IdleHold /\ CountsHold /\ SinceCounted
      BY <1>4 DEF Init, RecsGood, IdleHold, CountsHold, SinceCounted
    <2>2. \A r \in Run : run[r].phase = "idle"
      BY DEF Init, Idle
    <2> QED
      BY <2>1, <2>2 DEF Batches, SinceEnded
  <1>6. Bounds
    BY DeclarationsAssumption DEF Init, Bounds
  <1> QED
    BY <1>2, <1>3, <1>5, <1>6 DEF Inv

LEMMA WorkInv ==
    ASSUME Inv, NEW r \in Run, Work(r)
    PROVE  RunsGood' /\ RowsGood' /\ WindowsNest' /\ Batches'
  <1>1. RunsGood /\ RowsGood /\ WindowsNest /\ Batches
    BY DEF Inv
  <1>2. CASE \E k \in run[r].todo : Decide(r, k) \/ FailToRead(r, k)
    <2>1. RunsGood'
      BY <1>1, <1>2, DecideGood, StopsGood DEF FailToRead, Phase
    <2>2. UNCHANGED <<rows, recs>>
      BY <1>2 DEF Decide, FailToRead
    <2> QED
      BY <1>1, <1>2, <2>1, <2>2, RowsStay, QuietOwes, WorkKeepsBatches
  <1>3. CASE SetOpenedOn(r)
    BY <1>1, <1>3, SetOpenedOnGood, SetOpenedOnRows, WriteOwes, WorkKeepsBatches DEF SetOpenedOn
  <1>4. CASE SetCommodities(r)
    BY <1>1, <1>4, SetCommoditiesGood, SetCommoditiesRows, WriteOwes, WorkKeepsBatches DEF SetCommodities
  <1>5. CASE Close(r)
    BY <1>1, <1>5, CloseGood, CloseRows, WriteOwes, WorkKeepsBatches DEF Close
  <1>6. CASE Create(r)
    <2>1. UNCHANGED recs
      BY <1>6 DEF Create
    <2>2. RunsGood' /\ RowsGood' /\ WindowsNest' /\ RowsGrow
      BY <1>1, <1>6, CreateMeans, RowsCreated
    <2> QED
      BY <1>1, <1>6, <2>1, <2>2, CreateOwes, WorkKeepsBatches
  <1>7. CASE RefuseCreate(r)
    <2>1. UNCHANGED <<rows, recs>> /\ run[r].steps # <<>> /\ run' = [run EXCEPT ![r].steps = Tail(@)]
      BY <1>7 DEF RefuseCreate, Refused, Writing
    <2>2. RunsGood'
      BY <1>1, <2>1, RefusedGood
    <2> QED
      BY <1>1, <1>7, <2>1, <2>2, RowsStay, QuietOwes, WorkKeepsBatches
  <1>8. CASE Record(r)
    <2>1. UNCHANGED rows
      BY <1>8 DEF Record
    <2> QED
      BY <1>1, <1>8, <2>1, RecordGood, RowsStay, RecordKeepsBatches
  <1>9. CASE Finish(r)
    <2>1. UNCHANGED <<rows, recs>>
          /\ \E ph \in Phase : run' = [run EXCEPT ![r] = [Idle EXCEPT !.phase = ph]]
      BY <1>9 DEF Finish, Phase
    <2>2. RunsGood'
      BY <1>1, <2>1, StopsGood
    <2> QED
      BY <1>1, <1>9, <2>1, <2>2, RowsStay, QuietOwes, WorkKeepsBatches
  <1> QED
    BY <1>2, <1>3, <1>4, <1>5, <1>6, <1>7, <1>8, <1>9 DEF Work

LEMMA UserInv ==
    ASSUME Inv, UserStep
    PROVE  RunsGood' /\ RowsGood' /\ WindowsNest' /\ Batches'
  <1>1. RunsGood /\ RowsGood /\ WindowsNest /\ Batches
    BY DEF Inv
  <1>2. UNCHANGED <<recs, run>>
    BY DEF UserStep, UserSet, UserClose, UserReopen, Use, UserCreate, Edit
  <1>3. RunsGood'
    BY <1>1, <1>2 DEF RunsGood
  <1>4. CASE \E i \in Id : \/ (\E on \in Date : UserSet(i, "opened", on))
                           \/ (\E list \in Codes : UserSet(i, "codes", list))
                           \/ UserReopen(i) \/ (\E on \in Date : UserClose(i, on))
    <2>1. PICK i \in Id : RowsGood' /\ WindowsNest' /\ UserEdits(i)
      BY <1>1, <1>4, UserSetRows, UserCloseRows
    <2> QED
      BY <1>1, <1>2, <1>3, <2>1, EditKeepsBatches
  <1>5. CASE (\E i \in Id : Use(i)) \/ (\E p \in Path : UserCreate(p))
    <2>1. RowsGood' /\ WindowsNest' /\ RowsGrow
      BY <1>1, <1>5, UseRows, UserCreateRows
    <2> QED
      BY <1>1, <1>2, <1>3, <2>1, UserKeepsBatches
  <1> QED
    BY <1>4, <1>5 DEF UserStep

\* A run touches neither what is discarded nor, but by dying, what is counted.
LEMMA RunCounts ==
    ASSUME NEW r \in Run, RunStep(r)
    PROVE  UNCHANGED <<discarded, edits>> /\ (UNCHANGED crashes \/ Crash(r))
  <1>1. CASE \E k \in run[r].todo : Decide(r, k) \/ FailToRead(r, k)
    BY <1>1 DEF Decide, FailToRead
  <1>2. CASE SetOpenedOn(r) \/ SetCommodities(r)
    BY <1>2 DEF SetOpenedOn, SetCommodities
  <1>3. CASE Close(r)
    BY <1>3 DEF Close
  <1>4. CASE Create(r) \/ RefuseCreate(r)
    BY <1>4 DEF Create, RefuseCreate
  <1>5. CASE Record(r) \/ Finish(r)
    BY <1>5 DEF Record, Finish
  <1>6. CASE Crash(r) \/ \E doc \in Documents : Begin(r, doc)
    BY <1>6 DEF Crash, Begin
  <1> QED
    BY <1>1, <1>2, <1>3, <1>4, <1>5, <1>6 DEF RunStep, Work

LEMMA UserCounts ==
    ASSUME UserStep
    PROVE  edits < MaxEdits /\ edits' = edits + 1 /\ UNCHANGED <<run, discarded, crashes>>
  BY DEF UserStep, UserSet, UserClose, UserReopen, Use, UserCreate, Edit

LEMMA BoundsHold ==
    ASSUME Bounds, Next
    PROVE  Bounds'
  <1>0. edits \in Nat /\ crashes \in Nat /\ MaxEdits \in Nat /\ MaxCrashes \in Nat
    BY DeclarationsAssumption DEF Bounds
  <1>1. CASE \E r \in Run : RunStep(r) /\ UNCHANGED crashes
    BY <1>1, RunCounts DEF Bounds
  <1>2. CASE \E r \in Run : Crash(r)
    BY <1>0, <1>2 DEF Crash, Bounds
  <1>3. CASE \E r \in Run : Discard(r)
    BY <1>3 DEF Discard, Bounds
  <1>4. CASE UserStep
    BY <1>0, <1>4, UserCounts DEF Bounds
  <1> QED
    BY <1>1, <1>2, <1>3, <1>4, RunCounts DEF Next

LEMMA NextInv == Inv /\ [Next]_vars => Inv'
  <1> SUFFICES ASSUME Inv, [Next]_vars PROVE Inv'
    OBVIOUS
  <1>1. RunsGood /\ RowsGood /\ WindowsNest /\ Batches /\ Bounds
    BY DEF Inv
  <1>2. CASE UNCHANGED vars
    <2>1. UNCHANGED <<rows, recs, run, discarded, edits, crashes>>
      BY <1>2 DEF vars
    <2>2. RowsGood' /\ WindowsNest' /\ RowsGrow
      BY <1>1, <2>1, RowsStay
    <2>3. RunsGood' /\ Bounds'
      BY <1>1, <2>1 DEF RunsGood, Bounds
    <2>4. Batches'
      BY <1>1, <2>1, <2>2, UserKeepsBatches
    <2> QED
      BY <2>2, <2>3, <2>4 DEF Inv
  <1>3. CASE Next
    <2>1. Bounds'
      BY <1>1, <1>3, BoundsHold
    <2>2. RunsGood' /\ RowsGood' /\ WindowsNest' /\ Batches'
      <3>1. CASE \E r \in Run : Work(r)
        BY <3>1, WorkInv
      <3>2. CASE \E r \in Run : \E doc \in Documents : Begin(r, doc)
        <4>1. PICK r \in Run, doc \in Documents : Begin(r, doc)
          BY <3>2
        <4>2. UNCHANGED <<rows, recs>> /\ RunsGood'
          BY <1>1, <4>1, BeginGood DEF Begin
        <4> QED
          BY <1>1, <4>1, <4>2, RowsStay, QuietOwes, WorkKeepsBatches
      <3>3. CASE \E r \in Run : Crash(r)
        <4>1. PICK r \in Run : Crash(r)
          BY <3>3
        <4>2. UNCHANGED <<rows, recs>> /\ RunsGood'
          BY <1>1, <4>1, StopsGood DEF Crash, Phase
        <4> QED
          BY <1>1, <4>1, <4>2, RowsStay, QuietOwes, WorkKeepsBatches
      <3>4. CASE \E r \in Run : Discard(r)
        <4>1. PICK r \in Run : Discard(r)
          BY <3>4
        <4>2. RunsGood'
          BY <1>1, <4>1 DEF Discard, RunsGood
        <4> QED
          BY <1>1, <4>1, <4>2, DiscardRows, DiscardKeepsBatches
      <3>5. CASE UserStep
        BY <3>5, UserInv
      <3> QED
        BY <1>3, <3>1, <3>2, <3>3, <3>4, <3>5 DEF Next, RunStep
    <2> QED
      BY <2>1, <2>2 DEF Inv
  <1> QED
    BY <1>2, <1>3

\* Declarations.tla: the runs' decided steps fit their copies, windows nest and
\* batches record accounts that stand, in every reachable state.
THEOREM DeclarationsInvariant == Spec => []Inv
  BY InitInv, NextInv, PTL DEF Spec

\* Every variable keeps its type.
THEOREM DeclarationsTypes == Spec => []TypeOK
  <1>1. Inv => TypeOK
    BY DEF Inv, TypeOK, RunsGood, GoodRun, RowsGood, Batches, RecsGood, Bounds
  <1> QED
    BY <1>1, DeclarationsInvariant, PTL

\* account.rs: whatever runs, discards and the user do in whatever order, no account
\* closes before it opened, and none is open under a closed parent.
THEOREM WindowsAlwaysNest == Spec => []WindowsNest
  <1>1. Inv => WindowsNest
    BY DEF Inv
  <1> QED
    BY <1>1, DeclarationsInvariant, PTL

-----------------------------------------------------------------------------
(* What a step may never do.                                               *)

\* A step of run r leaves the filled fields of its copies as they are stored.
FilledStays(r) ==
    \A i \in Live : \A field \in {"opened", "codes"} :
        run[r].cache[i] # None /\ run[r].cache[i][field] # None => rows'[i][field] = rows[i][field]

LEMMA SetStays ==
    ASSUME RowsGood, NEW i \in Id, NEW field \in {"opened", "closed", "codes"}, NEW value,
           rows[i] # None,
           rows' = Set(i, field, value) \/ rows' = [rows EXCEPT ![i] = Change(@, field, value)]
    PROVE  /\ \A j \in Id \ {i} : rows'[j] = rows[j]
           /\ rows'[i].used = rows[i].used
           /\ \A other \in {"opened", "codes"} : other # field => rows'[i][other] = rows[i][other]
  <1>1. rows[i] \in Account /\ (rows' = rows \/ rows' = [rows EXCEPT ![i] = Change(rows[i], field, value)])
    BY DEF Set, RowsGood
  <1>2. CASE rows' = rows
    BY <1>2
  <1>3. CASE rows' = [rows EXCEPT ![i] = Change(rows[i], field, value)]
    <2>1. rows'[i] = Change(rows[i], field, value) /\ \A j \in Id \ {i} : rows'[j] = rows[j]
      BY <1>3 DEF RowsGood
    <2>2. CASE field = "opened"
      <3>1. /\ Change(rows[i], field, value).codes = rows[i].codes
            /\ Change(rows[i], field, value).used = rows[i].used
        BY <1>1, <2>2 DEF Change, Account
      <3> QED
        BY <2>1, <2>2, <3>1
    <2>3. CASE field = "closed"
      <3>1. /\ Change(rows[i], field, value).codes = rows[i].codes
            /\ Change(rows[i], field, value).opened = rows[i].opened
            /\ Change(rows[i], field, value).used = rows[i].used
        BY <1>1, <2>3 DEF Change, Account
      <3> QED
        BY <2>1, <2>3, <3>1
    <2>4. CASE field = "codes"
      <3>1. /\ Change(rows[i], field, value).opened = rows[i].opened
            /\ Change(rows[i], field, value).used = rows[i].used
        BY <1>1, <2>4 DEF Change, Account
      <3> QED
        BY <2>1, <2>4, <3>1
    <2> QED
      BY <2>2, <2>3, <2>4
  <1> QED
    BY <1>1, <1>2, <1>3

LEMMA WriteStays ==
    ASSUME RunsGood, RowsGood, NEW r \in Run, SetOpenedOn(r) \/ SetCommodities(r) \/ Close(r)
    PROVE  FilledStays(r)
  <1> DEFINE s == Head(run[r].steps)
  <1>1. CASE UNCHANGED rows
    BY <1>1 DEF FilledStays
  <1>2. CASE SetOpenedOn(r) /\ rows' # rows
    <2>1. s.id \in Id /\ run[r].cache[s.id].opened = None
      <3>1. Writing(r, "open")
        BY <1>2 DEF SetOpenedOn
      <3> QED
        BY <3>1, AtStep
    <2>2. rows[s.id] # None /\ rows' = Set(s.id, "opened", s.date)
      BY <1>2 DEF SetOpenedOn, MayOpen, Refused
    <2> HIDE DEF s
    <2>3. /\ \A j \in Id \ {s.id} : rows'[j] = rows[j]
          /\ rows'[s.id]["codes"] = rows[s.id]["codes"]
      BY <2>1, <2>2, SetStays
    <2> QED
      BY <2>1, <2>3 DEF FilledStays, Live
  <1>3. CASE SetCommodities(r) /\ rows' # rows
    <2>1. s.id \in Id /\ run[r].cache[s.id].codes = None
      <3>1. Writing(r, "codes")
        BY <1>3 DEF SetCommodities
      <3> QED
        BY <3>1, AtStep
    <2>2. rows[s.id] # None /\ rows' = Set(s.id, "codes", s.codes)
      BY <1>3 DEF SetCommodities, Refused
    <2> HIDE DEF s
    <2>3. /\ \A j \in Id \ {s.id} : rows'[j] = rows[j]
          /\ rows'[s.id]["opened"] = rows[s.id]["opened"]
      BY <2>1, <2>2, SetStays
    <2> QED
      BY <2>1, <2>3 DEF FilledStays, Live
  <1>4. CASE Close(r) /\ rows' # rows
    <2>1. s.id \in Id
      <3>1. Writing(r, "close")
        BY <1>4 DEF Close
      <3> QED
        BY <3>1, AtStep
    <2>2. rows[s.id] # None /\ rows' = [rows EXCEPT ![s.id] = Change(@, "closed", s.date)]
      BY <1>4 DEF Close, MayClose
    <2> HIDE DEF s
    <2>3. /\ \A j \in Id \ {s.id} : rows'[j] = rows[j]
          /\ rows'[s.id]["codes"] = rows[s.id]["codes"]
          /\ rows'[s.id]["opened"] = rows[s.id]["opened"]
      BY <2>1, <2>2, SetStays
    <2> QED
      BY <2>1, <2>3 DEF FilledStays, Live
  <1> QED
    BY <1>1, <1>2, <1>3, <1>4

LEMMA RunStays ==
    ASSUME Inv, NEW r \in Run, RunStep(r)
    PROVE  FilledStays(r) /\ \A q \in Run \ {r} : run'[q] = run[q]
  <1>1. RunsGood /\ RowsGood
    BY DEF Inv
  <1>2. CASE SetOpenedOn(r) \/ SetCommodities(r) \/ Close(r)
    BY <1>1, <1>2, WriteStays, WriteOwes DEF OwesFit
  <1>3. CASE Create(r)
    <2>1. PICK minted : CreatedIn(rows', Range(minted)) /\ \A q \in Run \ {r} : run'[q] = run[q]
      BY <1>1, <1>3, CreateMeans
    <2>2. \A i \in Live : rows'[i] = rows[i]
      BY <2>1, FreshIds DEF CreatedIn, Live
    <2> QED
      BY <2>1, <2>2 DEF FilledStays
  <1>4. CASE Record(r)
    <2>1. UNCHANGED rows /\ \A q \in Run \ {r} : run'[q] = run[q]
      BY <1>1, <1>4 DEF Record, RunsGood
    <2> QED
      BY <2>1 DEF FilledStays
  <1>5. CASE \/ \E doc \in Documents : Begin(r, doc)
             \/ \E k \in run[r].todo : Decide(r, k) \/ FailToRead(r, k)
             \/ RefuseCreate(r) \/ Finish(r) \/ Crash(r)
    <2>1. UNCHANGED rows
      BY <1>5 DEF Begin, Decide, FailToRead, RefuseCreate, Refused, Finish, Crash
    <2>2. OwesFit(r)
      BY <1>1, <1>5, QuietOwes
    <2> QED
      BY <2>1, <2>2 DEF FilledStays, OwesFit
  <1> QED
    BY <1>2, <1>3, <1>4, <1>5 DEF RunStep, Work

\* docs/DESIGN.md: a declaration fills an account's empty fields and leaves a value
\* that was stored when the run read the account, whatever was written since.
THEOREM StoredValuesStand == Spec => StoredStands
  <1> DEFINE A == \A r \in Run : run'[r] # run[r] =>
                     \A i \in Live : \A field \in {"opened", "codes"} :
                        run[r].cache[i] # None /\ run[r].cache[i][field] # None =>
                            rows'[i][field] = rows[i][field]
  <1>1. Inv /\ [Next]_vars => [A]_vars
    <2> SUFFICES ASSUME Inv, Next PROVE A
      OBVIOUS
    <2>1. CASE UserStep \/ \E r \in Run : Discard(r)
      <3>1. UNCHANGED run
        BY <2>1, UserCounts DEF Discard
      <3> QED
        BY <3>1
    <2>2. CASE \E r \in Run : RunStep(r)
      <3>1. PICK r \in Run : RunStep(r)
        BY <2>2
      <3>2. FilledStays(r) /\ \A q \in Run \ {r} : run'[q] = run[q]
        BY <3>1, RunStays
      <3> QED
        BY <3>2 DEF FilledStays
    <2> QED
      BY <2>1, <2>2 DEF Next
  <1>2. Spec => [][A]_vars
    BY <1>1, DeclarationsInvariant, InitInv, NextInv, PTL DEF Spec
  <1> QED
    BY <1>2 DEF StoredStands

\* discard.rs, is_account_named: what a discard removes nobody has used, filled or
\* edited since, and no account that stays is under it.
THEOREM DiscardsSpareNamed == Spec => DiscardSparesNamed
  <1> DEFINE A == discarded' # discarded =>
                     \A i \in Live : rows'[i] = None =>
                        /\ ~ rows[i].used /\ rows[i].edited # "since"
                        /\ \A c \in Id : rows'[c] # None => rows'[c].parent # i
                        /\ \A q \in Run \ (discarded' \ discarded) : recs[q][i] = None
  <1>1. Inv /\ [Next]_vars => [A]_vars
    <2> SUFFICES ASSUME Inv, Next, discarded' # discarded, NEW i \in Live, rows'[i] = None
                 PROVE  /\ ~ rows[i].used /\ rows[i].edited # "since"
                        /\ \A c \in Id : rows'[c] # None => rows'[c].parent # i
                        /\ \A q \in Run \ (discarded' \ discarded) : recs[q][i] = None
      OBVIOUS
    <2>1. RowsGood /\ Batches
      BY DEF Inv
    <2>2. PICK r \in Run : Discard(r)
      <3>1. UNCHANGED discarded \/ \E r \in Run : Discard(r)
        BY RunCounts, UserCounts DEF Next
      <3> QED
        BY <3>1
    <2>3. discarded' \ discarded = {r}
      BY <2>2 DEF Discard
    <2>4. i \in Id /\ rows[i] # None /\ i \in Removed(r)
      BY <2>1, <2>2, DiscardLeaves DEF Live
    <2>5. i \in Made(r) /\ ~ Named(r, i) /\ Children(i) \subseteq Removed(r)
      BY <2>4, RemovedFacts
    <2>6. ~ rows[i].used /\ (\A q \in Run \ {r} : recs[q][i] = None)
          /\ ~ (rows[i].events > recs[r][i].count)
      BY <2>5 DEF Named
    <2>7. rows[i].edited # "since"
      BY <2>1, <2>4, <2>5, <2>6 DEF Batches, SinceCounted, Made, Recorded
    <2>8. ASSUME NEW c \in Id, rows'[c] # None, rows'[c].parent = i
          PROVE  FALSE
      <3>1. rows[c] # None /\ rows[c].parent = i /\ c \notin Removed(r)
        BY <2>1, <2>2, <2>8, DiscardLeaves
      <3> QED
        BY <2>5, <3>1 DEF Children, Live
    <2> QED
      BY <2>3, <2>6, <2>7, <2>8
  <1>2. Spec => [][A]_vars
    BY <1>1, DeclarationsInvariant, InitInv, NextInv, PTL DEF Spec
  <1> QED
    BY <1>2 DEF DiscardSparesNamed

-----------------------------------------------------------------------------
(* One run alone.                                                          *)

\* Account i is one that run r made and recorded, or has yet to record.
Undoable(r, i) ==
    /\ rows[i].used = FALSE
    /\ IF run[r].owes[i] # None
       THEN run[r].owes[i].created \/ (recs[r][i] # None /\ recs[r][i].created)
       ELSE recs[r][i] # None /\ recs[r][i].created /\ rows[i].events <= recs[r][i].count

Alone(r) == edits = 0 /\ \A q \in Run : q # r => run[q].phase = "idle"
AloneHold(r) ==
    /\ run[r].phase = "idle" => Live = {}
    /\ run[r].phase = "closed" => run[r].owes = NoId
    /\ run[r].phase \in {"running", "closed"} /\ r \notin discarded => \A i \in Live : Undoable(r, i)
    /\ run[r].phase = "closed" /\ r \in discarded => Live = {}

\* A step that writes one field: of one account, whose record is owed then.
WritesOne(r) ==
    \/ UNCHANGED rows /\ run'[r].owes = NoId
    \/ \E i \in Id : /\ rows[i] # None /\ rows'[i] # None /\ rows'[i].used = rows[i].used
                     /\ \A j \in Id \ {i} : rows'[j] = rows[j] /\ run'[r].owes[j] = None
                     /\ run'[r].owes[i] # None

LEMMA OneWritten ==
    ASSUME RunsGood, RowsGood, RowsGrow, NEW r \in Run, NEW i \in Id, NEW rec \in Rec, NEW C,
           NEW field \in {"opened", "closed", "codes"}, NEW value, rows[i] # None,
           rows' = Set(i, field, value) \/ rows' = [rows EXCEPT ![i] = Change(@, field, value)],
           run' = [run EXCEPT ![r].steps = Tail(@), ![r].cache = C, ![r].owes = [NoId EXCEPT ![i] = rec]]
    PROVE  WritesOne(r)
  <1> DEFINE O == [NoId EXCEPT ![i] = rec]
  <1>1. O[i] # None /\ \A j \in Id \ {i} : O[j] = None
    BY DeclarationsAssumption DEF NoId
  <1> HIDE DEF O
  <1>2. run'[r].owes = O
    BY DEF RunsGood, RunState, O
  <1>3. rows'[i].used = rows[i].used /\ \A j \in Id \ {i} : rows'[j] = rows[j]
    BY SetStays
  <1>4. rows'[i] # None
    BY DEF RowsGrow
  <1> QED
    BY <1>1, <1>2, <1>3, <1>4 DEF WritesOne

LEMMA NoneWritten ==
    ASSUME RunsGood, NEW r \in Run, NEW C, UNCHANGED rows, run[r].owes = NoId,
           \/ run' = [run EXCEPT ![r].steps = Tail(@)]
           \/ run' = [run EXCEPT ![r].steps = Tail(@), ![r].cache = C]
    PROVE  WritesOne(r)
  BY DEF WritesOne, RunsGood, RunState

LEMMA Written ==
    ASSUME RunsGood, RowsGood, WindowsNest, NEW r \in Run,
           SetOpenedOn(r) \/ SetCommodities(r) \/ Close(r)
    PROVE  WritesOne(r)
  <1> DEFINE s == Head(run[r].steps)
  <1>1. CASE SetOpenedOn(r)
    <2>1. RowsGrow /\ s.id \in Id /\ s.date \in Date /\ run[r].owes = NoId
      BY <1>1, SetOpenedOnRows, AtStep DEF SetOpenedOn, Writing, Step
    <2> DEFINE rec == [Nothing EXCEPT !.opened = s.date]
    <2>2. rec \in Rec
      BY <2>1, RecTypes
    <2>3. \/ /\ rows[s.id] # None /\ rows' = Set(s.id, "opened", s.date)
             /\ \E C : run' = [run EXCEPT ![r].steps = Tail(@), ![r].cache = C, ![r].owes = [NoId EXCEPT ![s.id] = rec]]
          \/ UNCHANGED rows /\ run' = [run EXCEPT ![r].steps = Tail(@)]
      BY <1>1 DEF SetOpenedOn, Wrote, Refused, MayOpen
    <2> HIDE DEF s, rec
    <2> QED
      BY <2>1, <2>2, <2>3, OneWritten, NoneWritten
  <1>2. CASE SetCommodities(r)
    <2>1. RowsGrow /\ s.id \in Id /\ s.codes \in Codes \cup {None} /\ run[r].owes = NoId
      BY <1>2, SetCommoditiesRows, AtStep DEF SetCommodities, Writing, Step
    <2> DEFINE rec == [Nothing EXCEPT !.codes = s.codes]
    <2>2. rec \in Rec
      BY <2>1, RecTypes
    <2>3. \/ /\ rows[s.id] # None /\ rows' = Set(s.id, "codes", s.codes)
             /\ \E C : run' = [run EXCEPT ![r].steps = Tail(@), ![r].cache = C, ![r].owes = [NoId EXCEPT ![s.id] = rec]]
          \/ UNCHANGED rows /\ run' = [run EXCEPT ![r].steps = Tail(@)]
      BY <1>2 DEF SetCommodities, Wrote, Refused
    <2> HIDE DEF s, rec
    <2> QED
      BY <2>1, <2>2, <2>3, OneWritten, NoneWritten
  <1>3. CASE Close(r)
    <2>1. Writing(r, "close")
      BY <1>3 DEF Close
    <2>2. RowsGrow /\ s.id \in Id /\ s.date \in Date /\ run[r].owes = NoId
      BY <1>3, <2>1, CloseRows, AtStep DEF Writing, Step
    <2> DEFINE rec == [Nothing EXCEPT !.closed = s.date]
    <2>3. rec \in Rec
      BY <2>2, RecTypes
    <2>4. \/ /\ rows[s.id] # None /\ rows' = [rows EXCEPT ![s.id] = Change(@, "closed", s.date)]
             /\ \E C : run' = [run EXCEPT ![r].steps = Tail(@), ![r].cache = C, ![r].owes = [NoId EXCEPT ![s.id] = rec]]
          \/ UNCHANGED rows /\ \E C : run' = [run EXCEPT ![r].steps = Tail(@), ![r].cache = C]
      BY <1>3 DEF Close, MayClose
    <2> HIDE DEF s, rec
    <2> QED
      BY <2>2, <2>3, <2>4, OneWritten, NoneWritten
  <1> QED
    BY <1>1, <1>2, <1>3

LEMMA WriteKeepsAlone ==
    ASSUME RunsGood, RowsGood, WindowsNest, NEW r \in Run, AloneHold(r),
           SetOpenedOn(r) \/ SetCommodities(r) \/ Close(r)
    PROVE  AloneHold(r)'
  <1>1. /\ run[r].phase = "running" /\ run'[r].phase = "running" /\ run[r].owes = NoId
        /\ UNCHANGED <<recs, discarded>>
    <2>1. run[r].phase = "running" /\ run[r].owes = NoId /\ UNCHANGED <<recs, discarded>>
      BY DEF SetOpenedOn, SetCommodities, Close, Writing
    <2>2. \/ \E C, O : run' = [run EXCEPT ![r].steps = Tail(@), ![r].cache = C, ![r].owes = O]
          \/ \E C : run' = [run EXCEPT ![r].steps = Tail(@), ![r].cache = C]
          \/ run' = [run EXCEPT ![r].steps = Tail(@)]
      BY DEF SetOpenedOn, SetCommodities, Close, Wrote, Refused
    <2> QED
      BY <2>1, <2>2 DEF RunsGood, RunState
  <1>2. \A i \in Id : run[r].owes[i] = None
    BY <1>1 DEF NoId
  <1>3. WritesOne(r)
    BY Written
  <1>4. ASSUME r \notin discarded, NEW j \in Id, rows'[j] # None
        PROVE  Undoable(r, j)'
    <2>1. CASE UNCHANGED rows /\ run'[r].owes = NoId
      <3>1. Undoable(r, j) /\ run'[r].owes[j] = None
        BY <1>1, <1>4, <2>1 DEF AloneHold, Live, NoId
      <3> QED
        BY <1>1, <1>2, <2>1, <3>1 DEF Undoable
    <2>2. CASE \E i \in Id : /\ rows[i] # None /\ rows'[i] # None /\ rows'[i].used = rows[i].used
                             /\ \A k \in Id \ {i} : rows'[k] = rows[k] /\ run'[r].owes[k] = None
                             /\ run'[r].owes[i] # None
      <3>1. PICK i \in Id : /\ rows[i] # None /\ rows'[i].used = rows[i].used
                            /\ \A k \in Id \ {i} : rows'[k] = rows[k] /\ run'[r].owes[k] = None
                            /\ run'[r].owes[i] # None
        BY <2>2
      <3>2. rows[j] # None /\ Undoable(r, j)
        BY <1>1, <1>4, <3>1 DEF AloneHold, Live
      <3>3. rows[j].used = FALSE /\ recs[r][j] # None /\ recs[r][j].created /\ rows[j].events <= recs[r][j].count
        BY <1>2, <3>2 DEF Undoable
      <3>4. CASE j = i
        BY <1>1, <3>1, <3>3, <3>4 DEF Undoable
      <3>5. CASE j # i
        BY <1>1, <3>1, <3>3, <3>5 DEF Undoable
      <3> QED
        BY <3>4, <3>5
    <2> QED
      BY <1>3, <2>1, <2>2 DEF WritesOne
  <1> QED
    BY <1>1, <1>4 DEF AloneHold, Live

LEMMA CreateKeepsAlone ==
    ASSUME RunsGood, RowsGood, NEW r \in Run, AloneHold(r), Create(r)
    PROVE  AloneHold(r)'
  <1>1. run[r].phase = "running" /\ run[r].owes = NoId /\ UNCHANGED <<recs, discarded>>
    BY DEF Create, Writing
  <1>2. PICK minted :
          /\ CreatedIn(rows', Range(minted))
          /\ run'[r].owes = [i \in Id |-> IF i \in Range(minted) THEN [Nothing EXCEPT !.created = TRUE]
                                          ELSE None]
          /\ run'[r].phase = "running"
    BY CreateMeans
  <1>3. [Nothing EXCEPT !.created = TRUE] # None /\ [Nothing EXCEPT !.created = TRUE].created
    BY RecTypes, DeclarationsAssumption
  <1>4. ASSUME r \notin discarded, NEW j \in Id, rows'[j] # None
        PROVE  Undoable(r, j)'
    <2>1. CASE j \in Range(minted)
      <3>1. rows'[j].used = FALSE
        BY <1>2, <2>1 DEF CreatedIn, NewUnder
      <3>2. run'[r].owes[j] # None /\ run'[r].owes[j].created
        BY <1>2, <1>3, <2>1
      <3> QED
        BY <3>1, <3>2 DEF Undoable
    <2>2. CASE j \notin Range(minted)
      <3>1. rows'[j] = rows[j] /\ run'[r].owes[j] = None /\ run[r].owes[j] = None
        BY <1>1, <1>2, <2>2 DEF CreatedIn, NoId
      <3>2. Undoable(r, j)
        BY <1>1, <1>4, <3>1 DEF AloneHold, Live
      <3> QED
        BY <1>1, <3>1, <3>2 DEF Undoable
    <2> QED
      BY <2>1, <2>2
  <1> QED
    BY <1>1, <1>2, <1>4 DEF AloneHold, Live

LEMMA MergedCreated ==
    ASSUME NEW old \in Rec \cup {None}, NEW new \in Rec, NEW n \in Nat,
           new.created \/ (old # None /\ old.created)
    PROVE  Merge(old, new, n).created
  <1>1. CASE old = None
    <2>1. Merge(old, new, n) = [new EXCEPT !.count = n] /\ new.created
      BY <1>1 DEF Merge
    <2> QED
      BY <2>1 DEF Rec
  <1>2. CASE old # None
    <2>1. Merge(old, new, n).created = (old.created \/ new.created)
      BY <1>2 DEF Merge
    <2> QED
      BY <2>1, Zenon
  <1> QED
    BY <1>1, <1>2

LEMMA RecordKeepsAlone ==
    ASSUME RunsGood, RowsGood, RecsGood, NEW r \in Run, AloneHold(r), Record(r)
    PROVE  AloneHold(r)'
  <1>1. run[r].phase = "running" /\ UNCHANGED <<rows, discarded>>
    BY DEF Record
  <1>2. CASE /\ \A i \in Id : run[r].owes[i] # None => rows[i] # None
             /\ recs' = [recs EXCEPT ![r] = [i \in Id |->
                           IF run[r].owes[i] = None THEN recs[r][i]
                           ELSE Merge(recs[r][i], run[r].owes[i], rows[i].events)]]
             /\ run' = [run EXCEPT ![r].owes = NoId]
    <2>1. run'[r].owes = NoId /\ run'[r].phase = "running" /\ \A i \in Id : run'[r].owes[i] = None
      BY <1>1, <1>2 DEF RunsGood, RunState, NoId
    <2>2. ASSUME r \notin discarded, NEW j \in Id, rows'[j] # None
          PROVE  Undoable(r, j)'
      <3> DEFINE old == recs[r][j]
                 new == run[r].owes[j]
                 n == rows[j].events
      <3>1. Undoable(r, j) /\ rows[j] # None /\ n \in Nat
        BY <1>1, <2>2 DEF AloneHold, Live, RowsGood, Account
      <3>2. old \in Rec \cup {None} /\ new \in Rec \cup {None}
        BY DEF RecsGood, RunsGood, RunState
      <3>3. recs'[r][j] = IF new = None THEN old ELSE Merge(old, new, n)
        BY <1>2 DEF RecsGood
      <3>4. /\ rows[j].used = FALSE
            /\ IF new # None THEN new.created \/ (old # None /\ old.created)
               ELSE old # None /\ old.created /\ n <= old.count
        BY <3>1 DEF Undoable
      <3>5. rows' = rows /\ run'[r].owes[j] = None
        BY <1>1, <2>1
      <3> SUFFICES recs'[r][j] # None /\ recs'[r][j].created /\ n <= recs'[r][j].count
        BY <3>4, <3>5 DEF Undoable
      <3> HIDE DEF old, new, n
      <3>6. CASE new = None
        BY <3>3, <3>4, <3>6
      <3>7. CASE new # None
        <4>1. Merge(old, new, n) \in Rec /\ Merge(old, new, n).count = n /\ Merge(old, new, n).created
          BY <3>1, <3>2, <3>4, <3>7, Merged, MergedCreated
        <4>2. recs'[r][j] = Merge(old, new, n)
          BY <3>3, <3>7
        <4> QED
          BY <3>1, <4>1, <4>2, DeclarationsAssumption
      <3> QED
        BY <3>6, <3>7
    <2> QED
      BY <1>1, <2>1, <2>2 DEF AloneHold, Live
  <1>3. CASE run' = [run EXCEPT ![r] = [Idle EXCEPT !.phase = "stopped"]]
    <2>1. run'[r].phase = "stopped"
      BY <1>3 DEF Idle, RunsGood
    <2> QED
      BY <2>1 DEF AloneHold
  <1> QED
    BY <1>2, <1>3 DEF Record

LEMMA QuietKeepsAlone ==
    ASSUME RunsGood, NEW r \in Run, AloneHold(r),
           \/ \E doc \in Documents : Begin(r, doc)
           \/ \E k \in run[r].todo : Decide(r, k) \/ FailToRead(r, k)
           \/ RefuseCreate(r) \/ Finish(r) \/ Crash(r)
    PROVE  AloneHold(r)'
  <1>1. UNCHANGED <<rows, recs, discarded>>
    BY DEF Begin, Decide, FailToRead, RefuseCreate, Refused, Finish, Crash
  <1>2. CASE \E doc \in Documents : Begin(r, doc)
    <2>1. run[r].phase = "idle"
      BY <1>2 DEF Begin
    <2>2. \E D, T, K : run' = [run EXCEPT ![r].phase = "running", ![r].doc = D, ![r].todo = T, ![r].known = K]
      BY <1>2 DEF Begin
    <2>3. run'[r].phase = "running"
      BY <2>2 DEF RunsGood, RunState
    <2>4. Live = {} /\ Live' = {}
      BY <1>1, <2>1 DEF AloneHold, Live
    <2> QED
      BY <2>3, <2>4 DEF AloneHold
  <1>3. CASE (\E k \in run[r].todo : Decide(r, k)) \/ RefuseCreate(r)
    <2>1. run[r].phase = "running"
      BY <1>3 DEF Decide, Deciding, RefuseCreate, Writing
    <2>2. \/ \E T, C, S : run' = [run EXCEPT ![r].todo = T, ![r].cache = C, ![r].steps = S]
          \/ run' = [run EXCEPT ![r].steps = Tail(@)]
      BY <1>3 DEF Decide, RefuseCreate, Refused
    <2>3. run'[r].phase = "running" /\ run'[r].owes = run[r].owes
      <3>1. run \in [Run -> RunState] /\ run[r] \in RunState
        BY DEF RunsGood
      <3>2. CASE \E T, C, S : run' = [run EXCEPT ![r].todo = T, ![r].cache = C, ![r].steps = S]
        <4>1. PICK T, C, S : run' = [run EXCEPT ![r].todo = T, ![r].cache = C, ![r].steps = S]
          BY <3>2
        <4> QED
          BY <2>1, <3>1, <4>1 DEF RunState
      <3>3. CASE run' = [run EXCEPT ![r].steps = Tail(@)]
        BY <2>1, <3>1, <3>3 DEF RunState
      <3> QED
        BY <2>2, <3>2, <3>3
    <2> QED
      BY <1>1, <2>1, <2>3 DEF AloneHold, Undoable, Live
  <1>4. CASE (\E k \in run[r].todo : FailToRead(r, k)) \/ Crash(r)
    <2>1. run'[r].phase = "stopped"
      BY <1>4 DEF FailToRead, Crash, Idle, RunsGood
    <2> QED
      BY <2>1 DEF AloneHold
  <1>5. CASE Finish(r)
    <2>1. run[r].phase = "running" /\ run[r].owes = NoId
      BY <1>5 DEF Finish
    <2>2. run'[r].phase = (IF r \in discarded THEN "stopped" ELSE "closed") /\ run'[r].owes = NoId
      BY <1>5 DEF Finish, Idle, RunsGood
    <2>3. r \notin discarded => \A i \in Live : Undoable(r, i)
      BY <2>1 DEF AloneHold
    <2> QED
      BY <1>1, <2>1, <2>2, <2>3 DEF AloneHold, Undoable, Live
  <1> QED
    BY <1>2, <1>3, <1>4, <1>5

LEMMA DiscardKeepsAlone ==
    ASSUME RowsGood, Batches, NEW r \in Run, Alone(r), AloneHold(r), Discard(r)
    PROVE  AloneHold(r)'
  <1>1. run' = run /\ discarded' = discarded \cup {r} /\ r \notin discarded /\ run[r].phase # "idle"
    BY DEF Discard
  <1>2. ASSUME run[r].phase = "closed"
        PROVE  Live' = {}
    <2>1. \A i \in Live : Undoable(r, i) /\ run[r].owes[i] = None
      BY <1>1, <1>2 DEF AloneHold, NoId, Live
    <2>2. \A q \in Run \ {r} : \A i \in Id : recs[q][i] = None
      BY IdleOwes DEF Alone
    <2>3. \A i \in Live : i \in Made(r) /\ ~ Named(r, i)
      <3>1. ASSUME NEW i \in Live
            PROVE  i \in Made(r) /\ ~ Named(r, i)
        <4>1. i \in Id /\ rows[i].used = FALSE /\ recs[r][i] # None /\ recs[r][i].created
              /\ rows[i].events <= recs[r][i].count
          BY <2>1 DEF Undoable, Live
        <4>2. rows[i].events \in Nat /\ recs[r][i].count \in Nat
          BY <4>1 DEF Live, RowsGood, Account, Batches, RecsGood, Rec
        <4>3. ~ (rows[i].events > recs[r][i].count)
          BY <4>1, <4>2
        <4> QED
          BY <2>2, <4>1, <4>3 DEF Named, Made, Recorded
      <3> QED
        BY <3>1
    <2>4. Live \in SUBSET Made(r) /\ \A i \in Live : ~ Named(r, i) /\ Children(i) \subseteq Live
      BY <2>3 DEF Children
    <2>5. Live \subseteq Removed(r)
      BY <2>4 DEF Removed
    <2> QED
      BY <2>5, DiscardLeaves DEF Live
  <1> QED
    BY <1>1, <1>2 DEF AloneHold

LEMMA NextAlone ==
    ASSUME Inv, NEW r \in Run, Alone(r) => AloneHold(r), [Next]_vars, Alone(r)'
    PROVE  AloneHold(r)'
  <1>1. RunsGood /\ RowsGood /\ WindowsNest /\ Batches /\ RecsGood /\ edits \in Nat
    BY DeclarationsAssumption DEF Inv, Bounds, Batches
  <1>2. CASE UNCHANGED vars
    <2>1. UNCHANGED <<rows, recs, run, discarded, edits>>
      BY <1>2 DEF vars
    <2>2. AloneHold(r)
      BY <2>1 DEF Alone
    <2> QED
      BY <2>1, <2>2 DEF AloneHold, Undoable, Live
  <1>3. CASE UserStep
    <2>1. edits' = edits + 1
      BY <1>3, UserCounts
    <2> QED
      BY <1>1, <2>1 DEF Alone
  <1>4. CASE \E q \in Run : Discard(q)
    <2>1. PICK q \in Run : Discard(q)
      BY <1>4
    <2>2. UNCHANGED <<run, edits>> /\ run[q].phase # "idle"
      BY <2>1 DEF Discard
    <2>3. Alone(r) /\ q = r
      BY <2>2 DEF Alone
    <2> QED
      BY <1>1, <2>1, <2>3, DiscardKeepsAlone
  <1>5. CASE \E q \in Run : RunStep(q)
    <2>1. PICK q \in Run : RunStep(q)
      BY <1>5
    <2>2. UNCHANGED edits
      BY <2>1, RunCounts
    <2>3. \A p \in Run \ {q} : run'[p] = run[p]
      BY <2>1, RunStays
    <2>4. run'[q].phase # "idle"
      <3>1. CASE Record(q)
        <4>1. run[q].phase = "running"
          BY <3>1 DEF Record
        <4>2. \/ run' = [run EXCEPT ![q].owes = NoId]
              \/ run' = [run EXCEPT ![q] = [Idle EXCEPT !.phase = "stopped"]]
          BY <3>1 DEF Record
        <4>3. [Idle EXCEPT !.phase = "stopped"].phase = "stopped"
          BY DEF Idle
        <4> QED
          BY <1>1, <4>1, <4>2, <4>3 DEF RunsGood, RunState
      <3>2. CASE ~ Record(q)
        <4>1. OwesFit(q)
          BY <1>1, <2>1, <3>2, QuietOwes, WriteOwes, CreateOwes DEF RunStep, Work
        <4> QED
          BY <4>1 DEF OwesFit
      <3> QED
        BY <3>1, <3>2
    <2>5. q = r
      BY <2>4 DEF Alone
    <2>6. AloneHold(r)
      BY <2>2, <2>3, <2>5 DEF Alone
    <2> QED
      BY <1>1, <2>1, <2>5, <2>6, WriteKeepsAlone, CreateKeepsAlone, RecordKeepsAlone, QuietKeepsAlone
         DEF RunStep, Work
  <1> QED
    BY <1>2, <1>3, <1>4, <1>5 DEF Next

\* discard.rs: when nobody else is at work, discarding a closed run's batch leaves no
\* account behind, whatever the run filled, closed and was refused.
THEOREM DiscardsUndo == Spec => []DiscardUndoes
  <1> DEFINE J == \A r \in Run : Alone(r) => AloneHold(r)
  <1>1. Init => J
    BY DEF Init, AloneHold, Live, Idle
  <1>2. Inv /\ J /\ [Next]_vars => J'
    <2> SUFFICES ASSUME Inv, J, [Next]_vars, NEW r \in Run, Alone(r)' PROVE AloneHold(r)'
      OBVIOUS
    <2> QED
      BY NextAlone
  <1>3. Inv /\ J => DiscardUndoes
    <2> SUFFICES ASSUME Inv, J, edits = 0, \A q \in Run : q # 1 => run[q].phase = "idle",
                        run[1].phase = "closed", 1 \in discarded
                 PROVE  Live = {}
      BY DEF DiscardUndoes
    <2>1. 1 \in Run
      BY DEF Inv, Bounds
    <2> QED
      BY <2>1 DEF Alone, AloneHold
  <1> HIDE DEF J
  <1> QED
    BY <1>1, <1>2, <1>3, InitInv, NextInv, PTL DEF Spec

=============================================================================
