---------------------------- MODULE FactoryProofs ----------------------------
(***************************************************************************)
(* The composition of the executor with the factory implements the         *)
(* executor alone: however rows change between and within the steps of a   *)
(* run, each of its steps is one the executor takes over some envelope, or *)
(* none at all.  What is proved of the executor therefore holds of a run   *)
(* over a factory that changes under it, for every set of database states. *)
(***************************************************************************)
EXTENDS FactoryRun, ExecutorProofs

\* The rows drawn so far belong to a calculation that is still under way.
FactoryInv ==
    /\ TypeOK
    /\ mes \in MesStates
    /\ drawn \in Seq(MesStates)
    /\ Len(drawn) <= 2
    /\ drawn # << >> => Calculating

\* What a call that ends now has read is a state of rows, read together or not.
LEMMA ViewType ==
    ASSUME FactoryInv, drawn = << >> \/ Len(drawn) = 2
    PROVE  View \in Rows
<1>1. \A m \in MesStates : m \in Rows
  BY MesStatesAssumption DEF MesState
<1>2. CASE drawn = << >>
  BY <1>1, <1>2 DEF View, FactoryInv
<1>3. CASE drawn # << >>
  <2>1. drawn[1] \in MesStates /\ drawn[2] \in MesStates
    BY <1>3 DEF FactoryInv
  <2>2. mes \in Rows /\ drawn[1] \in Rows /\ drawn[2] \in Rows
    BY <1>1, <2>1 DEF FactoryInv
  <2> QED
    BY <1>3, <2>2 DEF View, Rows
<1> QED
  BY <1>2, <1>3

\* A tool that answers from the rows it read is a call of the executor.
LEMMA ReadInvokes ==
    ASSUME FactoryInv, Read
    PROVE  Invoke
<1> DEFINE env == EnvelopeOf(Current.tool, View)
<1>1. Callable /\ (Return(env) \/ Refuse(env))
  BY DEF Read
<1>2. View \in Rows
  BY <1>1, ViewType DEF Read, FactoryInv, Calculating
<1>3. Current.tool \in Tool
  BY <1>1, CurrentType DEF FactoryInv, Callable, Invocable, PlannedCall
<1>4. env \in Envelopes[Current.tool]
  BY <1>2, <1>3, RowsAssumption
<1> QED
  BY <1>1, <1>4 DEF Invoke

\* Every step over the factory is a step of the executor, or a stutter of it.
LEMMA FactoryStep ==
    ASSUME FactoryInv, [FactoryNext]_allvars
    PROVE  [Next]_vars
<1>1. CASE Edit
  BY <1>1 DEF Edit
<1>2. CASE ReadRow
  BY <1>2 DEF ReadRow
<1>3. CASE Read
  BY <1>3, ReadInvokes DEF Next
<1>4. CASE Walk
  BY <1>4 DEF Walk, Next
<1>5. CASE UNCHANGED allvars
  BY <1>5 DEF allvars
<1> QED
  BY <1>1, <1>2, <1>3, <1>4, <1>5 DEF FactoryNext

\* The rows stay rows, and a calculation under way stays under way.
LEMMA FactoryInvStep ==
    ASSUME FactoryInv, [FactoryNext]_allvars
    PROVE  FactoryInv'
<1>1. TypeOK'
  BY FactoryStep, TypeStep DEF FactoryInv
<1>2. ASSUME UNCHANGED vars
      PROVE  Calculating => Calculating'
  BY <1>2 DEF vars, Calculating, Callable, Invocable, Walking, Understood, Plan,
              Current, Position, AllResolved, Resolved, Supplied
<1>3. CASE Edit
  <2>1. mes' \in MesStates /\ drawn' = drawn /\ UNCHANGED vars
    BY <1>3 DEF Edit
  <2> QED
    BY <1>1, <1>2, <2>1 DEF FactoryInv
<1>4. CASE ReadRow
  <2>1. /\ Calculating /\ Len(drawn) < 2 /\ drawn' = Append(drawn, mes)
        /\ mes' = mes /\ UNCHANGED vars
    BY <1>4 DEF ReadRow
  <2>2. drawn' \in Seq(MesStates) /\ Len(drawn') <= 2
    BY <2>1 DEF FactoryInv
  <2> QED
    BY <1>1, <1>2, <2>1, <2>2 DEF FactoryInv
<1>5. CASE drawn' = << >> /\ mes' = mes
  BY <1>1, <1>5 DEF FactoryInv
<1>6. CASE UNCHANGED allvars
  <2>1. mes' = mes /\ drawn' = drawn /\ UNCHANGED vars
    BY <1>6 DEF allvars
  <2> QED
    BY <1>1, <1>2, <2>1 DEF FactoryInv
<1> QED
  BY <1>3, <1>4, <1>5, <1>6 DEF FactoryNext

\* The run over the changing factory implements the executor over any envelopes.
THEOREM FactoryImplementsExecutor == FactorySpec => Spec
<1>1. FactoryInit => Init /\ FactoryInv
  <2> SUFFICES ASSUME FactoryInit PROVE Init /\ FactoryInv
    OBVIOUS
  <2>1. Init /\ mes \in MesStates /\ drawn = << >>
    BY DEF FactoryInit
  <2> QED
    BY <2>1, TypeInit DEF FactoryInv
<1> QED
  BY <1>1, FactoryStep, FactoryInvStep, PTL DEF FactorySpec, Spec

\* However the factory changes under it, a refusal names the step it stopped at, an
\* error is one failed call and an answer had everything its plan required.
THEOREM FactoryEndsJustified == FactorySpec => []EndIsJustified
  BY FactoryImplementsExecutor, EndsAreJustified

\* However the factory changes under it, the run shows its whole plan, calls with
\* what came back to it, and rests its finding on a call that succeeded.
THEOREM FactoryTraceFaithful ==
    FactorySpec => [](WholePlanShown /\ CalledWithWhatCameBack /\ FindingRestsOnACall)
  BY FactoryImplementsExecutor, PlanIsShown, ArgumentsCameBack, FindingsAreFounded, PTL

-----------------------------------------------------------------------------
(* What the run recorded is what its calls found.  Each call is judged by    *)
(* the rows as it found them, which `seen` keeps: the rows the factory holds *)
(* when the run ends may be others.                                          *)

\* What the k-th planned call answered, from the rows it found.
Answered(k) == EnvelopeOf(Plan[k].tool, seen[k])

\* The rows are recorded call by call; a step that succeeded carries the missing
\* fields of its answer and provides what its answer did; what the engine may read was
\* usable when it was returned; and a finding was made of something it may read.
ReadInv ==
    /\ seen \in Seq(Rows) /\ Len(seen) = Len(steps)
    /\ \A k \in DOMAIN steps : k <= Len(Plan) /\ steps[k].status = "ok" =>
         /\ steps[k].missing = Answered(k).missing
         /\ \A path : << k, path >> \in results <=> path \in Answered(k).provides
    /\ \A tool \in typed : \E k \in 1..Len(Plan) :
         /\ k \in DOMAIN steps /\ steps[k].status = "ok"
         /\ Plan[k].tool = tool /\ Answered(k).usable
    /\ composed = "finding" => EngineReads \cap typed # {}

\* A function on 1..n is a sequence of length n.
LEMMA CountedIsSeq ==
    ASSUME NEW S, NEW n \in Nat, NEW f \in [1..n -> S]
    PROVE  f \in Seq(S) /\ Len(f) = n
<1>1. f \in Seq(S)
  BY SeqDef
<1>2. Len(f) \in Nat /\ 1..Len(f) = 1..n
  BY <1>1, LenProperties
<1>3. Len(f) = n
  BY <1>2
<1> QED
  BY <1>1, <1>3

\* A trace that grows takes the record of what was seen with it.
LEMMA SeenGrows ==
    ASSUME TypeOK, ReadInv, TypeOK', DOMAIN steps \subseteq DOMAIN steps',
           steps' # steps => View \in Rows,
           seen' = [j \in 1..Len(steps') |-> IF j \in DOMAIN seen THEN seen[j] ELSE View],
           steps' # steps \/ Len(steps') = Len(steps)
    PROVE  /\ seen' \in Seq(Rows) /\ Len(seen') = Len(steps')
           /\ \A j \in DOMAIN steps : seen'[j] = seen[j]
           /\ \A j \in DOMAIN steps' : j \notin DOMAIN steps => seen'[j] = View
<1> DEFINE n == Len(steps')
<1>1. /\ n \in Nat /\ DOMAIN steps' = 1..n
      /\ DOMAIN steps = 1..Len(steps) /\ Len(steps) \in Nat
      /\ DOMAIN seen = DOMAIN steps
      /\ \A i \in DOMAIN seen : seen[i] \in Rows
  BY DEF TypeOK, ReadInv
<1> DEFINE record == [j \in 1..n |-> IF j \in DOMAIN seen THEN seen[j] ELSE View]
<1>2. ASSUME NEW j \in 1..n
      PROVE  (IF j \in DOMAIN seen THEN seen[j] ELSE View) \in Rows
  <2>1. CASE j \in DOMAIN seen
    <3>1. seen[j] \in Rows
      BY <1>1, <2>1
    <3> QED
      BY <2>1, <3>1
  <2>2. CASE j \notin DOMAIN seen
    <3>1. steps' # steps
      BY <1>1, <2>2
    <3> QED
      BY <2>2, <3>1
  <2> QED
    BY <2>1, <2>2
<1>3. record \in [1..n -> Rows]
  BY <1>2
<1>4. seen' = record
  OBVIOUS
<1> HIDE DEF record, n
<1>5. n \in Nat
  BY <1>1
<1>6. record \in Seq(Rows) /\ Len(record) = n
  BY <1>3, <1>5, CountedIsSeq
<1>7. /\ \A j \in DOMAIN steps : seen'[j] = seen[j]
      /\ \A j \in DOMAIN steps' : j \notin DOMAIN steps => seen'[j] = View
  BY <1>1, <1>4 DEF record
<1> QED
  BY <1>4, <1>6, <1>7 DEF n

\* A step that returns nothing leaves every answer as it was.
LEMMA NothingRead ==
    ASSUME TypeOK, WalkInv, ReadInv, TypeOK',
           UNCHANGED << understanding, results, typed >>,
           DOMAIN steps \subseteq DOMAIN steps',
           \A j \in DOMAIN steps : steps'[j] = steps[j],
           \A j \in DOMAIN steps' : j \in DOMAIN steps \/ j > Len(Plan) \/ steps'[j].status # "ok",
           seen' \in Seq(Rows), Len(seen') = Len(steps'),
           \A j \in DOMAIN steps : seen'[j] = seen[j],
           composed' = "finding" => EngineReads \cap typed # {}
    PROVE  ReadInv'
<1>1. Plan' = Plan /\ EngineReads' = EngineReads /\ Len(Plan) \in Nat
  BY ReadingType DEF Plan, EngineReads
<1>2. \A k \in DOMAIN steps : Answered(k)' = Answered(k)
  BY <1>1 DEF Answered
<1>3. ASSUME NEW k \in DOMAIN steps', k <= Len(Plan), steps'[k].status = "ok"
      PROVE  /\ steps'[k].missing = Answered(k)'.missing
             /\ \A path : << k, path >> \in results' <=> path \in Answered(k)'.provides
  <2>1. k \in DOMAIN steps
    <3>1. k \in Nat
      BY DEF TypeOK
    <3>2. ~(k > Len(Plan))
      BY <1>1, <1>3, <3>1
    <3> QED
      BY <1>3, <3>2
  <2> QED
    BY <1>2, <1>3, <2>1 DEF ReadInv
<1>4. ASSUME NEW tool \in typed'
      PROVE  \E k \in 1..Len(Plan) :
                /\ k \in DOMAIN steps' /\ steps'[k].status = "ok"
                /\ Plan[k].tool = tool /\ Answered(k)'.usable
  <2>1. PICK k \in 1..Len(Plan) : /\ k \in DOMAIN steps /\ steps[k].status = "ok"
                                  /\ Plan[k].tool = tool /\ Answered(k).usable
    BY DEF ReadInv
  <2> QED
    BY <1>2, <2>1
<1> QED
  BY <1>1, <1>3, <1>4 DEF ReadInv

\* A call that returns is recorded with what it found.
LEMMA CallRead ==
    ASSUME FactoryInv, WalkInv, CallInv, ReadInv, TypeOK', Read,
           seen' = [j \in 1..Len(steps') |-> IF j \in DOMAIN seen THEN seen[j] ELSE View]
    PROVE  ReadInv'
<1> DEFINE env == EnvelopeOf(Current.tool, View)
<1>1. Callable /\ (Return(env) \/ Refuse(env)) /\ Walking /\ TypeOK
  BY DEF Read, Callable, Invocable, FactoryInv
<1>2. View \in Rows
  BY <1>1, ViewType DEF Read, FactoryInv, Calculating
<1>3. /\ Position \in 1..Len(Plan) /\ Len(Plan) \in Nat /\ Current = Plan[Position]
      /\ DOMAIN steps = 1..(Position - 1) /\ status = "answered"
      /\ Current \in PlannedCall
  BY <1>1, WalkingAnswers, CurrentType
<1>4. env \in Envelope
  <2>1. env \in Envelopes[Current.tool] /\ Current.tool \in Tool
    BY <1>2, <1>3, RowsAssumption DEF PlannedCall
  <2> QED
    BY <2>1, EnvelopesAssumption
<1> HIDE DEF env
<1>5. Traced(Position, "ok", env.missing) \in Step
  BY <1>1, <1>4, TracedType DEF Envelope, StepStatus
<1>6. /\ results' = results \cup ({Position} \X env.provides)
      /\ typed' = IF env.usable THEN typed \cup {Current.tool} ELSE typed
      /\ UNCHANGED << understanding, composed >>
  BY <1>1 DEF Return, Refuse, Keep
<1> PICK p \in 1..Len(Plan) : p = Position
  BY <1>3
<1>7. /\ DOMAIN steps \subseteq DOMAIN steps' /\ p \in DOMAIN steps' /\ p \notin DOMAIN steps
      /\ \A j \in DOMAIN steps : steps'[j] = steps[j]
      /\ steps'[p].status = "ok" /\ steps'[p].missing = env.missing
      /\ \A j \in DOMAIN steps' : j \in DOMAIN steps \/ j = p \/ steps'[j].status # "ok"
  <2>1. CASE Return(env)
    BY <1>1, <1>3, <1>5, <2>1, OneMore DEF Return, Traced
  <2>2. CASE Refuse(env)
    <3>1. /\ DOMAIN steps' = 1..Len(Plan)
          /\ \A j \in DOMAIN steps : steps'[j] = steps[j]
          /\ steps'[Position] = Traced(Position, "ok", env.missing)
          /\ \A j \in (Position + 1)..Len(Plan) : steps'[j].status = "skipped"
      BY <1>1, <1>5, <2>2, Stopping DEF Refuse
    <3> QED
      BY <1>3, <3>1 DEF Traced
  <2> QED
    BY <1>1, <2>1, <2>2
<1>8. /\ seen' \in Seq(Rows) /\ Len(seen') = Len(steps')
      /\ \A j \in DOMAIN steps : seen'[j] = seen[j]
      /\ seen'[p] = View
  BY <1>1, <1>2, <1>7, SeenGrows
<1>9. Plan' = Plan /\ EngineReads' = EngineReads
  BY <1>6 DEF Plan, EngineReads
<1>10. Answered(p)' = env /\ \A k \in DOMAIN steps : Answered(k)' = Answered(k)
  <2>1. Plan'[p].tool = Current.tool
    BY <1>3, <1>9
  <2>2. Answered(p)' = env
    BY <2>1, <1>8 DEF Answered, env
  <2>3. \A k \in DOMAIN steps : Answered(k)' = Answered(k)
    BY <1>8, <1>9 DEF Answered
  <2> QED
    BY <2>2, <2>3
<1>11. ASSUME NEW k \in DOMAIN steps', k <= Len(Plan), steps'[k].status = "ok"
       PROVE  /\ steps'[k].missing = Answered(k)'.missing
              /\ \A path : << k, path >> \in results' <=> path \in Answered(k)'.provides
  <2>1. CASE k \in DOMAIN steps
    <3>1. \A path : << k, path >> \in results' <=> << k, path >> \in results
      BY <1>3, <1>6, <2>1
    <3> QED
      BY <1>7, <1>10, <1>11, <2>1, <3>1 DEF ReadInv
  <2>2. CASE k = p
    <3>1. \A path : << p, path >> \notin results
      BY <1>7 DEF CallInv, ResultsAreCalls
    <3>2. \A path : << p, path >> \in results' <=> path \in env.provides
      BY <1>6, <3>1
    <3> QED
      BY <1>7, <1>10, <2>2, <3>2
  <2> QED
    BY <1>7, <1>11, <2>1, <2>2
<1>12. ASSUME NEW tool \in typed'
       PROVE  \E k \in 1..Len(Plan) :
                 /\ k \in DOMAIN steps' /\ steps'[k].status = "ok"
                 /\ Plan[k].tool = tool /\ Answered(k)'.usable
  <2>1. CASE tool \in typed
    <3>1. PICK k \in 1..Len(Plan) : /\ k \in DOMAIN steps /\ steps[k].status = "ok"
                                    /\ Plan[k].tool = tool /\ Answered(k).usable
      BY <2>1 DEF ReadInv
    <3> QED
      BY <1>7, <1>10, <3>1
  <2>2. CASE tool \notin typed
    <3>1. env.usable /\ tool = Plan[p].tool
      BY <1>3, <1>6, <2>2
    <3> QED
      BY <1>7, <1>10, <3>1
  <2> QED
    BY <2>1, <2>2
<1>13. composed' = "finding" => EngineReads' \cap typed' # {}
  BY <1>6, <1>9 DEF ReadInv
<1> QED
  BY <1>8, <1>9, <1>11, <1>12, <1>13 DEF ReadInv

\* A step that is recorded without a call leaves no read half done.
LEMMA WalkView ==
    ASSUME FactoryInv, Walk, steps' # steps
    PROVE  drawn = << >> /\ View \in Rows
<1>1. ~Calculating \/ drawn = << >>
  <2>1. CASE SkipUnbound
    BY <2>1 DEF SkipUnbound, Calculating, Callable, Invocable
  <2>2. CASE NotBuilt
    BY <2>2 DEF NotBuilt, Calculating, Callable
  <2>3. CASE Conclude
    BY <2>3, ReadingType
       DEF Conclude, Calculating, Callable, Invocable, Walking, FactoryInv, TypeOK
  <2>4. CASE Settle \/ Raise
    BY <2>4 DEF Settle, Raise
  <2> QED
    BY <2>1, <2>2, <2>3, <2>4 DEF Walk
<1>2. drawn = << >>
  BY <1>1 DEF FactoryInv
<1> QED
  BY <1>2, ViewType

\* What a step of the walk records without calling a tool is no success of a call,
\* and the answer reports a finding only when there is a result to derive it from.
LEMMA WalkRecords ==
    ASSUME TypeOK, WalkInv, ReadInv, Walk
    PROVE  /\ DOMAIN steps \subseteq DOMAIN steps'
           /\ \A j \in DOMAIN steps : steps'[j] = steps[j]
           /\ \A j \in DOMAIN steps' :
                j \in DOMAIN steps \/ j > Len(Plan) \/ steps'[j].status # "ok"
           /\ UNCHANGED << understanding, results, typed >>
           /\ composed' = "finding" => EngineReads \cap typed # {}
<1>1. CASE Settle
  BY <1>1 DEF Settle
<1>2. CASE Raise
  BY <1>2 DEF Raise, ReadInv
<1>3. ASSUME NEW st \in StepStatus \ {"ok"}, Walking,
             steps' = Append(steps, Traced(Position, st, {}))
      PROVE  /\ DOMAIN steps \subseteq DOMAIN steps'
             /\ \A j \in DOMAIN steps : steps'[j] = steps[j]
             /\ \A j \in DOMAIN steps' :
                  j \in DOMAIN steps \/ steps'[j].status # "ok"
  <2>1. Traced(Position, st, {}) \in Step
    BY <1>3, TracedType
  <2>2. DOMAIN steps = 1..(Position - 1) /\ Position \in Nat
    BY <1>3, WalkingAnswers
  <2>3. /\ DOMAIN steps' = 1..Position
        /\ \A j \in DOMAIN steps : steps'[j] = steps[j]
        /\ steps'[Position] = Traced(Position, st, {})
    BY <1>3, <2>1, OneMore
  <2>4. Traced(Position, st, {}).status # "ok"
    BY <1>3 DEF Traced
  <2>5. \A j \in DOMAIN steps' : j \in DOMAIN steps \/ j = Position
    BY <2>2, <2>3
  <2> QED
    BY <2>2, <2>3, <2>4, <2>5
<1>4. CASE SkipUnbound
  BY <1>3, <1>4 DEF SkipUnbound, StepStatus, ReadInv
<1>5. CASE NotBuilt
  BY <1>3, <1>5 DEF NotBuilt, Invocable, StepStatus, ReadInv
<1>6. CASE Fail
  <2>1. Walking /\ UNCHANGED << understanding, results, typed, composed >>
    BY <1>6 DEF Fail, Invocable
  <2>2. Traced(Position, "failed", {}) \in Step
    BY <2>1, TracedType DEF StepStatus
  <2>3. DOMAIN steps = 1..(Position - 1) /\ Position \in 1..Len(Plan) /\ Len(Plan) \in Nat
    BY <2>1, WalkingAnswers
  <2>4. /\ DOMAIN steps' = 1..Len(Plan)
        /\ \A j \in DOMAIN steps : steps'[j] = steps[j]
        /\ steps'[Position] = Traced(Position, "failed", {})
        /\ \A j \in (Position + 1)..Len(Plan) : steps'[j].status = "skipped"
    BY <1>6, <2>1, <2>2, Stopping DEF Fail
  <2>5. steps'[Position].status # "ok"
    BY <2>4 DEF Traced
  <2>6. \A j \in DOMAIN steps' :
          j \in DOMAIN steps \/ j = Position \/ j \in (Position + 1)..Len(Plan)
    BY <2>3, <2>4
  <2>7. DOMAIN steps \subseteq DOMAIN steps'
    BY <2>3, <2>4
  <2> QED
    BY <2>1, <2>4, <2>5, <2>6, <2>7 DEF ReadInv
<1>7. CASE Conclude
  <2>1. /\ Len(steps) = Len(Plan) /\ Len(Plan) \in Nat /\ steps \in Seq(Step)
        /\ DOMAIN steps = 1..Len(Plan)
    BY <1>7, ReadingType DEF Conclude, TypeOK
  <2>2. UNCHANGED << understanding, results, typed >> /\ composed' = ComposeAnswer
    BY <1>7 DEF Conclude
  <2>3. ComposeAnswer = "finding" => Derives
    BY DEF ComposeAnswer
  <2>4. steps' = steps \/ steps' = Append(steps, EngineStep)
    BY <1>7 DEF Conclude
  <2>5. /\ DOMAIN steps \subseteq DOMAIN steps'
        /\ \A j \in DOMAIN steps : steps'[j] = steps[j]
        /\ \A j \in DOMAIN steps' : j \in DOMAIN steps \/ j > Len(Plan)
    BY <2>1, <2>4
  <2> QED
    BY <2>2, <2>3, <2>5 DEF Derives
<1> QED
  BY <1>1, <1>2, <1>4, <1>5, <1>6, <1>7 DEF Walk

\* Every step over the factory keeps the record.
LEMMA ReadStep ==
    ASSUME FactoryInv, WalkInv, CallInv, ReadInv, TypeOK', [FactoryNext]_allvars
    PROVE  ReadInv'
<1>1. CASE UNCHANGED << vars, seen >>
  <2>1. /\ UNCHANGED << understanding, steps, results, typed, composed, seen >>
        /\ Plan' = Plan /\ EngineReads' = EngineReads
    BY <1>1 DEF vars, Plan, EngineReads
  <2>2. \A k : Answered(k)' = Answered(k)
    BY <2>1 DEF Answered
  <2> QED
    BY <2>1, <2>2 DEF ReadInv
<1>2. ASSUME seen' = [j \in 1..Len(steps') |->
                        IF j \in DOMAIN seen THEN seen[j] ELSE View],
             Walk
      PROVE  ReadInv'
  <2>1. TypeOK /\ (steps' # steps => View \in Rows)
    BY <1>2, WalkView DEF FactoryInv
  <2>2. /\ DOMAIN steps \subseteq DOMAIN steps'
        /\ \A j \in DOMAIN steps : steps'[j] = steps[j]
        /\ \A j \in DOMAIN steps' :
             j \in DOMAIN steps \/ j > Len(Plan) \/ steps'[j].status # "ok"
        /\ UNCHANGED << understanding, results, typed >>
        /\ composed' = "finding" => EngineReads \cap typed # {}
    BY <1>2, <2>1, WalkRecords
  <2>3. steps' # steps \/ Len(steps') = Len(steps)
    OBVIOUS
  <2>4. /\ seen' \in Seq(Rows) /\ Len(seen') = Len(steps')
        /\ \A j \in DOMAIN steps : seen'[j] = seen[j]
    BY <1>2, <2>1, <2>2, <2>3, SeenGrows
  <2> QED
    BY <2>1, <2>2, <2>4, NothingRead
<1> QED
  BY <1>1, <1>2, CallRead DEF FactoryNext, Edit, ReadRow, allvars

\* However the factory changes under a run, the record of it is kept.
THEOREM ReadsAreKept == FactorySpec => [](FactoryInv /\ ReadInv)
<1>1. FactoryInit => FactoryInv /\ ReadInv
  <2> SUFFICES ASSUME FactoryInit PROVE FactoryInv /\ ReadInv
    OBVIOUS
  <2>1. Init /\ mes \in MesStates /\ drawn = << >> /\ seen = << >>
    BY DEF FactoryInit
  <2>2. FactoryInv
    BY <2>1, TypeInit DEF FactoryInv
  <2>3. steps = << >> /\ typed = {} /\ composed = "none"
    BY <2>1 DEF Init, None
  <2>4. ReadInv
    BY <2>1, <2>3 DEF ReadInv
  <2> QED
    BY <2>2, <2>4
<1>2. FactorySpec => [](TypeOK /\ WalkInv /\ CallInv)
  BY FactoryImplementsExecutor, TypeCorrect, WalkIsFaithful, CallsAreFounded, PTL
<1>3. (FactoryInv /\ ReadInv) /\ WalkInv /\ CallInv /\ TypeOK' /\ [FactoryNext]_allvars
        => (FactoryInv /\ ReadInv)'
  BY FactoryInvStep, ReadStep
<1> QED
  BY <1>1, <1>2, <1>3, PTL DEF FactorySpec

-----------------------------------------------------------------------------
(* The plans the selector builds. *)

\* What each way of writing a call in a template makes of it.
LEMMA TemplateCalls ==
    ASSUME NEW tool \in Tool, NEW args \in SUBSET Param
    PROVE  /\ Call(tool, args) \in PlannedCall
           /\ Call(tool, args).tool = tool /\ Call(tool, args).requires = {}
           /\ Call(tool, args).bindings = << >>
<1>1. Call(tool, args) = [tool |-> tool, args |-> args, bindings |-> << >>, requires |-> {}]
  BY DEF Call
<1>2. << >> \in Seq(Binding)
  OBVIOUS
<1> QED
  BY <1>1, <1>2 DEF PlannedCall

\* A call bound to an earlier result is the same call otherwise.
LEMMA BoundCalls ==
    ASSUME NEW plain \in PlannedCall, NEW parameter \in Param, NEW path \in Path
    PROVE  /\ Bound(plain, parameter, path) \in PlannedCall
           /\ Bound(plain, parameter, path).tool = plain.tool
           /\ Bound(plain, parameter, path).requires = plain.requires
           /\ Bound(plain, parameter, path).bindings =
                << [parameter |-> parameter, from |-> 1, path |-> path] >>
<1> DEFINE list == << [parameter |-> parameter, from |-> 1, path |-> path] >>
<1>1. list \in Seq(Binding)
  <2>1. [parameter |-> parameter, from |-> 1, path |-> path] \in Binding
    BY DEF Binding
  <2> QED
    BY <2>1
<1>2. Bound(plain, parameter, path) = [plain EXCEPT !.bindings = list]
  BY DEF Bound
<1> HIDE DEF list
<1>3. Bound(plain, parameter, path) =
        [tool |-> plain.tool, args |-> plain.args, bindings |-> list,
         requires |-> plain.requires]
  BY <1>2 DEF PlannedCall
<1>4. /\ Bound(plain, parameter, path) \in PlannedCall
      /\ Bound(plain, parameter, path).tool = plain.tool
      /\ Bound(plain, parameter, path).requires = plain.requires
      /\ Bound(plain, parameter, path).bindings = list
  BY <1>1, <1>3 DEF PlannedCall
<1> QED
  BY <1>4 DEF list

\* A call that requires fields is the same call otherwise.
LEMMA RequiringCalls ==
    ASSUME NEW call \in PlannedCall, NEW fields \in SUBSET Field
    PROVE  LET needs == Requiring(call, fields)
           IN  /\ needs \in PlannedCall /\ needs.tool = call.tool
               /\ needs.requires = fields /\ needs.bindings = call.bindings
  BY DEF Requiring, PlannedCall

\* Nothing but the stock call of a template requires the stock figure.
StockIsRequiredOfStock(plan) ==
    \A k \in DOMAIN plan : "inventory.available_quantity" \in plan[k].requires =>
        plan[k].tool = "get_material_inventory"

\* Every template is a sequence of planned calls, and only the capacity plan
\* requires the stock figure, of the call that fetches it.
LEMMA TemplatesAreSound ==
    ASSUME NEW intent \in Intent, NEW e \in SUBSET Entity
    PROVE  /\ BuildPlan(intent, e) \in Seq(PlannedCall)
           /\ StockIsRequiredOfStock(BuildPlan(intent, e))
<1> DEFINE Sound(plan) == plan \in Seq(PlannedCall) /\ StockIsRequiredOfStock(plan)
<1>1. /\ PartArg(e) \in SUBSET Param /\ MachineArg(e) \in SUBSET Param
      /\ MaterialArg(e) \in SUBSET Param /\ Window \in SUBSET Param
      /\ {} \in SUBSET Param /\ Window \cup {"include_completed"} \in SUBSET Param
      /\ PartArg(e) \cup Window \in SUBSET Param
      /\ MachineArg(e) \cup Window \in SUBSET Param
  BY DEF PartArg, MachineArg, MaterialArg, Window, Given, Param
<1>2. /\ {"parts.cycle_time_min", "parts.material_qty_per_unit"} \in SUBSET Field
      /\ {"parts.cycle_time_min"} \in SUBSET Field
      /\ {"inventory.available_quantity"} \in SUBSET Field
  BY DEF Field
<1>3. /\ "machine_type" \in Param /\ "material_id" \in Param
      /\ "data.part.required_machine_type" \in Path /\ "data.part.material_id" \in Path
  BY DEF Param, Path
<1>4. /\ "get_machine_status" \in Tool /\ "get_available_machines" \in Tool
      /\ "get_part_information" \in Tool /\ "get_production_orders" \in Tool
      /\ "get_material_inventory" \in Tool /\ "get_maintenance_schedule" \in Tool
      /\ "get_production_history" \in Tool /\ "calculate_production_capacity" \in Tool
  BY DEF Tool
<1>5. ASSUME NEW tool \in Tool, NEW args \in SUBSET Param
      PROVE  Call(tool, args) \in PlannedCall /\ Call(tool, args).requires = {}
  BY TemplateCalls
<1> DEFINE
      info     == Requiring(Call("get_part_information", PartArg(e)),
                            {"parts.cycle_time_min", "parts.material_qty_per_unit"})
      infoB    == Requiring(Call("get_part_information", PartArg(e)),
                            {"parts.cycle_time_min"})
      machines == Bound(Call("get_available_machines", Window),
                        "machine_type", "data.part.required_machine_type")
      schedule == Call("get_maintenance_schedule", Window)
      fetch    == Bound(Call("get_material_inventory", {}),
                        "material_id", "data.part.material_id")
      stock    == Requiring(fetch, {"inventory.available_quantity"})
      capacity == Call("calculate_production_capacity", PartArg(e) \cup Window)
<1>6. /\ info \in PlannedCall
      /\ info.requires = {"parts.cycle_time_min", "parts.material_qty_per_unit"}
      /\ infoB \in PlannedCall /\ infoB.requires = {"parts.cycle_time_min"}
  <2>1. Call("get_part_information", PartArg(e)) \in PlannedCall
    BY <1>1, <1>4, <1>5
  <2> QED
    BY <1>2, <2>1, RequiringCalls
<1>7. machines \in PlannedCall /\ machines.requires = {}
  <2>1. /\ Call("get_available_machines", Window) \in PlannedCall
        /\ Call("get_available_machines", Window).requires = {}
    BY <1>1, <1>4, <1>5
  <2> QED
    BY <1>3, <2>1, BoundCalls
<1>8. stock \in PlannedCall /\ stock.tool = "get_material_inventory"
  <2>1. fetch \in PlannedCall /\ fetch.tool = "get_material_inventory"
    <3>1. /\ Call("get_material_inventory", {}) \in PlannedCall
          /\ Call("get_material_inventory", {}).tool = "get_material_inventory"
      BY <1>1, <1>4, TemplateCalls
    <3> QED
      BY <1>3, <3>1, BoundCalls
  <2> QED
    BY <1>2, <2>1, RequiringCalls
<1>9. /\ schedule \in PlannedCall /\ schedule.requires = {}
      /\ capacity \in PlannedCall /\ capacity.requires = {}
  BY <1>1, <1>4, <1>5
<1> HIDE DEF info, infoB, machines, schedule, fetch, stock, capacity
<1>10. Sound(CapacityPlan(e))
  <2>1. CapacityPlan(e) = << info, machines, schedule, stock, capacity >>
    BY DEF CapacityPlan, info, machines, schedule, stock, capacity, fetch
  <2> QED
    BY <1>6, <1>7, <1>8, <1>9, <2>1 DEF StockIsRequiredOfStock
<1>11. Sound(BottleneckPlan(e))
  <2>1. BottleneckPlan(e) = << infoB, machines, schedule, capacity >>
    BY DEF BottleneckPlan, infoB, machines, schedule, capacity
  <2> QED
    BY <1>6, <1>7, <1>9, <2>1 DEF StockIsRequiredOfStock
<1>12. \A call \in PlannedCall : call.requires = {} => Sound(<< call >>)
  BY DEF StockIsRequiredOfStock
<1>13. \A one, two \in PlannedCall :
         one.requires = {} /\ two.requires = {} => Sound(<< one, two >>)
  BY DEF StockIsRequiredOfStock
<1>14. Sound(AnalysisPlan(e))
  <2> DEFINE front == IF "part" \in e THEN << Call("get_part_information", PartArg(e)) >>
                      ELSE << >>
             history == Call("get_production_history", PartArg(e) \cup Window)
             orders  == Call("get_production_orders", PartArg(e))
             done    == Call("get_maintenance_schedule", Window \cup {"include_completed"})
             back    == << history, orders, done >>
  <2>1. AnalysisPlan(e) = front \o back
    BY DEF AnalysisPlan
  <2>2. /\ history \in PlannedCall /\ history.requires = {}
        /\ orders \in PlannedCall /\ orders.requires = {}
        /\ done \in PlannedCall /\ done.requires = {}
    BY <1>1, <1>4, <1>5
  <2>3. /\ Call("get_part_information", PartArg(e)) \in PlannedCall
        /\ Call("get_part_information", PartArg(e)).requires = {}
    BY <1>1, <1>4, <1>5
  <2> HIDE DEF history, orders, done
  <2>4. back \in Seq(PlannedCall) /\ \A k \in DOMAIN back : back[k].requires = {}
    BY <2>2
  <2>5. front \in Seq(PlannedCall) /\ \A k \in DOMAIN front : front[k].requires = {}
    BY <2>3
  <2> HIDE DEF front, back
  <2>6. /\ front \o back \in Seq(PlannedCall)
        /\ \A k \in DOMAIN (front \o back) : (front \o back)[k].requires = {}
    BY <2>4, <2>5
  <2> QED
    BY <2>1, <2>6 DEF StockIsRequiredOfStock
<1>15. Sound(HealthPlan(e))
  BY <1>1, <1>4, <1>5, <1>13 DEF HealthPlan
<1>16. Sound(AttentionPlan)
  BY <1>1, <1>4, <1>5, <1>13 DEF AttentionPlan
<1>17. /\ Sound(<< Call("get_machine_status", MachineArg(e)) >>)
       /\ Sound(<< Call("get_production_orders", PartArg(e) \cup Window) >>)
       /\ Sound(<< Call("get_material_inventory", MaterialArg(e)) >>)
  BY <1>1, <1>4, <1>5, <1>12
<1>18. Sound(<< >>)
  BY DEF StockIsRequiredOfStock
<1> QED
  BY <1>10, <1>11, <1>14, <1>15, <1>16, <1>17, <1>18 DEF BuildPlan

\* Everything the understanding layer hands over - a question settled without a plan,
\* or the template of its intent - is a reading the executor may be given, and requires
\* the stock figure of the stock call alone (selector.py, build_plan).
THEOREM HandoversAreReadings ==
    \A u \in Handovers : u \in Understanding /\ StockIsRequiredOfStock(u.plan)
<1> SUFFICES ASSUME NEW u \in Handovers
             PROVE  u \in Understanding /\ StockIsRequiredOfStock(u.plan)
  OBVIOUS
<1>1. ASSUME NEW i \in Intent, NEW st \in UnderstandingStatus,
             u = [status |-> st, intent |-> i, plan |-> << >>]
      PROVE  u \in Understanding /\ StockIsRequiredOfStock(u.plan)
  <2>1. << >> \in Seq(PlannedCall) /\ u.plan = << >>
    BY <1>1
  <2>2. u \in Understanding
    BY <1>1, <2>1 DEF Understanding
  <2>3. StockIsRequiredOfStock(<< >>)
    BY DEF StockIsRequiredOfStock
  <2> QED
    BY <2>1, <2>2, <2>3
<1>2. ASSUME NEW q \in Intent \X SUBSET Entity,
             u = [status |-> "understood", intent |-> q[1], plan |-> BuildPlan(q[1], q[2])]
      PROVE  u \in Understanding /\ StockIsRequiredOfStock(u.plan)
  <2>1. q[1] \in Intent /\ q[2] \in SUBSET Entity
    OBVIOUS
  <2>2. /\ BuildPlan(q[1], q[2]) \in Seq(PlannedCall)
        /\ StockIsRequiredOfStock(BuildPlan(q[1], q[2]))
    BY <2>1, TemplatesAreSound
  <2> QED
    BY <1>2, <2>1, <2>2 DEF Understanding, UnderstandingStatus
<1>3. \/ \E q \in Intent \X SUBSET Entity :
            u = [status |-> "understood", intent |-> q[1], plan |-> BuildPlan(q[1], q[2])]
      \/ \E i \in Intent : u = [status |-> "clarify", intent |-> i, plan |-> << >>]
      \/ u = [status |-> "rejected_out_of_domain", intent |-> "unknown", plan |-> << >>]
  BY DEF Handovers
<1>4. "unknown" \in Intent /\ {"clarify", "rejected_out_of_domain"} \subseteq UnderstandingStatus
  BY DEF Intent, UnderstandingStatus
<1>5. ASSUME NEW i \in Intent, u = [status |-> "clarify", intent |-> i, plan |-> << >>]
      PROVE  u \in Understanding /\ StockIsRequiredOfStock(u.plan)
  BY <1>1, <1>4, <1>5
<1>6. CASE u = [status |-> "rejected_out_of_domain", intent |-> "unknown", plan |-> << >>]
  BY <1>1, <1>4, <1>6
<1>7. ASSUME \E q \in Intent \X SUBSET Entity :
               u = [status |-> "understood", intent |-> q[1], plan |-> BuildPlan(q[1], q[2])]
      PROVE  u \in Understanding /\ StockIsRequiredOfStock(u.plan)
  BY <1>2, <1>7
<1>8. ASSUME \E i \in Intent : u = [status |-> "clarify", intent |-> i, plan |-> << >>]
      PROVE  u \in Understanding /\ StockIsRequiredOfStock(u.plan)
  BY <1>5, <1>8
<1> QED
  BY <1>3, <1>6, <1>7, <1>8

-----------------------------------------------------------------------------
(* What a run concludes. *)

\* What each envelope says of the rows it was made from.
LEMMA EnvelopesSay ==
    ASSUME NEW tool \in Tool, NEW m \in Rows
    PROVE  /\ "parts.cycle_time_min" \in EnvelopeOf(tool, m).missing => ~m.cycle
           /\ "parts.material_qty_per_unit" \in EnvelopeOf(tool, m).missing => ~m.qty
           /\ (/\ tool = "get_material_inventory"
               /\ "inventory.available_quantity" \in EnvelopeOf(tool, m).missing) =>
                 m.stock = "uncounted"
           /\ (/\ tool = "calculate_production_capacity"
               /\ EnvelopeOf(tool, m).usable) => m.part /\ CapacityKnown(m)
<1>1. CASE tool = "get_part_information"
  <2>1. EnvelopeOf(tool, m) = GetPartInformation(m)
    BY <1>1 DEF EnvelopeOf
  <2>2. GetPartInformation(m).missing \subseteq
          Unless(m.cycle, "parts.cycle_time_min") \cup Unless(m.qty, "parts.material_qty_per_unit")
    BY DEF GetPartInformation, Returns
  <2> QED
    BY <1>1, <2>1, <2>2 DEF Unless
<1>2. CASE tool = "get_material_inventory"
  <2>1. EnvelopeOf(tool, m) = GetMaterialInventory(m)
    BY <1>2 DEF EnvelopeOf
  <2>2. GetMaterialInventory(m).missing =
          IF m.stock = "uncounted" THEN {"inventory.available_quantity"} ELSE {}
    BY DEF GetMaterialInventory, Returns
  <2> QED
    BY <1>2, <2>1, <2>2
<1>3. CASE tool = "calculate_production_capacity"
  <2>1. EnvelopeOf(tool, m) = CalculateProductionCapacity(m)
    BY <1>3 DEF EnvelopeOf
  <2>2. /\ "parts.cycle_time_min" \in CapacityMissing(m) => ~m.cycle
        /\ "parts.material_qty_per_unit" \in CapacityMissing(m) => ~m.qty
    BY DEF CapacityMissing
  <2>3. CASE ~m.part
    <3>1. ~EnvelopeOf(tool, m).usable /\ EnvelopeOf(tool, m).missing = {}
      BY <2>1, <2>3 DEF CalculateProductionCapacity, Returns
    <3> QED
      BY <1>3, <3>1
  <2>4. CASE m.part
    <3>1. /\ EnvelopeOf(tool, m).usable = CapacityKnown(m)
          /\ EnvelopeOf(tool, m).missing = CapacityMissing(m)
      BY <2>1, <2>4 DEF CalculateProductionCapacity, Returns
    <3> QED
      BY <1>3, <2>2, <2>4, <3>1
  <2> QED
    BY <2>3, <2>4
<1>4. CASE tool = "get_machine_status"
  <2>1. EnvelopeOf(tool, m) = GetMachineStatus(m)
    BY <1>4 DEF EnvelopeOf
  <2>2. GetMachineStatus(m).missing \subseteq
          {"machines.temperature_c", "machines.vibration_mm_s"}
    BY DEF GetMachineStatus, Returns
  <2> QED
    BY <1>4, <2>1, <2>2
<1>5. CASE tool \in {"get_available_machines", "get_production_orders",
                     "get_maintenance_schedule", "get_production_history"}
  <2>1. EnvelopeOf(tool, m).missing = {}
    BY <1>5 DEF EnvelopeOf, Returns, GetAvailableMachines, GetProductionOrders,
                GetMaintenanceSchedule, GetProductionHistory
  <2> QED
    BY <1>5, <2>1
<1> QED
  BY <1>1, <1>2, <1>3, <1>4, <1>5 DEF Tool

\* Whatever changed while it ran, a capacity finding was computed from rows each of
\* which met its precondition when the calculation read it, and the field a refusal
\* names was unknown when the run read it.
THEOREM OutcomesAreWhatWasRead ==
    ASSUME Understandings \subseteq Handovers
    PROVE  FactorySpec => []OutcomeIsWhatWasRead
<1>1. ASSUME FactoryInv, WalkInv, ReadInv
      PROVE  OutcomeIsWhatWasRead
  <2>1. ASSUME composed = "finding", understanding.intent \in PartRequired
        PROVE  \E k \in 1..Len(Plan) :
                  /\ Plan[k].tool = "calculate_production_capacity"
                  /\ steps[k].status = "ok"
                  /\ seen[k].part /\ CapacityKnown(seen[k])
    <3>1. EngineReads = {"calculate_production_capacity"}
      BY <2>1 DEF EngineReads, PartRequired
    <3>2. "calculate_production_capacity" \in typed
      BY <1>1, <2>1, <3>1 DEF ReadInv
    <3>3. PICK k \in 1..Len(Plan) :
             /\ k \in DOMAIN steps /\ steps[k].status = "ok"
             /\ Plan[k].tool = "calculate_production_capacity" /\ Answered(k).usable
      BY <1>1, <3>2 DEF ReadInv
    <3>4. seen[k] \in Rows
      BY <1>1, <3>3 DEF ReadInv, FactoryInv, TypeOK
    <3>5. seen[k].part /\ CapacityKnown(seen[k])
      BY <3>3, <3>4, EnvelopesSay DEF Answered, Tool
    <3> QED
      BY <3>3, <3>5
  <2>2. ASSUME status = "refused_missing_data"
        PROVE  \E k \in 1..Len(Plan) :
                  /\ steps[k].status = "ok"
                  /\ named = "parts.cycle_time_min"        => ~seen[k].cycle
                  /\ named = "parts.material_qty_per_unit" => ~seen[k].qty
                  /\ named = "inventory.available_quantity" => seen[k].stock = "uncounted"
    <3>1. PICK k \in 1..Len(Plan) :
             /\ StoppedAt(k) /\ steps[k].status = "ok"
             /\ named \in steps[k].missing \cap Plan[k].requires
      BY <1>1, <2>2 DEF WalkInv, RefusalNamesItsStep
    <3>2. k \in DOMAIN steps /\ k <= Len(Plan) /\ k \in DOMAIN Plan
      BY <1>1, <3>1, ReadingType DEF StoppedAt, FactoryInv, TypeOK
    <3>3. seen[k] \in Rows
      BY <1>1, <3>2 DEF ReadInv, FactoryInv, TypeOK
    <3>4. steps[k].missing = Answered(k).missing
      BY <1>1, <3>1, <3>2 DEF ReadInv
    <3>5. Plan[k].tool \in Tool
      <4>1. Plan[k] \in PlannedCall
        BY <1>1, <3>2, ReadingType DEF FactoryInv
      <4> QED
        BY <4>1 DEF PlannedCall
    <3>6. named = "inventory.available_quantity" => Plan[k].tool = "get_material_inventory"
      <4>1. understanding \in Handovers
        BY <1>1 DEF FactoryInv, TypeOK
      <4>2. StockIsRequiredOfStock(Plan)
        BY <4>1, HandoversAreReadings DEF Plan
      <4> QED
        BY <3>1, <3>2, <4>2 DEF StockIsRequiredOfStock
    <3>7. named \in EnvelopeOf(Plan[k].tool, seen[k]).missing
      BY <3>1, <3>4 DEF Answered
    <3> QED
      BY <3>1, <3>3, <3>5, <3>6, <3>7, EnvelopesSay
  <2> QED
    BY <2>1, <2>2 DEF OutcomeIsWhatWasRead
<1>2. FactorySpec => []WalkInv
  BY FactoryImplementsExecutor, WalkIsFaithful, PTL
<1> QED
  BY <1>1, <1>2, ReadsAreKept, PTL

-----------------------------------------------------------------------------
(* The early stop, the bindings and the skips of a capacity or bottleneck     *)
(* run.  That a column unknown when the run looks for it always ends in a     *)
(* refusal needs the other half of the walk: nothing is passed over without a *)
(* cause, so no look-up the plan counts on is left out.                       *)

\* A call that was not made waits for a value that an earlier step did not provide.
Waits(k) ==
    \E b \in DOMAIN Plan[k].bindings :
        Plan[k].bindings[b].from < k =>
            << Plan[k].bindings[b].from, Plan[k].bindings[b].path >> \notin results

\* The k-th call was passed over for a cause, if it was.
Excused(k) ==
    /\ steps[k].status = "skipped" => Waits(k)
    /\ steps[k].status = "not_implemented" => Plan[k].tool \notin Implemented

SkipInv ==
    Understood =>
        /\ status \in {"answered", "refused_missing_data", "error"}
        /\ phase = "done" /\ status = "refused_missing_data" => composed = "refusal"
        /\ status = "answered" => \A k \in DOMAIN steps : k <= Len(Plan) => Excused(k)

\* One more step, excused, leaves the others excused whatever it provides.
LEMMA OneMoreExcused ==
    ASSUME TypeOK, WalkInv, SkipInv, Walking, NEW r \in Step, NEW paths,
           steps' = Append(steps, r), UNCHANGED << understanding, phase, status >>,
           results' = results \cup ({Position} \X paths),
           r.status = "skipped" => ~AllResolved /\ results' = results,
           r.status = "not_implemented" => Current.tool \notin Implemented
    PROVE  SkipInv'
<1>1. /\ Plan' = Plan /\ Understood' /\ Understood /\ status = "answered" /\ status' = status
      /\ phase' # "done"
      /\ DOMAIN steps = 1..(Position - 1)
      /\ Position \in 1..Len(Plan) /\ Len(Plan) \in Nat
  BY WalkingAnswers DEF Plan, Understood
<1>2. /\ DOMAIN steps' = 1..Position
      /\ \A j \in DOMAIN steps : steps'[j] = steps[j]
      /\ steps'[Position] = r
  BY OneMore
<1>3. ASSUME NEW k \in DOMAIN steps
      PROVE  Excused(k)'
  <2>1. k \in Nat /\ k < Position /\ k <= Len(Plan)
    BY <1>1
  <2>2. Excused(k)
    BY <1>1, <2>1 DEF SkipInv
  <2>3. ASSUME Waits(k) PROVE Waits(k)'
    <3>1. PICK b \in DOMAIN Plan[k].bindings :
             Plan[k].bindings[b].from < k =>
               << Plan[k].bindings[b].from, Plan[k].bindings[b].path >> \notin results
      BY <2>3 DEF Waits
    <3>2. Plan[k].bindings[b].from < k => Plan[k].bindings[b].from # Position
      BY <1>1, <2>1
    <3>3. Plan[k].bindings[b].from < k =>
            << Plan[k].bindings[b].from, Plan[k].bindings[b].path >> \notin results'
      BY <3>1, <3>2
    <3> QED
      BY <1>1, <3>3 DEF Waits
  <2> QED
    BY <1>1, <1>2, <2>2, <2>3 DEF Excused
<1>4. PICK p \in 1..Len(Plan) : p = Position
  BY <1>1
<1>5. Excused(p)'
  <2>1. ASSUME r.status = "skipped" PROVE Waits(p)'
    <3>1. Resolved(Current.bindings) # DOMAIN Current.bindings
      BY <2>1 DEF AllResolved
    <3>2. Current.bindings \in Seq(Binding)
      BY CurrentType DEF PlannedCall
    <3>3. PICK j \in DOMAIN Current.bindings : j \notin Resolved(Current.bindings)
      BY <3>1 DEF Resolved
    <3>4. PICK b \in 1..j :
             << Current.bindings[b].from, Current.bindings[b].path >> \notin results
      BY <3>3 DEF Resolved
    <3>5. b \in DOMAIN Current.bindings
      BY <3>2, <3>3, <3>4
    <3>6. Current = Plan[p] /\ Plan'[p] = Plan[p] /\ results' = results
      BY <1>1, <1>4, <2>1 DEF Current
    <3> QED
      BY <3>4, <3>5, <3>6 DEF Waits
  <2>2. r.status = "not_implemented" => Plan'[p].tool \notin Implemented
    BY <1>1, <1>4 DEF Current
  <2> QED
    BY <1>2, <1>4, <2>1, <2>2 DEF Excused
<1>6. \A k \in DOMAIN steps' : k = p \/ k \in DOMAIN steps
  BY <1>1, <1>2, <1>4
<1> QED
  BY <1>1, <1>3, <1>5, <1>6 DEF SkipInv

\* Every step of the walk passes over no call without a cause.
LEMMA SkipStep ==
    ASSUME TypeOK, WalkInv, SkipInv, [Next]_vars
    PROVE  SkipInv'
<1>1. CASE Settle
  BY <1>1 DEF Settle, SkipInv, Understood
<1>2. CASE SkipUnbound
  <2>1. /\ Traced(Position, "skipped", {}) \in Step
        /\ Traced(Position, "skipped", {}).status = "skipped"
    BY <1>2, TracedType DEF SkipUnbound, StepStatus, Traced
  <2>2. results' = results \cup ({Position} \X {})
    BY <1>2 DEF SkipUnbound
  <2> QED
    BY <1>2, <2>1, <2>2, OneMoreExcused DEF SkipUnbound
<1>3. CASE NotBuilt
  <2>1. /\ Traced(Position, "not_implemented", {}) \in Step
        /\ Traced(Position, "not_implemented", {}).status = "not_implemented"
    BY <1>3, TracedType DEF NotBuilt, Invocable, StepStatus, Traced
  <2>2. results' = results \cup ({Position} \X {})
    BY <1>3 DEF NotBuilt
  <2> QED
    BY <1>3, <2>1, <2>2, OneMoreExcused DEF NotBuilt, Invocable
<1>4. CASE Invoke
  <2>1. PICK env \in Envelopes[Current.tool] : Return(env) \/ Refuse(env)
    BY <1>4 DEF Invoke
  <2>2. Walking
    BY <1>4 DEF Invoke, Callable, Invocable
  <2>3. CASE Return(env)
    <3>1. Current.tool \in Tool
      BY <2>2, CurrentType DEF PlannedCall
    <3>2. env.missing \in SUBSET Field
      BY <3>1, EnvelopesAssumption DEF Envelope
    <3>3. /\ Traced(Position, "ok", env.missing) \in Step
          /\ Traced(Position, "ok", env.missing).status = "ok"
      BY <2>2, <3>2, TracedType DEF StepStatus, Traced
    <3> QED
      BY <2>2, <2>3, <3>3, OneMoreExcused DEF Return, Keep
  <2>4. CASE Refuse(env)
    BY <2>2, <2>4 DEF Refuse, SkipInv, Understood, Walking
  <2> QED
    BY <2>1, <2>3, <2>4
<1>5. CASE Fail
  BY <1>5 DEF Fail, Invocable, Walking, SkipInv, Understood
<1>6. CASE Conclude
  <2>1. /\ Len(steps) = Len(Plan) /\ Len(Plan) \in Nat /\ steps \in Seq(Step)
        /\ DOMAIN steps = 1..Len(Plan)
        /\ UNCHANGED << understanding, results, status >>
        /\ Plan' = Plan /\ Understood' = Understood
        /\ steps' = steps \/ steps' = Append(steps, EngineStep)
    BY <1>6, ReadingType DEF Conclude, TypeOK, Plan, Understood
  <2>2. \A j \in DOMAIN steps' : j <= Len(Plan) => j \in DOMAIN steps /\ steps'[j] = steps[j]
    BY <2>1
  <2>3. \A j : Waits(j)' = Waits(j)
    BY <2>1 DEF Waits
  <2>4. status = "refused_missing_data" => composed' = "refusal"
    BY <1>6 DEF Conclude, ComposeAnswer
  <2> QED
    BY <2>1, <2>2, <2>3, <2>4 DEF SkipInv, Excused
<1>7. CASE UNCHANGED << understanding, steps, results, status >>
             /\ (phase' = "raised" \/ UNCHANGED << phase, composed >>)
  BY <1>7 DEF SkipInv, Understood, Plan, Excused, Waits
<1> QED
  BY <1>1, <1>2, <1>3, <1>4, <1>5, <1>6, <1>7 DEF Next, Raise, vars

\* A run passes over no call without a cause: a skipped call waits for a value no
\* earlier call provided, and one that is not implemented has no handler; and a run
\* that refused says so.
LEMMA SkipsHaveACause == Spec => []SkipInv
<1>1. Init => SkipInv
  BY DEF Init, SkipInv, Understood, Excused
<1>2. Spec => [](TypeOK /\ WalkInv)
  BY TypeCorrect, WalkIsFaithful, PTL
<1> QED
  BY <1>1, <1>2, SkipStep, PTL DEF Spec

\* What a capacity and a bottleneck run look up, as the selector wrote it: the part
\* first, with nothing to wait for, and the stock of the material it is made of.
LookedUp(plan, intent) ==
    /\ 1 \in DOMAIN plan /\ plan[1].bindings = << >>
    /\ "parts.cycle_time_min" \in plan[1].requires
    /\ intent = "production_capacity" => "parts.material_qty_per_unit" \in plan[1].requires
    /\ \A k \in DOMAIN plan : plan[k].tool = "get_part_information" => k = 1
    /\ plan[1].tool = "get_part_information"
    /\ \A k \in DOMAIN plan : plan[k].tool = "get_material_inventory" =>
         /\ plan[k].bindings = << [parameter |-> "material_id", from |-> 1,
                                   path |-> "data.part.material_id"] >>
         /\ "inventory.available_quantity" \in plan[k].requires

\* The two templates that need a part look their columns up.
LEMMA TemplatesLookUp ==
    ASSUME NEW e \in SUBSET Entity
    PROVE  /\ LookedUp(CapacityPlan(e), "production_capacity")
           /\ LookedUp(BottleneckPlan(e), "bottleneck")
<1>1. PartArg(e) \in SUBSET Param /\ Window \in SUBSET Param /\ {} \in SUBSET Param
      /\ PartArg(e) \cup Window \in SUBSET Param
  BY DEF PartArg, Window, Given, Param
<1>2. /\ "machine_type" \in Param /\ "material_id" \in Param
      /\ "data.part.required_machine_type" \in Path /\ "data.part.material_id" \in Path
  BY DEF Param, Path
<1>3. /\ "get_available_machines" \in Tool /\ "get_part_information" \in Tool
      /\ "get_material_inventory" \in Tool /\ "get_maintenance_schedule" \in Tool
      /\ "calculate_production_capacity" \in Tool
  BY DEF Tool
<1>4. /\ {"parts.cycle_time_min", "parts.material_qty_per_unit"} \in SUBSET Field
      /\ {"parts.cycle_time_min"} \in SUBSET Field
      /\ {"inventory.available_quantity"} \in SUBSET Field
  BY DEF Field
<1> DEFINE
      ask      == Call("get_part_information", PartArg(e))
      info     == Requiring(ask, {"parts.cycle_time_min", "parts.material_qty_per_unit"})
      infoB    == Requiring(ask, {"parts.cycle_time_min"})
      free     == Call("get_available_machines", Window)
      machines == Bound(free, "machine_type", "data.part.required_machine_type")
      schedule == Call("get_maintenance_schedule", Window)
      count    == Call("get_material_inventory", {})
      fetch    == Bound(count, "material_id", "data.part.material_id")
      stock    == Requiring(fetch, {"inventory.available_quantity"})
      capacity == Call("calculate_production_capacity", PartArg(e) \cup Window)
<1>5. /\ CapacityPlan(e) = << info, machines, schedule, stock, capacity >>
      /\ BottleneckPlan(e) = << infoB, machines, schedule, capacity >>
  BY DEF CapacityPlan, BottleneckPlan
<1>6. /\ ask \in PlannedCall /\ ask.tool = "get_part_information" /\ ask.bindings = << >>
      /\ free \in PlannedCall /\ free.tool = "get_available_machines"
      /\ schedule.tool = "get_maintenance_schedule"
      /\ count \in PlannedCall /\ count.tool = "get_material_inventory"
      /\ capacity.tool = "calculate_production_capacity"
  BY <1>1, <1>3, TemplateCalls
<1> HIDE DEF ask, free, schedule, count, capacity
<1>7. machines.tool = "get_available_machines"
  BY <1>2, <1>6, BoundCalls
<1>8. /\ fetch \in PlannedCall /\ fetch.tool = "get_material_inventory"
      /\ fetch.bindings = << [parameter |-> "material_id", from |-> 1,
                              path |-> "data.part.material_id"] >>
  BY <1>2, <1>6, BoundCalls
<1> HIDE DEF machines, fetch
<1>9. /\ info.tool = "get_part_information" /\ info.bindings = << >>
      /\ info.requires = {"parts.cycle_time_min", "parts.material_qty_per_unit"}
      /\ infoB.tool = "get_part_information" /\ infoB.bindings = << >>
      /\ infoB.requires = {"parts.cycle_time_min"}
      /\ stock.tool = "get_material_inventory"
      /\ stock.bindings = << [parameter |-> "material_id", from |-> 1,
                              path |-> "data.part.material_id"] >>
      /\ stock.requires = {"inventory.available_quantity"}
  BY <1>4, <1>6, <1>8, RequiringCalls
<1> HIDE DEF info, infoB, stock
<1>10. LookedUp(<< info, machines, schedule, stock, capacity >>, "production_capacity")
  BY <1>6, <1>7, <1>9 DEF LookedUp
<1>11. LookedUp(<< infoB, machines, schedule, capacity >>, "bottleneck")
  BY <1>6, <1>7, <1>9 DEF LookedUp
<1> QED
  BY <1>5, <1>10, <1>11

\* What is handed over for a question that needs a part looks its columns up.
LEMMA PlanLooksUp ==
    ASSUME understanding \in Handovers, Understood, understanding.intent \in PartRequired
    PROVE  LookedUp(Plan, understanding.intent)
<1>1. PICK q \in Intent \X SUBSET Entity :
         understanding = [status |-> "understood", intent |-> q[1], plan |-> BuildPlan(q[1], q[2])]
  BY DEF Handovers, Understood
<1>2. q[2] \in SUBSET Entity /\ Plan = BuildPlan(q[1], q[2]) /\ understanding.intent = q[1]
  BY <1>1 DEF Plan
<1>3. CASE q[1] = "production_capacity"
  <2>1. Plan = CapacityPlan(q[2])
    BY <1>2, <1>3 DEF BuildPlan
  <2> QED
    BY <1>2, <1>3, <2>1, TemplatesLookUp
<1>4. CASE q[1] = "bottleneck"
  <2>1. Plan = BottleneckPlan(q[2])
    BY <1>2, <1>4 DEF BuildPlan
  <2> QED
    BY <1>2, <1>4, <2>1, TemplatesLookUp
<1> QED
  BY <1>2, <1>3, <1>4 DEF PartRequired

\* An answered run made every call that had nothing to wait for and a handler.
LEMMA AnsweredCalls ==
    ASSUME FactoryInv, WalkInv, SkipInv, Understood, status = "answered",
           NEW k \in 1..Len(Plan), k \in DOMAIN steps,
           Plan[k].tool \in Implemented, ~Waits(k)
    PROVE  steps[k].status = "ok" /\ steps[k].missing \cap Plan[k].requires = {}
<1>1. k <= Len(Plan)
  BY ReadingType DEF FactoryInv
<1>2. Harmless(k) /\ Excused(k)
  BY <1>1 DEF WalkInv, AnsweredIsComplete, SkipInv
<1>3. steps[k].status \in StepStatus
  <2>1. steps[k] \in Step
    BY DEF FactoryInv, TypeOK
  <2> QED
    BY <2>1 DEF Step
<1> QED
  BY <1>2, <1>3 DEF Excused, Harmless, StepStatus

\* The walk of a run that was answered: what its look-ups required was there.
LEMMA LookUpsFound ==
    ASSUME FactoryInv, WalkInv, ReadInv, SkipInv, understanding \in Handovers,
           {"get_part_information", "get_material_inventory"} \subseteq Implemented,
           phase = "done", Understood, status = "answered",
           understanding.intent \in PartRequired,
           NEW k \in 1..Len(Plan)
    PROVE  ~UnknownAt(k)
<1>1. LookedUp(Plan, understanding.intent) /\ Plan \in Seq(PlannedCall) /\ Len(Plan) \in Nat
  BY PlanLooksUp, ReadingType DEF FactoryInv
<1>2. 1..Len(Plan) \subseteq DOMAIN steps /\ DOMAIN seen = DOMAIN steps
  <2>1. steps \in Seq(Step) /\ Len(steps) \in {Len(Plan), Len(Plan) + 1}
    BY DEF WalkInv, WholePlanShown, FactoryInv, TypeOK
  <2> QED
    BY <1>1, <2>1 DEF ReadInv
<1>3. 1 \in 1..Len(Plan) /\ k \in DOMAIN Plan /\ DOMAIN Plan = 1..Len(Plan)
  BY <1>1 DEF LookedUp
<1>4. seen[1] \in Rows /\ seen[k] \in Rows
  BY <1>2, <1>3 DEF ReadInv
<1>5. /\ steps[1].status = "ok" /\ steps[1].missing \cap Plan[1].requires = {}
      /\ steps[1].missing = GetPartInformation(seen[1]).missing
      /\ \A path : << 1, path >> \in results <=>
                     path \in GetPartInformation(seen[1]).provides
  <2>1. ~Waits(1) /\ Plan[1].tool = "get_part_information"
    BY <1>1 DEF Waits, LookedUp
  <2>2. steps[1].status = "ok" /\ steps[1].missing \cap Plan[1].requires = {}
    BY <1>2, <1>3, <2>1, AnsweredCalls
  <2>3. Answered(1) = GetPartInformation(seen[1])
    BY <2>1 DEF Answered, EnvelopeOf
  <2>4. 1 <= Len(Plan)
    BY <1>1, <1>3
  <2> QED
    BY <1>2, <1>3, <2>2, <2>3, <2>4 DEF ReadInv
<1>6. ASSUME Plan[k].tool = "get_part_information", seen[k].part,
             \/ ~seen[k].cycle
             \/ ~seen[k].qty /\ understanding.intent = "production_capacity"
      PROVE  FALSE
  <2>1. k = 1
    BY <1>1, <1>3, <1>6 DEF LookedUp
  <2>2. GetPartInformation(seen[1]).missing =
          Unless(seen[1].cycle, "parts.cycle_time_min")
            \cup Unless(seen[1].qty, "parts.material_qty_per_unit")
    BY <1>6, <2>1 DEF GetPartInformation, Returns
  <2> QED
    BY <1>1, <1>5, <1>6, <2>1, <2>2 DEF LookedUp, Unless
<1>7. ASSUME Plan[k].tool = "get_material_inventory", seen[k].stock = "uncounted",
             NEW j \in 1..(k - 1), Plan[j].tool = "get_part_information",
             seen[j].part, seen[j].material
      PROVE  FALSE
  <2>1. j = 1
    <3>1. j \in DOMAIN Plan
      BY <1>1, <1>3, <1>7
    <3> QED
      BY <1>1, <1>7, <3>1 DEF LookedUp
  <2>2. << 1, "data.part.material_id" >> \in results
    BY <1>5, <1>7, <2>1 DEF GetPartInformation, Returns
  <2>3. ~Waits(k)
    <3>1. Plan[k].bindings = << [parameter |-> "material_id", from |-> 1,
                                 path |-> "data.part.material_id"] >>
      BY <1>1, <1>3, <1>7 DEF LookedUp
    <3>2. /\ DOMAIN Plan[k].bindings = {1} /\ Plan[k].bindings[1].from = 1
          /\ Plan[k].bindings[1].path = "data.part.material_id"
      BY <3>1
    <3>3. 1 < k
      BY <1>7, <1>1, <2>1
    <3> QED
      BY <2>2, <3>2, <3>3 DEF Waits
  <2>4. steps[k].status = "ok" /\ steps[k].missing \cap Plan[k].requires = {}
    BY <1>2, <1>7, <2>3, AnsweredCalls
  <2>5. Answered(k) = GetMaterialInventory(seen[k])
    BY <1>7 DEF Answered, EnvelopeOf
  <2>6. steps[k].missing = {"inventory.available_quantity"}
    <3>1. k \in DOMAIN steps /\ k <= Len(Plan)
      BY <1>1, <1>2
    <3> QED
      BY <1>7, <2>4, <2>5, <3>1 DEF ReadInv, GetMaterialInventory, Returns
  <2>7. "inventory.available_quantity" \in Plan[k].requires
    BY <1>1, <1>3, <1>7 DEF LookedUp
  <2> QED
    BY <2>4, <2>6, <2>7
<1> QED
  BY <1>6, <1>7 DEF UnknownAt

\* However the factory changes under a capacity or bottleneck run without a failed
\* call, a column it needs that was unknown when its plan looked for it ends it in a
\* refusal, and the refusal is what it says (executor.py:122-133).
THEOREM UnknownsAreRefused ==
    ASSUME Understandings \subseteq Handovers,
           {"get_part_information", "get_material_inventory"} \subseteq Implemented
    PROVE  FactorySpec => []UnknownIsRefused
<1>1. FactorySpec => [](WalkInv /\ SkipInv)
  BY FactoryImplementsExecutor, WalkIsFaithful, SkipsHaveACause, PTL
<1>2. ASSUME FactoryInv, ReadInv, WalkInv, SkipInv
      PROVE  UnknownIsRefused
  <2> SUFFICES ASSUME phase = "done", Understood, status # "error",
                      understanding.intent \in PartRequired,
                      NEW k \in 1..Len(Plan), UnknownAt(k)
               PROVE  status = "refused_missing_data" /\ composed = "refusal"
    BY DEF UnknownIsRefused
  <2>1. understanding \in Handovers
    BY <1>2 DEF FactoryInv, TypeOK
  <2>2. status # "answered"
    BY <1>2, <2>1, LookUpsFound
  <2> QED
    BY <1>2, <2>2 DEF SkipInv
<1> QED
  BY <1>1, <1>2, ReadsAreKept, PTL

=============================================================================
