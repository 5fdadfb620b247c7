--------------------------- MODULE ExecutorProofs ---------------------------
(***************************************************************************)
(* What holds of every walk over every plan, for any tools, any readings   *)
(* and any registry: the executor's safety properties, proved.             *)
(***************************************************************************)
EXTENDS Executor, SequenceTheorems, TLAPS

-----------------------------------------------------------------------------
(* Sequences of steps. *)

\* The reading of a question is well formed: it has a status and a plan.
LEMMA ReadingType ==
    ASSUME TypeOK
    PROVE  /\ understanding \in Understanding
           /\ Plan \in Seq(PlannedCall)
           /\ Len(Plan) \in Nat
  BY UnderstandingsAssumption DEF TypeOK, Understanding, Plan

\* The call at hand is a planned call, and the next position is within the plan.
LEMMA CurrentType ==
    ASSUME TypeOK, Walking
    PROVE  /\ Position \in 1..Len(Plan)
           /\ Current \in PlannedCall
           /\ Current = Plan[Position]
<1>1. Len(steps) \in Nat /\ Len(Plan) \in Nat
  BY ReadingType DEF TypeOK
<1>2. Position \in 1..Len(Plan)
  BY <1>1 DEF Walking, Position
<1> QED
  BY <1>2, ReadingType DEF Current

\* Whatever was resolved, a recorded step is a step.
LEMMA TracedType ==
    ASSUME TypeOK, Walking, NEW st \in StepStatus, NEW lacking \in SUBSET Field
    PROVE  Traced(Position, st, lacking) \in Step
<1>1. Position \in Nat
  BY CurrentType, ReadingType
<1>2. Current.bindings \in Seq(Binding)
  BY CurrentType DEF PlannedCall
<1>3. Resolved(Current.bindings) \subseteq Nat
  BY <1>2 DEF Resolved
<1> QED
  BY <1>1, <1>3 DEF Traced, Step

\* The skipped rest fills the plan, one step for each call not yet walked.
LEMMA RestType ==
    ASSUME TypeOK, Walking
    PROVE  /\ RestSkipped \in Seq(Step)
           /\ Len(RestSkipped) = Len(Plan) - Position
           /\ \A j \in 1..(Len(Plan) - Position) :
                RestSkipped[j] = Skipped(Position + j)
<1> DEFINE n == Len(Plan) - Position
<1>1. n \in Nat /\ Position \in Nat
  BY CurrentType, ReadingType
<1>2. \A j \in 1..n : Skipped(Position + j) \in Step
  BY <1>1 DEF Skipped, Step, StepStatus
<1>3. RestSkipped = [j \in 1..n |-> Skipped(Position + j)]
  BY DEF RestSkipped
<1>4. RestSkipped \in [1..n -> Step]
  BY <1>2, <1>3
<1>5. RestSkipped \in Seq(Step)
  BY <1>1, <1>4, SeqDef
<1>6. Len(RestSkipped) \in Nat /\ 1..Len(RestSkipped) = 1..n
  BY <1>4, <1>5, LenProperties
<1>7. Len(RestSkipped) = n
  BY <1>1, <1>6
<1> QED
  BY <1>3, <1>5, <1>7

\* One step recorded: the trace grows by it and keeps what it held.
LEMMA OneMore ==
    ASSUME TypeOK, Walking, NEW r \in Step, steps' = Append(steps, r)
    PROVE  /\ steps' \in Seq(Step)
           /\ Len(steps') = Position
           /\ DOMAIN steps' = 1..Position
           /\ \A j \in DOMAIN steps : steps'[j] = steps[j]
           /\ steps'[Position] = r
  BY DEF TypeOK, Position

\* A stop: the step it happened at, then the rest of the plan as skipped.
LEMMA Stopping ==
    ASSUME TypeOK, Walking, NEW r \in Step,
           steps' = Append(steps, r) \o RestSkipped
    PROVE  /\ steps' \in Seq(Step)
           /\ Len(steps') = Len(Plan)
           /\ DOMAIN steps' = 1..Len(Plan)
           /\ \A j \in DOMAIN steps : steps'[j] = steps[j]
           /\ steps'[Position] = r
           /\ \A j \in (Position + 1)..Len(Plan) :
                /\ steps'[j].step = j /\ steps'[j].kind = "tool"
                /\ steps'[j].status = "skipped"
<1> DEFINE front == Append(steps, r)
<1>1. /\ Len(steps) \in Nat /\ Len(Plan) \in Nat
      /\ Position = Len(steps) + 1 /\ Position <= Len(Plan)
  BY CurrentType, ReadingType DEF TypeOK, Position
<1>2. /\ front \in Seq(Step) /\ Len(front) = Position
      /\ \A j \in DOMAIN steps : front[j] = steps[j]
      /\ front[Position] = r
  BY <1>1 DEF TypeOK
<1>3. /\ RestSkipped \in Seq(Step)
      /\ Len(RestSkipped) = Len(Plan) - Position
      /\ \A j \in 1..(Len(Plan) - Position) :
           RestSkipped[j] = Skipped(Position + j)
  BY RestType
<1> HIDE DEF front
<1>4. /\ steps' \in Seq(Step) /\ Len(steps') = Len(Plan)
      /\ \A j \in 1..Len(Plan) :
           steps'[j] = IF j <= Position THEN front[j] ELSE RestSkipped[j - Position]
  <2>1. steps' = front \o RestSkipped
    BY DEF front
  <2>2. steps' \in Seq(Step) /\ Len(steps') = Len(front) + Len(RestSkipped)
    BY <2>1, <1>2, <1>3, ConcatProperties
  <2>3. \A j \in 1..(Len(front) + Len(RestSkipped)) :
          steps'[j] = IF j <= Len(front) THEN front[j] ELSE RestSkipped[j - Len(front)]
    <3>1. \A j \in 1..(Len(front) + Len(RestSkipped)) :
            (front \o RestSkipped)[j] =
              IF j <= Len(front) THEN front[j] ELSE RestSkipped[j - Len(front)]
      BY <1>2, <1>3, ConcatProperties, Zenon
    <3> QED
      BY <2>1, <3>1, Zenon
  <2>4. Len(front) + Len(RestSkipped) = Len(Plan)
    BY <1>1, <1>2, <1>3
  <2> QED
    BY <2>2, <2>3, <2>4, <1>2
<1>5. ASSUME NEW j \in (Position + 1)..Len(Plan) PROVE steps'[j] = Skipped(j)
  <2>1. j \in 1..Len(Plan) /\ ~(j <= Position)
    BY <1>1
  <2>2. j - Position \in 1..(Len(Plan) - Position) /\ Position + (j - Position) = j
    BY <1>1
  <2> QED
    BY <2>1, <2>2, <1>3, <1>4
<1>6. \A j \in (Position + 1)..Len(Plan) :
        /\ steps'[j].step = j /\ steps'[j].kind = "tool"
        /\ steps'[j].status = "skipped"
  <2>1. \A j : /\ Skipped(j).step = j /\ Skipped(j).kind = "tool"
               /\ Skipped(j).status = "skipped"
    BY DEF Skipped
  <2> QED
    BY <1>5, <2>1
<1>7. \A j \in DOMAIN steps : j \in 1..Len(Plan) /\ j <= Position
  BY <1>1 DEF TypeOK
<1> QED
  BY <1>1, <1>2, <1>4, <1>6, <1>7

-----------------------------------------------------------------------------
(* Type correctness. *)

\* The state of a run is well typed at the start.
LEMMA TypeInit == Init => TypeOK
  BY DEF Init, TypeOK, RunStatus, Composed

\* Every step of the walk keeps the type.
LEMMA TypeStep ==
    ASSUME TypeOK, [Next]_vars
    PROVE  TypeOK'
<1>1. CASE Settle
  BY <1>1, ReadingType
     DEF Settle, TypeOK, Understood, Understanding, UnderstandingStatus,
         RunStatus, Composed
<1>2. CASE SkipUnbound
  <2>1. Traced(Position, "skipped", {}) \in Step
    BY <1>2, TracedType DEF SkipUnbound, StepStatus
  <2> QED
    BY <1>2, <2>1, OneMore DEF SkipUnbound, TypeOK
<1>3. CASE NotBuilt
  <2>1. Traced(Position, "not_implemented", {}) \in Step
    BY <1>3, TracedType DEF NotBuilt, Invocable, StepStatus
  <2> QED
    BY <1>3, <2>1, OneMore DEF NotBuilt, Invocable, TypeOK
<1>4. CASE Invoke
  <2>1. PICK env \in Envelopes[Current.tool] : Return(env) \/ Refuse(env)
    BY <1>4 DEF Invoke
  <2>2. Walking
    BY <1>4 DEF Invoke, Callable, Invocable
  <2>3. Current.tool \in Tool
    BY <2>2, CurrentType DEF PlannedCall
  <2>4. env \in Envelope
    BY <2>3, EnvelopesAssumption
  <2>5. env.missing \in SUBSET Field /\ env.provides \in SUBSET Path
    BY <2>4 DEF Envelope
  <2>6. Traced(Position, "ok", env.missing) \in Step
    BY <2>2, <2>5, TracedType DEF StepStatus
  <2>7. Position \in Nat
    BY <2>2, CurrentType, ReadingType
  <2>8. results' \subseteq Nat \X Path /\ typed' \subseteq Tool
    BY <2>1, <2>3, <2>5, <2>7 DEF Return, Refuse, Keep, TypeOK
  <2>9. steps' \in Seq(Step)
    BY <2>1, <2>2, <2>6, OneMore, Stopping DEF Return, Refuse
  <2>10. CASE Return(env)
    BY <2>8, <2>9, <2>10 DEF Return, TypeOK
  <2>11. CASE Refuse(env)
    BY <2>5, <2>8, <2>9, <2>11 DEF Refuse, Fatal, TypeOK, RunStatus
  <2> QED
    BY <2>1, <2>10, <2>11
<1>5. CASE Fail
  <2>1. Traced(Position, "failed", {}) \in Step
    BY <1>5, TracedType DEF Fail, Invocable, StepStatus
  <2> QED
    BY <1>5, <2>1, Stopping DEF Fail, Invocable, TypeOK, RunStatus
<1>6. CASE Raise
  BY <1>6 DEF Raise, TypeOK
<1>7. CASE Conclude
  <2>1. EngineStep \in Step
    BY DEF EngineStep, Step, StepStatus, Position, TypeOK
  <2>2. steps' \in Seq(Step)
    BY <1>7, <2>1 DEF Conclude, TypeOK
  <2>3. Reported \subseteq Field
    <3>1. \A j \in DOMAIN steps : steps[j] \in Step
      BY DEF TypeOK
    <3>2. \A j \in DOMAIN steps : steps[j].missing \subseteq Field
      BY <3>1 DEF Step
    <3> QED
      BY <3>2, Zenon DEF Reported
  <2>4. ComposeAnswer \in Composed
    BY DEF ComposeAnswer, Composed
  <2> QED
    BY <1>7, <2>2, <2>3, <2>4 DEF Conclude, TypeOK
<1>8. CASE UNCHANGED vars
  BY <1>8 DEF vars, TypeOK
<1> QED
  BY <1>1, <1>2, <1>3, <1>4, <1>5, <1>6, <1>7, <1>8 DEF Next

\* The state of a run keeps its type through every step of the walk.
THEOREM TypeCorrect == Spec => []TypeOK
  BY TypeInit, TypeStep, PTL DEF Spec

-----------------------------------------------------------------------------
(* The walk and the plan.  None of the properties below is inductive by     *)
(* itself: that a run refuses at one step only holds because a stop leaves  *)
(* nothing to walk, and that nothing before it was fatal because a run that *)
(* still answers has had nothing fatal.                                     *)

\* Until the run is finished, its k-th step is the k-th planned call.
InStep ==
    /\ ~Understood => steps = << >> /\ status \in {"answered", understanding.status}
    /\ (Understood /\ phase # "done") =>
         /\ Len(steps) <= Len(Plan)
         /\ \A j \in DOMAIN steps : steps[j].step = j /\ steps[j].kind = "tool"

\* A walk that stopped has recorded the whole plan.
StoppedShort == (Understood /\ status # "answered") => Len(steps) = Len(Plan)

WalkInv ==
    /\ InStep
    /\ StoppedShort
    /\ WholePlanShown
    /\ AnsweredIsComplete
    /\ RefusalNamesItsStep
    /\ ErrorStopsTheWalk

\* A run that is still walking has not refused and has not failed.
LEMMA WalkingAnswers ==
    ASSUME TypeOK, WalkInv, Walking
    PROVE  /\ status = "answered"
           /\ phase = "walk" /\ Understood
           /\ DOMAIN steps = 1..(Position - 1)
           /\ Position \in 1..Len(Plan) /\ Len(Plan) \in Nat
           /\ \A j \in DOMAIN steps : Harmless(j)
<1>1. Len(steps) \in Nat /\ Len(Plan) \in Nat /\ Position \in 1..Len(Plan)
  BY ReadingType, CurrentType DEF TypeOK
<1>2. status = "answered" /\ phase = "walk" /\ Understood
  BY <1>1 DEF WalkInv, StoppedShort, Walking
<1>3. DOMAIN steps = 1..(Position - 1) /\ Len(steps) <= Len(Plan)
  BY <1>1 DEF TypeOK, Position
<1>4. \A j \in DOMAIN steps : j <= Len(Plan)
  BY <1>1, <1>3
<1> QED
  BY <1>1, <1>2, <1>3, <1>4 DEF WalkInv, AnsweredIsComplete

\* A call that came to no harm, or that was skipped, leaves the walk intact.
LEMMA GoingOn ==
    ASSUME TypeOK, WalkInv, Walking,
           NEW st \in StepStatus \ {"failed"}, NEW lacking \in SUBSET Field,
           Fatal(Current, lacking) = {},
           steps' = Append(steps, Traced(Position, st, lacking)),
           UNCHANGED << understanding, phase, status >>
    PROVE  WalkInv'
<1> DEFINE r == Traced(Position, st, lacking)
<1>1. r \in Step
  BY TracedType
<1>2. r.step = Position /\ r.kind = "tool" /\ r.status = st /\ r.missing = lacking
  BY DEF Traced
<1>3. /\ status' = "answered" /\ phase' = "walk" /\ Understood' /\ Plan' = Plan
      /\ DOMAIN steps = 1..(Position - 1)
      /\ Position \in 1..Len(Plan) /\ Len(Plan) \in Nat
      /\ \A j \in DOMAIN steps : Harmless(j)
  BY WalkingAnswers DEF Understood, Plan
<1>4. /\ Len(steps') = Position /\ DOMAIN steps' = 1..Position
      /\ \A j \in DOMAIN steps : steps'[j] = steps[j]
      /\ steps'[Position] = r
  BY <1>1, OneMore
<1> HIDE DEF r
<1>5. InStep'
  <2>1. \A j \in DOMAIN steps : steps[j].step = j /\ steps[j].kind = "tool"
    BY WalkingAnswers DEF WalkInv, InStep
  <2>2. \A j \in 1..Position : steps'[j].step = j /\ steps'[j].kind = "tool"
    BY <1>2, <1>3, <1>4, <2>1
  <2> QED
    BY <1>3, <1>4, <2>2 DEF InStep
<1>6. AnsweredIsComplete'
  <2> PICK p \in 1..Len(Plan) : p = Position
    BY <1>3
  <2>1. steps'[p].status # "failed" /\ steps'[p].missing \cap Plan[p].requires = {}
    BY <1>2, <1>4 DEF Fatal, Current
  <2>2. Harmless(p)'
    BY <1>3, <2>1 DEF Harmless
  <2>3. \A j \in DOMAIN steps : Harmless(j)'
    BY <1>3, <1>4 DEF Harmless
  <2>4. \A j \in DOMAIN steps' : j = p \/ j \in DOMAIN steps
    BY <1>3, <1>4
  <2>5. \A j \in DOMAIN steps' : Harmless(j)'
    BY <2>2, <2>3, <2>4
  <2> QED
    BY <2>5 DEF AnsweredIsComplete
<1>7. StoppedShort' /\ WholePlanShown' /\ RefusalNamesItsStep' /\ ErrorStopsTheWalk'
  BY <1>3 DEF StoppedShort, WholePlanShown, RefusalNamesItsStep, ErrorStopsTheWalk
<1> QED
  BY <1>5, <1>6, <1>7 DEF WalkInv

\* A call that stops the walk is the only one the run can blame.
LEMMA ComingToAStop ==
    ASSUME TypeOK, WalkInv, Walking,
           NEW st \in StepStatus, NEW lacking \in SUBSET Field,
           steps' = Append(steps, Traced(Position, st, lacking)) \o RestSkipped,
           UNCHANGED << understanding, phase >>,
           \/ st = "failed" /\ status' = "error"
           \/ /\ st = "ok" /\ status' = "refused_missing_data"
              /\ named' \in Fatal(Current, lacking)
    PROVE  WalkInv'
<1> DEFINE r == Traced(Position, st, lacking)
<1>1. r \in Step
  BY TracedType
<1>2. r.step = Position /\ r.kind = "tool" /\ r.status = st /\ r.missing = lacking
  BY DEF Traced
<1>3. /\ phase' = "walk" /\ Understood' /\ Plan' = Plan
      /\ DOMAIN steps = 1..(Position - 1)
      /\ Position \in 1..Len(Plan) /\ Len(Plan) \in Nat
      /\ \A j \in DOMAIN steps : Harmless(j)
  BY WalkingAnswers DEF Understood, Plan
<1>4. /\ Len(steps') = Len(Plan) /\ DOMAIN steps' = 1..Len(Plan)
      /\ \A j \in DOMAIN steps : steps'[j] = steps[j]
      /\ steps'[Position] = r
      /\ \A j \in (Position + 1)..Len(Plan) :
           /\ steps'[j].step = j /\ steps'[j].kind = "tool"
           /\ steps'[j].status = "skipped"
  BY <1>1, Stopping
<1> HIDE DEF r
<1>5. InStep'
  <2>1. \A j \in DOMAIN steps : steps[j].step = j /\ steps[j].kind = "tool"
    BY WalkingAnswers DEF WalkInv, InStep
  <2>2. \A j \in 1..Len(Plan) : steps'[j].step = j /\ steps'[j].kind = "tool"
    BY <1>2, <1>3, <1>4, <2>1, SMTT(30)
  <2> QED
    BY <1>3, <1>4, <2>2 DEF InStep
<1>6. PICK p \in 1..Len(Plan) : p = Position
  BY <1>3
<1>7. StoppedAt(p)'
  <2>1. ASSUME NEW j \in 1..(p - 1)
        PROVE  Harmless(j)'
    <3>1. j \in DOMAIN steps
      BY <1>3, <1>6
    <3>2. Harmless(j)
      BY <1>3, <3>1
    <3>3. steps'[j] = steps[j] /\ Plan'[j] = Plan[j]
      BY <1>3, <1>4, <3>1
    <3> QED
      BY <3>2, <3>3 DEF Harmless
  <2>2. \A j \in (p + 1)..Len(Plan) : steps'[j].status = "skipped"
    BY <1>4, <1>6
  <2>3. Plan' = Plan /\ Len(Plan') <= Len(steps') /\ p \in 1..Len(Plan')
    BY <1>3, <1>4
  <2> QED
    BY <2>1, <2>2, <2>3 DEF StoppedAt
<1>8. RefusalNamesItsStep'
  <2>1. CASE st = "failed"
    BY <2>1 DEF RefusalNamesItsStep
  <2>2. CASE st = "ok"
    <3>1. steps'[p].status = "ok" /\ named' \in steps'[p].missing \cap Plan[p].requires
      BY <1>2, <1>4, <1>6, <2>2 DEF Fatal, Current
    <3> QED
      BY <1>3, <1>7, <3>1 DEF RefusalNamesItsStep
  <2> QED
    BY <2>1, <2>2
<1>9. ErrorStopsTheWalk'
  <2>1. status' = "error" => steps'[p].status = "failed"
    BY <1>2, <1>4, <1>6
  <2> QED
    BY <1>3, <1>7, <2>1 DEF ErrorStopsTheWalk
<1>10. StoppedShort' /\ WholePlanShown' /\ AnsweredIsComplete'
  BY <1>3, <1>4 DEF StoppedShort, WholePlanShown, AnsweredIsComplete
<1> QED
  BY <1>5, <1>8, <1>9, <1>10 DEF WalkInv

\* Finishing a run adds the engine's step to a run that answers, and nothing
\* to a run that refused or failed.
LEMMA Finishing ==
    ASSUME TypeOK, WalkInv, Conclude
    PROVE  WalkInv'
<1>1. /\ phase' = "done" /\ Understood /\ Understood' /\ Plan' = Plan
      /\ phase = "walk" /\ status' = status /\ named' = named
  BY DEF Conclude, Understood, Plan
<1>2. /\ Len(Plan) \in Nat /\ Len(steps) = Len(Plan) /\ steps \in Seq(Step)
      /\ DOMAIN steps = 1..Len(Plan) /\ Position = Len(Plan) + 1
  BY ReadingType DEF Conclude, TypeOK, Position
<1>3. \A j \in DOMAIN steps : steps[j].step = j /\ steps[j].kind = "tool"
  BY <1>1 DEF WalkInv, InStep
<1>4. CASE Derives
  <2>1. status = "answered" /\ steps' = Append(steps, EngineStep)
    BY <1>4 DEF Derives, Conclude
  <2>2. /\ Len(steps') = Len(Plan) + 1 /\ DOMAIN steps' = 1..(Len(Plan) + 1)
        /\ \A j \in 1..Len(Plan) : steps'[j] = steps[j]
        /\ steps'[Len(Plan) + 1] = EngineStep
    BY <1>2, <2>1
  <2>3. EngineStep.step = Len(Plan) + 1 /\ EngineStep.kind = "engine"
    BY <1>2 DEF EngineStep
  <2>4. \A j \in DOMAIN steps' :
          /\ steps'[j].step = j
          /\ steps'[j].kind = IF j <= Len(Plan) THEN "tool" ELSE "engine"
    BY <1>2, <1>3, <2>2, <2>3
  <2>5. InStep' /\ StoppedShort' /\ WholePlanShown'
    BY <1>1, <2>1, <2>2, <2>4 DEF InStep, StoppedShort, WholePlanShown
  <2>6. AnsweredIsComplete'
    <3>1. \A j \in 1..Len(Plan) : Harmless(j)
      BY <1>1, <1>2, <2>1 DEF WalkInv, AnsweredIsComplete
    <3>2. \A j \in 1..Len(Plan) : Harmless(j)'
      BY <1>1, <2>2, <3>1 DEF Harmless
    <3>3. \A j \in DOMAIN steps' : j <= Len(Plan) => j \in 1..Len(Plan)
      BY <1>2, <2>2
    <3> QED
      BY <1>1, <3>2, <3>3 DEF AnsweredIsComplete
  <2>7. RefusalNamesItsStep' /\ ErrorStopsTheWalk'
    BY <1>1, <2>1 DEF RefusalNamesItsStep, ErrorStopsTheWalk
  <2> QED
    BY <2>5, <2>6, <2>7 DEF WalkInv
<1>5. CASE ~Derives
  <2>1. steps' = steps
    BY <1>5 DEF Conclude
  <2>2. \A k : Harmless(k)' <=> Harmless(k)
    BY <1>1, <2>1 DEF Harmless
  <2>3. \A k : StoppedAt(k)' <=> StoppedAt(k)
    BY <1>1, <2>1, <2>2 DEF StoppedAt
  <2>4. InStep' /\ StoppedShort' /\ WholePlanShown'
    <3>1. Len(steps') = Len(Plan) /\ DOMAIN steps' = 1..Len(Plan)
      BY <1>2, <2>1
    <3>2. \A j \in DOMAIN steps' :
            steps'[j].step = j /\ steps'[j].kind = "tool" /\ j <= Len(Plan)
      BY <1>2, <1>3, <2>1, <3>1
    <3> QED
      BY <1>1, <3>1, <3>2 DEF InStep, StoppedShort, WholePlanShown
  <2>5. AnsweredIsComplete'
    BY <1>1, <2>1, <2>2 DEF WalkInv, AnsweredIsComplete
  <2>6. RefusalNamesItsStep' /\ ErrorStopsTheWalk'
    BY <1>1, <2>1, <2>3 DEF WalkInv, RefusalNamesItsStep, ErrorStopsTheWalk
  <2> QED
    BY <2>4, <2>5, <2>6 DEF WalkInv
<1> QED
  BY <1>4, <1>5

\* Steps that touch neither the trace nor what the run says of it.
LEMMA NothingWalked ==
    ASSUME TypeOK, WalkInv, UNCHANGED << understanding, steps, named >>,
           \/ phase' # "done" /\ phase # "done" /\ status' = status
           \/ phase' = phase /\ status' = status
           \/ ~Understood /\ status' = understanding.status
    PROVE  WalkInv'
<1>1. Plan' = Plan /\ (Understood' <=> Understood)
  BY DEF Plan, Understood
<1>2. \A k : Harmless(k)' <=> Harmless(k)
  BY <1>1 DEF Harmless
<1>3. \A k : StoppedAt(k)' <=> StoppedAt(k)
  BY <1>1, <1>2 DEF StoppedAt
<1>4. CASE status' = status /\ (phase' = phase \/ (phase' # "done" /\ phase # "done"))
  <2>1. InStep'
    BY <1>1, <1>4 DEF WalkInv, InStep
  <2>2. StoppedShort' /\ WholePlanShown'
    BY <1>1, <1>4 DEF WalkInv, StoppedShort, WholePlanShown
  <2>3. AnsweredIsComplete'
    BY <1>1, <1>2, <1>4 DEF WalkInv, AnsweredIsComplete
  <2>4. RefusalNamesItsStep' /\ ErrorStopsTheWalk'
    BY <1>1, <1>3, <1>4 DEF WalkInv, RefusalNamesItsStep, ErrorStopsTheWalk
  <2> QED
    BY <2>1, <2>2, <2>3, <2>4 DEF WalkInv
<1>5. CASE ~Understood /\ status' = understanding.status
  <2>1. status' \in {"clarify", "rejected_out_of_domain"}
    BY <1>5, ReadingType DEF Understanding, UnderstandingStatus, Understood
  <2> QED
    BY <1>1, <1>5, <2>1
       DEF WalkInv, InStep, StoppedShort, WholePlanShown, AnsweredIsComplete,
           RefusalNamesItsStep, ErrorStopsTheWalk
<1>6. \/ status' = status /\ (phase' = phase \/ (phase' # "done" /\ phase # "done"))
      \/ ~Understood /\ status' = understanding.status
  OBVIOUS
<1> QED
  BY <1>4, <1>5, <1>6

\* A run tells the truth about where it ended: it refuses or fails at exactly
\* one step, everything before it came back whole, everything after it was
\* skipped, and its trace is the plan.
THEOREM WalkIsFaithful == Spec => []WalkInv
<1>1. Init => WalkInv
  <2> SUFFICES ASSUME Init PROVE WalkInv
    OBVIOUS
  <2>1. TypeOK
    BY DEF Init, TypeOK, RunStatus, Composed
  <2>2. Len(Plan) \in Nat
    BY <2>1, ReadingType
  <2>3. steps = << >> /\ Len(steps) = 0 /\ DOMAIN steps = {}
    BY DEF Init
  <2> QED
    BY <2>2, <2>3
       DEF Init, WalkInv, InStep, StoppedShort, WholePlanShown, AnsweredIsComplete,
           RefusalNamesItsStep, ErrorStopsTheWalk
<1>2. TypeOK /\ WalkInv /\ [Next]_vars => WalkInv'
  <2> SUFFICES ASSUME TypeOK, WalkInv, [Next]_vars PROVE WalkInv'
    OBVIOUS
  <2>1. CASE Settle
    BY <2>1, NothingWalked DEF Settle
  <2>2. CASE SkipUnbound
    BY <2>2, GoingOn DEF SkipUnbound, StepStatus, Fatal
  <2>3. CASE NotBuilt
    BY <2>3, GoingOn DEF NotBuilt, Invocable, StepStatus, Fatal
  <2>4. CASE Invoke
    <3>1. PICK env \in Envelopes[Current.tool] : Return(env) \/ Refuse(env)
      BY <2>4 DEF Invoke
    <3>2. Walking
      BY <2>4 DEF Invoke, Callable, Invocable
    <3>3. env \in Envelope
      BY <3>2, CurrentType, EnvelopesAssumption DEF PlannedCall
    <3>4. env.missing \in SUBSET Field
      BY <3>3 DEF Envelope
    <3>5. CASE Return(env)
      BY <3>2, <3>4, <3>5, GoingOn DEF Return, StepStatus
    <3>6. CASE Refuse(env)
      BY <3>2, <3>4, <3>6, ComingToAStop DEF Refuse, StepStatus
    <3> QED
      BY <3>1, <3>5, <3>6
  <2>5. CASE Fail
    <3>1. /\ Walking
          /\ steps' = Append(steps, Traced(Position, "failed", {})) \o RestSkipped
          /\ status' = "error" /\ UNCHANGED << understanding, phase >>
      BY <2>5 DEF Fail, Invocable
    <3>2. "failed" \in StepStatus /\ {} \in SUBSET Field
      BY DEF StepStatus
    <3> QED
      BY <3>1, <3>2, ComingToAStop
  <2>6. CASE Raise
    BY <2>6, NothingWalked, WalkingAnswers DEF Raise, Callable, Invocable
  <2>7. CASE Conclude
    BY <2>7, Finishing
  <2>8. CASE UNCHANGED vars
    BY <2>8, NothingWalked DEF vars
  <2> QED
    BY <2>1, <2>2, <2>3, <2>4, <2>5, <2>6, <2>7, <2>8 DEF Next
<1> QED
  BY <1>1, <1>2, TypeCorrect, PTL DEF Spec

\* Every finished run shows its whole plan in order.
THEOREM PlanIsShown == Spec => []WholePlanShown
  BY WalkIsFaithful, PTL DEF WalkInv

\* A refusal names a required field that the step it stopped at found missing.
THEOREM RefusalsAreNamed == Spec => []RefusalNamesItsStep
  BY WalkIsFaithful, PTL DEF WalkInv

\* A run that failed has one failed call and called nothing after it.
THEOREM ErrorsStop == Spec => []ErrorStopsTheWalk
  BY WalkIsFaithful, PTL DEF WalkInv

\* A run that answers had no failed call and no required field missing.
THEOREM AnswersAreComplete == Spec => []AnsweredIsComplete
  BY WalkIsFaithful, PTL DEF WalkInv

\* However a walk ends, something it did justifies that end.
THEOREM EndsAreJustified == Spec => []EndIsJustified
  BY RefusalsAreNamed, ErrorsStop, AnswersAreComplete, PTL DEF EndIsJustified

-----------------------------------------------------------------------------
(* Where an argument and a finding come from.                               *)

\* What a later binding may follow was provided by a call that succeeded.
ResultsAreCalls ==
    \A k, path : << k, path >> \in results =>
        k \in DOMAIN steps /\ k \in 1..Len(Plan) /\ steps[k].status = "ok"

\* What the engine may read was returned by a call that succeeded.
TypedAreCalls ==
    \A tool \in typed : \E k \in 1..Len(Plan) :
        k \in DOMAIN steps /\ steps[k].status = "ok" /\ Plan[k].tool = tool

CallInv ==
    /\ ResultsAreCalls
    /\ TypedAreCalls
    /\ CalledWithWhatCameBack
    /\ FindingRestsOnACall

\* Only the end of the walk adds an engine step.
LEMMA NoEngineYet ==
    ASSUME TypeOK, WalkInv, phase # "done"
    PROVE  \A j \in DOMAIN steps : steps[j].kind = "tool"
<1>1. CASE Understood
  BY <1>1 DEF WalkInv, InStep
<1>2. CASE ~Understood
  <2>1. steps = << >>
    BY <1>2 DEF WalkInv, InStep
  <2>2. DOMAIN steps = {}
    BY <2>1
  <2> QED
    BY <2>2
<1> QED
  BY <1>1, <1>2

\* The step recorded for the call at hand is an honest one, whether or not the
\* walk goes on after it.
LEMMA Recorded ==
    ASSUME TypeOK, WalkInv, CallInv, Walking, TypeOK', WalkInv',
           NEW st \in StepStatus, NEW lacking, NEW P,
           UNCHANGED << understanding, phase >>,
           AllResolved \/ st = "skipped",
           Position \in DOMAIN steps',
           \A j \in DOMAIN steps : j \in DOMAIN steps' /\ steps'[j] = steps[j],
           steps'[Position] = Traced(Position, st, lacking),
           \A j \in DOMAIN steps' : j > Position => steps'[j].status = "skipped",
           \/ UNCHANGED << results, typed >>
           \/ /\ st = "ok"
              /\ results' = results \cup ({Position} \X P)
              /\ typed' \subseteq typed \cup {Current.tool}
    PROVE  CallInv'
<1>1. /\ phase' # "done" /\ Plan' = Plan
      /\ DOMAIN steps = 1..(Position - 1)
      /\ Position \in 1..Len(Plan) /\ Len(Plan) \in Nat
      /\ Current = Plan[Position] /\ Current \in PlannedCall
  BY WalkingAnswers, CurrentType DEF Plan
<1>2. PICK p \in 1..Len(Plan) : p = Position
  BY <1>1
<1>3. p \in DOMAIN steps' /\ steps'[p].status = st /\ steps'[p].bound = Resolved(Current.bindings)
  BY <1>2 DEF Traced
<1>4. ResultsAreCalls'
  <2> SUFFICES ASSUME NEW k, NEW path, << k, path >> \in results'
               PROVE  k \in DOMAIN steps' /\ k \in 1..Len(Plan) /\ steps'[k].status = "ok"
    BY <1>1 DEF ResultsAreCalls
  <2>1. CASE << k, path >> \in results
    BY <2>1 DEF CallInv, ResultsAreCalls
  <2>2. CASE << k, path >> \notin results
    <3>1. st = "ok" /\ << k, path >> \in {Position} \X P
      BY <2>2
    <3>2. k = p
      BY <1>2, <3>1
    <3> QED
      BY <1>3, <3>1, <3>2
  <2> QED
    BY <2>1, <2>2
<1>5. TypedAreCalls'
  <2> SUFFICES ASSUME NEW tool \in typed'
               PROVE  \E k \in 1..Len(Plan) :
                        k \in DOMAIN steps' /\ steps'[k].status = "ok" /\ Plan[k].tool = tool
    BY <1>1 DEF TypedAreCalls
  <2>1. CASE tool \in typed
    BY <2>1 DEF CallInv, TypedAreCalls
  <2>2. CASE tool \notin typed
    <3>1. st = "ok" /\ tool = Current.tool
      BY <2>2
    <3> QED
      BY <1>1, <1>2, <1>3, <3>1
  <2> QED
    BY <2>1, <2>2
<1>6. CalledWithWhatCameBack'
  <2>1. ASSUME NEW b \in Resolved(Current.bindings)
        PROVE  /\ Current.bindings[b].from \in 1..(p - 1)
               /\ << Current.bindings[b].from, Current.bindings[b].path >> \in results
               /\ steps[Current.bindings[b].from].status = "ok"
    <3>1. b \in 1..b /\ b \in DOMAIN Current.bindings
      <4>1. Current.bindings \in Seq(Binding) /\ b \in DOMAIN Current.bindings
        BY <1>1 DEF Resolved, PlannedCall
      <4>2. b \in Nat /\ b >= 1
        BY <4>1
      <4> QED
        BY <4>1, <4>2
    <3>2. << Current.bindings[b].from, Current.bindings[b].path >> \in results
      BY <3>1 DEF Resolved
    <3> QED
      BY <1>1, <1>2, <3>2 DEF CallInv, ResultsAreCalls
  <2> SUFFICES ASSUME NEW j \in DOMAIN steps', j <= Len(Plan),
                      steps'[j].status \in {"ok", "failed", "not_implemented"}
               PROVE  /\ steps'[j].bound = DOMAIN Plan[j].bindings
                      /\ \A b \in steps'[j].bound :
                           /\ Plan[j].bindings[b].from \in 1..(j - 1)
                           /\ << Plan[j].bindings[b].from, Plan[j].bindings[b].path >> \in results'
                           /\ steps'[Plan[j].bindings[b].from].status = "ok"
    BY <1>1 DEF CalledWithWhatCameBack
  <2>2. results \subseteq results'
    OBVIOUS
  <2>3. CASE j \in DOMAIN steps
    <3>1. steps'[j] = steps[j] /\ j \in 1..(Position - 1)
      BY <1>1, <2>3
    <3>2. /\ steps[j].bound = DOMAIN Plan[j].bindings
          /\ \A b \in steps[j].bound :
               /\ Plan[j].bindings[b].from \in 1..(j - 1)
               /\ << Plan[j].bindings[b].from, Plan[j].bindings[b].path >> \in results
               /\ steps[Plan[j].bindings[b].from].status = "ok"
      BY <2>3, <3>1 DEF CallInv, CalledWithWhatCameBack
    <3>3. \A i \in 1..(j - 1) : steps'[i] = steps[i]
      BY <1>1, <3>1
    <3> QED
      BY <2>2, <3>1, <3>2, <3>3
  <2>4. CASE j = p
    <3>1. steps'[j].bound = DOMAIN Current.bindings /\ Plan[j] = Current
      BY <1>1, <1>2, <1>3, <2>4 DEF AllResolved
    <3>2. \A i \in 1..(p - 1) : steps'[i] = steps[i]
      BY <1>1, <1>2
    <3>3. steps'[j].bound = Resolved(Current.bindings)
      BY <1>3, <2>4
    <3> QED
      BY <2>1, <2>2, <2>4, <3>1, <3>2, <3>3
  <2>5. j \in Nat
    BY DEF TypeOK
  <2>6. j \in DOMAIN steps \/ j = p \/ j > Position
    BY <1>1, <1>2, <2>5
  <2>7. CASE j > Position
    BY <2>7
  <2> QED
    BY <2>3, <2>4, <2>6, <2>7
<1>7. FindingRestsOnACall'
  <2>1. \A j \in DOMAIN steps' : steps'[j].kind = "tool"
    <3>1. Understood'
      BY WalkingAnswers DEF Understood
    <3> QED
      BY <1>1, <3>1 DEF WalkInv, InStep
  <2> QED
    BY <2>1 DEF FindingRestsOnACall
<1> QED
  BY <1>4, <1>5, <1>6, <1>7 DEF CallInv

\* Steps that add nothing to the trace and nothing to what was returned.
LEMMA NothingRecorded ==
    ASSUME CallInv, UNCHANGED << understanding, steps, results, typed >>,
           status' = status \/ \A j \in DOMAIN steps : steps[j].kind = "tool"
    PROVE  CallInv'
<1>1. Plan' = Plan /\ EngineReads' = EngineReads
  BY DEF Plan, EngineReads
<1>2. ResultsAreCalls' /\ TypedAreCalls'
  BY <1>1 DEF CallInv, ResultsAreCalls, TypedAreCalls
<1>3. CalledWithWhatCameBack'
  BY <1>1 DEF CallInv, CalledWithWhatCameBack
<1>4. FindingRestsOnACall'
  <2>1. CASE \A j \in DOMAIN steps : steps[j].kind = "tool"
    BY <2>1 DEF FindingRestsOnACall
  <2>2. CASE status' = status
    BY <1>1, <2>2 DEF CallInv, FindingRestsOnACall
  <2> QED
    BY <2>1, <2>2
<1> QED
  BY <1>2, <1>3, <1>4 DEF CallInv

\* The engine's step rests on what a call of the run returned.
LEMMA Deriving ==
    ASSUME TypeOK, WalkInv, CallInv, Conclude
    PROVE  CallInv'
<1>1. CASE ~Derives
  <2>1. UNCHANGED << understanding, steps, results, typed >> /\ status' = status
    BY <1>1 DEF Conclude
  <2> QED
    BY <2>1, NothingRecorded
<1>2. CASE Derives
  <2>1. /\ Len(Plan) \in Nat /\ Len(steps) = Len(Plan) /\ steps \in Seq(Step)
        /\ DOMAIN steps = 1..Len(Plan) /\ Plan' = Plan /\ EngineReads' = EngineReads
        /\ status' = status /\ results' = results /\ typed' = typed
        /\ steps' = Append(steps, EngineStep) /\ status = "answered"
    BY <1>2, ReadingType DEF Conclude, TypeOK, Plan, EngineReads, Derives
  <2>2. /\ DOMAIN steps' = 1..(Len(Plan) + 1)
        /\ \A j \in 1..Len(Plan) : steps'[j] = steps[j]
    BY <2>1
  <2>3. ResultsAreCalls'
    BY <2>1, <2>2 DEF CallInv, ResultsAreCalls
  <2>4. TypedAreCalls'
    BY <2>1, <2>2 DEF CallInv, TypedAreCalls
  <2>5. CalledWithWhatCameBack'
    <3> SUFFICES ASSUME NEW j \in DOMAIN steps', j <= Len(Plan),
                        steps'[j].status \in {"ok", "failed", "not_implemented"}
                 PROVE  /\ steps'[j].bound = DOMAIN Plan[j].bindings
                        /\ \A b \in steps'[j].bound :
                             /\ Plan[j].bindings[b].from \in 1..(j - 1)
                             /\ << Plan[j].bindings[b].from, Plan[j].bindings[b].path >> \in results
                             /\ steps'[Plan[j].bindings[b].from].status = "ok"
      BY <2>1 DEF CalledWithWhatCameBack
    <3>1. j \in DOMAIN steps /\ steps'[j] = steps[j]
      BY <2>1, <2>2
    <3>2. /\ steps[j].bound = DOMAIN Plan[j].bindings
          /\ \A b \in steps[j].bound :
               /\ Plan[j].bindings[b].from \in 1..(j - 1)
               /\ << Plan[j].bindings[b].from, Plan[j].bindings[b].path >> \in results
               /\ steps[Plan[j].bindings[b].from].status = "ok"
      BY <3>1 DEF CallInv, CalledWithWhatCameBack
    <3>3. \A i \in 1..(j - 1) : steps'[i] = steps[i]
      BY <2>1, <2>2, <3>1
    <3> QED
      BY <3>1, <3>2, <3>3
  <2>6. FindingRestsOnACall'
    <3>1. PICK tool \in typed : tool \in EngineReads
      BY <1>2 DEF Derives
    <3>2. PICK k \in 1..Len(Plan) :
            k \in DOMAIN steps /\ steps[k].status = "ok" /\ Plan[k].tool = tool
      BY <3>1 DEF CallInv, TypedAreCalls
    <3>3. steps'[k].status = "ok" /\ Plan'[k].tool \in EngineReads'
      BY <2>1, <2>2, <3>1, <3>2
    <3> QED
      BY <2>1, <3>3 DEF FindingRestsOnACall
  <2> QED
    BY <2>3, <2>4, <2>5, <2>6 DEF CallInv
<1> QED
  BY <1>1, <1>2

\* Whatever a tool is called with, and whatever the engine concludes, came back
\* from a call of the same run that succeeded.
THEOREM CallsAreFounded == Spec => []CallInv
<1>1. Init => CallInv
  <2> SUFFICES ASSUME Init PROVE CallInv
    OBVIOUS
  <2>1. results = {} /\ typed = {} /\ DOMAIN steps = {}
    BY DEF Init
  <2> QED
    BY <2>1 DEF CallInv, ResultsAreCalls, TypedAreCalls, CalledWithWhatCameBack,
                FindingRestsOnACall
<1>2. TypeOK /\ WalkInv /\ CallInv /\ [Next]_vars /\ TypeOK' /\ WalkInv' => CallInv'
  <2> SUFFICES ASSUME TypeOK, WalkInv, CallInv, [Next]_vars, TypeOK', WalkInv'
               PROVE  CallInv'
    OBVIOUS
  <2>1. CASE Settle
    <3>1. \A j \in DOMAIN steps : steps[j].kind = "tool"
      BY <2>1, NoEngineYet DEF Settle
    <3> QED
      BY <2>1, <3>1, NothingRecorded DEF Settle
  <2>2. CASE SkipUnbound
    <3>1. Traced(Position, "skipped", {}) \in Step
      BY <2>2, TracedType DEF SkipUnbound, StepStatus
    <3>2. /\ DOMAIN steps' = 1..Position
          /\ \A j \in DOMAIN steps : steps'[j] = steps[j]
          /\ steps'[Position] = Traced(Position, "skipped", {})
      BY <2>2, <3>1, OneMore DEF SkipUnbound
    <3>3. /\ Walking /\ DOMAIN steps = 1..(Position - 1)
          /\ Position \in 1..Len(Plan) /\ Len(Plan) \in Nat
      BY <2>2, WalkingAnswers DEF SkipUnbound
    <3>4. /\ Position \in DOMAIN steps'
          /\ \A j \in DOMAIN steps : j \in DOMAIN steps' /\ steps'[j] = steps[j]
          /\ \A j \in DOMAIN steps' : ~(j > Position)
      BY <3>2, <3>3
    <3> QED
      BY <2>2, <3>2, <3>3, <3>4, Recorded DEF SkipUnbound, StepStatus
  <2>3. CASE NotBuilt
    <3>1. Traced(Position, "not_implemented", {}) \in Step
      BY <2>3, TracedType DEF NotBuilt, Invocable, StepStatus
    <3>2. /\ DOMAIN steps' = 1..Position
          /\ \A j \in DOMAIN steps : steps'[j] = steps[j]
          /\ steps'[Position] = Traced(Position, "not_implemented", {})
      BY <2>3, <3>1, OneMore DEF NotBuilt, Invocable
    <3>3. /\ Walking /\ DOMAIN steps = 1..(Position - 1)
          /\ Position \in 1..Len(Plan) /\ Len(Plan) \in Nat
      BY <2>3, WalkingAnswers DEF NotBuilt, Invocable
    <3>4. /\ Position \in DOMAIN steps'
          /\ \A j \in DOMAIN steps : j \in DOMAIN steps' /\ steps'[j] = steps[j]
          /\ \A j \in DOMAIN steps' : ~(j > Position)
      BY <3>2, <3>3
    <3> QED
      BY <2>3, <3>2, <3>3, <3>4, Recorded DEF NotBuilt, Invocable, StepStatus
  <2>4. CASE Invoke
    <3>1. PICK env \in Envelopes[Current.tool] : Return(env) \/ Refuse(env)
      BY <2>4 DEF Invoke
    <3>2. /\ Walking /\ AllResolved /\ DOMAIN steps = 1..(Position - 1)
          /\ Position \in 1..Len(Plan) /\ Len(Plan) \in Nat
      BY <2>4, WalkingAnswers DEF Invoke, Callable, Invocable
    <3>3. env \in Envelope
      BY <3>2, CurrentType, EnvelopesAssumption DEF PlannedCall
    <3>4. Traced(Position, "ok", env.missing) \in Step
      BY <3>2, <3>3, TracedType DEF Envelope, StepStatus
    <3>5. /\ results' = results \cup ({Position} \X env.provides)
          /\ typed' \subseteq typed \cup {Current.tool}
          /\ UNCHANGED << understanding, phase >>
      BY <3>1 DEF Return, Refuse, Keep
    <3>6. CASE Return(env)
      <4>1. /\ DOMAIN steps' = 1..Position
            /\ \A j \in DOMAIN steps : steps'[j] = steps[j]
            /\ steps'[Position] = Traced(Position, "ok", env.missing)
        BY <3>2, <3>4, <3>6, OneMore DEF Return
      <4>2. /\ Position \in DOMAIN steps'
            /\ \A j \in DOMAIN steps : j \in DOMAIN steps' /\ steps'[j] = steps[j]
            /\ \A j \in DOMAIN steps' : ~(j > Position)
        BY <3>2, <4>1
      <4> QED
        BY <3>2, <3>5, <4>1, <4>2, Recorded DEF StepStatus
    <3>7. CASE Refuse(env)
      <4>1. /\ DOMAIN steps' = 1..Len(Plan)
            /\ \A j \in DOMAIN steps : steps'[j] = steps[j]
            /\ steps'[Position] = Traced(Position, "ok", env.missing)
            /\ \A j \in (Position + 1)..Len(Plan) : steps'[j].status = "skipped"
        BY <3>2, <3>4, <3>7, Stopping DEF Refuse
      <4>2. /\ Position \in DOMAIN steps'
            /\ \A j \in DOMAIN steps : j \in DOMAIN steps' /\ steps'[j] = steps[j]
            /\ \A j \in DOMAIN steps' : j > Position => steps'[j].status = "skipped"
        BY <3>2, <4>1
      <4> QED
        BY <3>2, <3>5, <4>1, <4>2, Recorded DEF StepStatus
    <3> QED
      BY <3>1, <3>6, <3>7
  <2>5. CASE Fail
    <3>1. Traced(Position, "failed", {}) \in Step
      BY <2>5, TracedType DEF Fail, Invocable, StepStatus
    <3>2. /\ Walking /\ AllResolved /\ DOMAIN steps = 1..(Position - 1)
          /\ Position \in 1..Len(Plan) /\ Len(Plan) \in Nat
      BY <2>5, WalkingAnswers DEF Fail, Invocable
    <3>3. /\ DOMAIN steps' = 1..Len(Plan)
          /\ \A j \in DOMAIN steps : steps'[j] = steps[j]
          /\ steps'[Position] = Traced(Position, "failed", {})
          /\ \A j \in (Position + 1)..Len(Plan) : steps'[j].status = "skipped"
      BY <2>5, <3>1, <3>2, Stopping DEF Fail
    <3>4. /\ Position \in DOMAIN steps'
          /\ \A j \in DOMAIN steps : j \in DOMAIN steps' /\ steps'[j] = steps[j]
          /\ \A j \in DOMAIN steps' : j > Position => steps'[j].status = "skipped"
      BY <3>2, <3>3
    <3> QED
      BY <2>5, <3>2, <3>3, <3>4, Recorded DEF Fail, StepStatus
  <2>6. CASE Raise
    BY <2>6, NothingRecorded DEF Raise
  <2>7. CASE Conclude
    BY <2>7, Deriving
  <2>8. CASE UNCHANGED vars
    BY <2>8, NothingRecorded DEF vars
  <2> QED
    BY <2>1, <2>2, <2>3, <2>4, <2>5, <2>6, <2>7, <2>8 DEF Next
<1> QED
  BY <1>1, <1>2, TypeCorrect, WalkIsFaithful, PTL DEF Spec

\* A tool is only ever called with arguments that came back to this run.
THEOREM ArgumentsCameBack == Spec => []CalledWithWhatCameBack
  BY CallsAreFounded, PTL DEF CallInv

\* A refused or failed run computes nothing; a finding rests on a call.
THEOREM FindingsAreFounded == Spec => []FindingRestsOnACall
  BY CallsAreFounded, PTL DEF CallInv

=============================================================================
