--------------------------- MODULE PipelineProofs ---------------------------
(***************************************************************************)
(* What holds of every request, for any tools, any readings, any model and *)
(* any log, wherever its reader leaves: the stream is the run, the trail   *)
(* is the run, and the order of the events is the one that is promised.    *)
(*                                                                         *)
(* The executor and the writer are proved by themselves.  A request takes  *)
(* steps of the one and then of the other, so what is proved of them is    *)
(* used here as it stands.                                                 *)
(***************************************************************************)
EXTENDS Pipeline, ExecutorProofs, FiniteSetTheorems

\* The writer of a request, with what is proved of it.
Text == INSTANCE AnsweringProofs WITH base <- Len(steps)

-----------------------------------------------------------------------------
(* The run and its writer. *)

\* Where the run is final: nothing is added to it any more.
Final == at \in {"record", "error", "finish", "closed"}

\* The writer begins when the executor is done, adds at most a step for each attempt
\* and one for the check, numbered after the steps of the walk, and none of them is
\* on the run before it has settled.
WriterInv ==
    /\ Text!AnsweringTypeOK /\ Text!WritingInv
    /\ phase # "done" => Text!Unanswered
    /\ turn = "write" => appended = 0
    /\ appended \in 0..Len(added)
    /\ Len(added) <= Text!MaxAttempts + 1
    /\ \A k \in DOMAIN added : added[k].step > Len(steps)

\* A question that understanding settles by itself leaves no trace at all.
SettledInv ==
    ~Understood =>
        /\ steps = << >> /\ added = << >>
        /\ phase = "done" => status \notin {"answered", "refused_missing_data", "error"}

\* The request ends with a run that is complete, written and sent.
OrderInv ==
    /\ channel \in {"ask", "stream"} /\ at \in Stage \cup Ended
    /\ Final => phase = "done" /\ turn = "done" /\ appended = Len(added) /\ CaughtUp
    /\ at = "error" => Understood

-----------------------------------------------------------------------------
(* The events and the trail. *)

LastKind == IF sent = << >> THEN "none" ELSE sent[Len(sent)].kind

\* What was last sent, by where the request is.
Last(place) ==
    CASE place = "accept"     -> {"none"}
      [] place = "understand" -> {"accepted"}
      [] place = "run"        -> IF Understood THEN {"understanding", "tool_result"}
                                               ELSE {"understanding"}
      [] place = "record"     -> IF Understood THEN {"answer"} ELSE {"understanding"}
      [] place = "error"      -> {"answer"}
      [] place = "finish"     -> IF Understood THEN {"answer", "error"} ELSE {"understanding"}
      [] place = "closed"     -> {"run"}

\* Each step that was sent carries the number of those sent before it, and one.
Numbered ==
    \A j \in KindsSent("tool_result") :
        sent[j].step = 1 + Cardinality({ k \in KindsSent("tool_result") : k < j })

SentInv ==
    /\ sent \in Seq(Event) /\ Numbered
    /\ at \in Stage \cup {"closed"} => LastKind \in Last(at)
    /\ Forwarded <= RunSteps
    /\ at \in {"accept", "understand"} =>
         KindsSent("understanding") = {} /\ KindsSent("tool_result") = {}
    /\ at \in Stage \ {"accept", "understand"} => KindsSent("understanding") # {}
    /\ at \in {"accept", "understand", "run"} => KindsSent("answer") = {}
    /\ Final => \A j \in KindsSent("answer") : sent[j].says = Run
    /\ at = "closed" => KindsSent("run") = {Len(sent)} /\ sent[Len(sent)].says = Run
    /\ at # "closed" => KindsSent("run") = {}

\* Nothing is in the trail before the run is final; what is in it is that run; and
\* when it is not, an analysed run says so.
AuditInv ==
    /\ audit \subseteq {Run}
    /\ at \in {"accept", "understand", "run", "record"} => audit = {} /\ ~noted
    /\ audit # {} => appended = Len(added)
    /\ (at \in {"error", "finish", "closed"} /\ Understood) => (noted <=> audit = {})

PipeInv == WriterInv /\ SettledInv /\ OrderInv /\ SentInv /\ AuditInv

-----------------------------------------------------------------------------
(* The executor inside a request. *)

\* Every step of a request is a step of the executor, or leaves its run as it is.
LEMMA RequestStep ==
    ASSUME [PipelineNext]_pvars
    PROVE  [Next]_vars
<1>1. CASE Execute
  BY <1>1 DEF Execute, Next
<1>2. CASE ToolEscape
  BY <1>2 DEF ToolEscape, Next
<1>3. CASE UNCHANGED vars
  BY <1>3
<1> QED
  BY <1>1, <1>2, <1>3
     DEF PipelineNext, Progress, Accept, Understand, ForwardStep, WriteAnswer, AppendStep,
         AnswerEvent, NoAnswerEvent, Record, RecordRun, ErrorEvent, RunEvent, Escape, Leave,
         pvars

\* A request carries out the executor's walk, and nothing that happens to it -
\* a reader who leaves, an exception, a model - makes it another one.
THEOREM RequestsWalk == PipelineSpec => Spec
<1>1. PipelineInit => Init
  BY DEF PipelineInit
<1> QED
  BY <1>1, RequestStep, PTL DEF PipelineSpec, Spec

\* What is proved of every walk holds of the walk of every request.
WalkFacts == TypeOK /\ WalkInv /\ CallInv

\* A request has the invariants of the walk it carries out.
LEMMA RequestsWalkWell == PipelineSpec => []WalkFacts
  BY RequestsWalk, TypeCorrect, WalkIsFaithful, CallsAreFounded, PTL DEF WalkFacts

\* The trace of the walk only grows, and not any more once the walk is done.
LEMMA WalkGrows ==
    ASSUME WalkFacts, [Next]_vars
    PROVE  /\ understanding' = understanding
           /\ Len(steps) \in Nat /\ Len(steps') \in Nat /\ Len(steps) <= Len(steps')
           /\ phase = "done" => steps' = steps /\ status' = status /\ phase' = "done"
<1>1. steps \in Seq(Step) /\ Len(steps) \in Nat /\ TypeOK /\ WalkInv
  BY DEF WalkFacts, TypeOK
<1>2. ASSUME NEW r \in Step, Walking,
             steps' = Append(steps, r) \/ steps' = Append(steps, r) \o RestSkipped
      PROVE  Len(steps') \in Nat /\ Len(steps) <= Len(steps')
  <2>1. CASE steps' = Append(steps, r)
    BY <1>1, <2>1
  <2>2. CASE steps' = Append(steps, r) \o RestSkipped
    BY <1>1, <1>2, <2>2, Stopping, ReadingType DEF Walking
  <2> QED
    BY <1>2, <2>1, <2>2
<1>3. CASE SkipUnbound
  <2>1. Traced(Position, "skipped", {}) \in Step
    BY <1>1, <1>3, TracedType DEF SkipUnbound, StepStatus
  <2> QED
    BY <1>1, <1>2, <1>3, <2>1 DEF SkipUnbound, Walking
<1>4. CASE NotBuilt
  <2>1. Traced(Position, "not_implemented", {}) \in Step
    BY <1>1, <1>4, TracedType DEF NotBuilt, Invocable, StepStatus
  <2> QED
    BY <1>1, <1>2, <1>4, <2>1 DEF NotBuilt, Invocable, Walking
<1>5. CASE Invoke
  <2>1. PICK env \in Envelopes[Current.tool] : Return(env) \/ Refuse(env)
    BY <1>5 DEF Invoke
  <2>2. Walking /\ phase = "walk"
    BY <1>5 DEF Invoke, Callable, Invocable, Walking
  <2>3. env.missing \in SUBSET Field
    <3>1. Current.tool \in Tool
      BY <1>1, <2>2, CurrentType DEF PlannedCall
    <3> QED
      BY <3>1, EnvelopesAssumption DEF Envelope
  <2>4. Traced(Position, "ok", env.missing) \in Step
    BY <1>1, <2>2, <2>3, TracedType DEF StepStatus
  <2>5. understanding' = understanding
    BY <2>1 DEF Return, Refuse
  <2>6. \/ steps' = Append(steps, Traced(Position, "ok", env.missing))
        \/ steps' = Append(steps, Traced(Position, "ok", env.missing)) \o RestSkipped
    BY <2>1 DEF Return, Refuse
  <2> QED
    BY <1>1, <1>2, <2>2, <2>4, <2>5, <2>6
<1>6. CASE Fail
  <2>1. Traced(Position, "failed", {}) \in Step
    BY <1>1, <1>6, TracedType DEF Fail, Invocable, StepStatus
  <2> QED
    BY <1>1, <1>2, <1>6, <2>1 DEF Fail, Invocable, Walking
<1>7. CASE Conclude
  BY <1>1, <1>7 DEF Conclude
<1>8. CASE Settle \/ Raise \/ UNCHANGED vars
  BY <1>1, <1>8 DEF Settle, Raise, Callable, Invocable, Walking, vars
<1> QED
  BY <1>3, <1>4, <1>5, <1>6, <1>7, <1>8 DEF Next

-----------------------------------------------------------------------------
(* The writer inside a request. *)

\* What the writer of a request is given satisfies what its proofs assume.
LEMMA TextAssumes == Text!TextsAssumption
  BY TextsAssumption DEF Text!TextsAssumption, Text!Texts, Texts

\* A step of the writer, as the request takes it, is one of the writer's own.
LEMMA WritesText ==
    ASSUME Writer!AnsweringNext
    PROVE  Text!AnsweringNext
  BY Zenon
     DEF Writer!AnsweringNext, Text!AnsweringNext, Writer!FixedWording, Text!FixedWording,
         Writer!NoModel, Text!NoModel, Writer!ModelFails, Text!ModelFails,
         Writer!Write, Text!Write, Writer!FallBack, Text!FallBack,
         Writer!Accept, Text!Accept, Writer!Reject, Text!Reject,
         Writer!KeepDataOnly, Text!KeepDataOnly, Writer!Asking, Text!Asking,
         Writer!ShouldExplain, Text!ShouldExplain, Writer!Attempt, Text!Attempt,
         Writer!MaxAttempts, Text!MaxAttempts, Writer!Correction, Text!Correction,
         Writer!Checked, Text!Checked, Writer!Plain, Text!Plain, Writer!given, Text!given,
         Writer!Shown, Text!Shown, Writer!WroteStep, Text!WroteStep,
         Writer!Explained, Text!Explained, Writer!Unwritten, Text!Unwritten

\* The writer of a request keeps its type and what it writes together.
LEMMA TextStep ==
    ASSUME Text!AnsweringTypeOK, Text!WritingInv, Text!AnsweringNext
    PROVE  Text!AnsweringTypeOK' /\ Text!WritingInv'
<1>1. Text!AnsweringTypeOK'
  BY TextAssumes, Text!AnsweringTypeStep, Zenon
<1>2. Text!WritingInv'
  BY TextAssumes, Text!WritingStep, Zenon
<1> QED
  BY <1>1, <1>2

\* Nothing that leaves the writer alone, and the run it writes about, disturbs it.
LEMMA TextStays ==
    ASSUME Text!AnsweringTypeOK, Text!WritingInv, UNCHANGED << status, understanding, steps, written >>
    PROVE  Text!AnsweringTypeOK' /\ Text!WritingInv'
<1>1. UNCHANGED << status, attention, Len(steps), model, sound >>
      /\ UNCHANGED << turn, prompts, drafts, answer, generated, verdict, added >>
  BY DEF written, attention
<1>2. UNCHANGED Text!avars
  BY <1>1 DEF Text!avars, Text!given, Text!writing
<1>3. Text!AnsweringTypeOK'
  BY <1>2, TextAssumes, Text!AnsweringTypeStep, Zenon
<1>4. Text!WritingInv'
  BY <1>2, TextAssumes, Text!WritingStep, Zenon
<1> QED
  BY <1>3, <1>4

\* A writer that has not begun is well typed, whatever the walk has left so far.
LEMMA TextUnbegun ==
    ASSUME TypeOK, Text!Unanswered, model \in BOOLEAN, sound \subseteq Texts
    PROVE  Text!AnsweringTypeOK /\ Text!WritingInv
<1>1. Text!WritingInv
  BY TextAssumes, Text!WritingInit, Zenon
<1>2. status \in {"answered", "refused_missing_data", "clarify",
                  "rejected_out_of_domain", "error"} /\ Len(steps) \in Nat
  BY DEF TypeOK, RunStatus
<1>3. attention \in BOOLEAN
  BY DEF attention
<1>4. /\ turn = "write" /\ prompts = << >> /\ drafts = << >> /\ added = << >>
      /\ answer = [text |-> DataOnly, wording |-> FALSE] /\ generated = FALSE
      /\ verdict = [grounded |-> TRUE, retries |-> 0]
  BY DEF Text!Unanswered, Text!Plain
<1>5. answer \in [text : Text!Texts, wording : BOOLEAN] /\ verdict \in Text!Verdict
  BY <1>4 DEF Texts, Text!Texts, Text!Verdict, Text!MaxAttempts
<1>6. /\ prompts \in Seq(Drafts \cup {Text!Unwritten}) /\ drafts \in Seq(Drafts)
      /\ added \in Seq(Text!TraceStep)
  BY <1>4
<1>7. sound \subseteq Text!Texts /\ turn \in {"write", "done"} /\ generated \in BOOLEAN
  BY <1>4 DEF Texts, Text!Texts
<1>8. Text!AnsweringTypeOK
  BY <1>2, <1>3, <1>5, <1>6, <1>7, Zenon DEF Text!AnsweringTypeOK
<1> QED
  BY <1>1, <1>8

\* The same after a step of the walk.
LEMMA TextStillUnbegun ==
    ((TypeOK /\ Text!Unanswered /\ model \in BOOLEAN /\ sound \subseteq Texts)
       => (Text!AnsweringTypeOK /\ Text!WritingInv))'
<1>1. (TypeOK /\ Text!Unanswered /\ model \in BOOLEAN /\ sound \subseteq Texts)
        => (Text!AnsweringTypeOK /\ Text!WritingInv)
  <2> SUFFICES ASSUME TypeOK, Text!Unanswered, model \in BOOLEAN,
                      sound \subseteq Texts
               PROVE  Text!AnsweringTypeOK /\ Text!WritingInv
    OBVIOUS
  <2> QED
    BY TextUnbegun
<1> QED
  BY <1>1, PTL

\* What the writer adds in one step: a step or two, numbered after the walk, and
\* never more than its attempts allow.
LEMMA TextAdds ==
    ASSUME Text!AnsweringTypeOK, Text!WritingInv, Text!AnsweringNext,
           \A k \in DOMAIN added : added[k].step > Len(steps)
    PROVE  /\ turn = "write" /\ Len(steps') = Len(steps)
           /\ Len(added') \in Nat /\ Len(added') <= Text!MaxAttempts + 1
           /\ \A k \in DOMAIN added' : added'[k].step > Len(steps)
<1>1. /\ added \in Seq(Text!TraceStep) /\ Len(added) \in Nat /\ Len(steps) \in Nat
      /\ Len(prompts) \in Nat
  <2>1. /\ added \in Seq(Text!TraceStep) /\ Len(steps) \in Nat
        /\ prompts \in Seq(Drafts \cup {Text!Unwritten})
    BY Zenon DEF Text!AnsweringTypeOK
  <2> QED
    BY <2>1
<1>2. turn = "write"
  BY Zenon DEF Text!AnsweringNext, Text!FixedWording, Text!NoModel, Text!ModelFails, Text!Write,
               Text!Accept, Text!Reject, Text!FallBack, Text!Asking
<1>3. Len(added) = Len(prompts) /\ Len(prompts) <= Text!MaxAttempts
  BY <1>2, Zenon DEF Text!WritingInv, Text!Drafting, Text!RewriteIsCorrected
<1>4. Len(steps') = Len(steps)
  BY Zenon DEF Text!AnsweringNext, Text!FixedWording, Text!NoModel, Text!ModelFails, Text!Write,
               Text!Accept, Text!Reject, Text!FallBack, Text!given
<1>5. Text!MaxAttempts = 2
  BY DEF Text!MaxAttempts
<1>6. \A n : Text!Checked(n).step = n /\ Text!Explained(n).step = n
  BY DEF Text!Checked, Text!Explained
<1>7. ASSUME NEW r, r.step > Len(steps), added' = Append(added, r)
      PROVE  /\ Len(added') \in Nat /\ Len(added') <= Text!MaxAttempts + 1
             /\ \A k \in DOMAIN added' : added'[k].step > Len(steps)
  BY <1>1, <1>3, <1>5, <1>7
<1>8. CASE Text!FixedWording
  <2>1. added' = added
    BY <1>8, Zenon DEF Text!FixedWording
  <2> QED
    BY <1>1, <1>2, <1>3, <1>4, <1>5, <2>1
<1>9. CASE Text!NoModel
  <2>1. added' = << Text!Checked(Len(steps) + 1) >>
    BY <1>9, Zenon DEF Text!NoModel
  <2> QED
    BY <1>1, <1>2, <1>4, <1>5, <1>6, <2>1
<1>10. CASE Text!ModelFails
  <2>1. added' = Append(added, Text!Checked(Len(steps) + 1))
    BY <1>10, Zenon DEF Text!ModelFails
  <2>2. Text!Checked(Len(steps) + 1).step > Len(steps)
    BY <1>1, <1>6
  <2> QED
    BY <1>2, <1>4, <1>7, <2>1, <2>2
<1>11. CASE Text!FallBack
  <2>1. added' = Append(added, Text!Checked(Len(steps) + Len(added) + 1))
    BY <1>11, Zenon DEF Text!FallBack
  <2>2. Text!Checked(Len(steps) + Len(added) + 1).step > Len(steps)
    BY <1>1, <1>6
  <2> QED
    BY <1>2, <1>4, <1>7, <2>1, <2>2
<1>12. CASE Text!Write
  <2>1. PICK text \in Drafts : Text!Accept(text) \/ Text!Reject(text)
    BY <1>12, Zenon DEF Text!Write
  <2>2. Text!WroteStep.step > Len(steps)
    BY <1>1, <1>6 DEF Text!WroteStep
  <2>3. CASE Text!Reject(text)
    <3>1. added' = Append(added, Text!WroteStep)
      BY <2>3, Zenon DEF Text!Reject
    <3> QED
      BY <1>2, <1>4, <1>7, <2>2, <3>1
  <2>4. CASE Text!Accept(text)
    <3> DEFINE check == Text!Checked(Len(steps) + Len(added) + 2)
    <3>1. /\ added' = added \o << Text!WroteStep, check >>
          /\ Text!Attempt <= Text!MaxAttempts
      BY <2>4, Zenon DEF Text!Accept, Text!Asking
    <3>2. check.step > Len(steps)
      BY <1>1, <1>6
    <3>3. Len(added) + 2 <= Text!MaxAttempts + 1
      BY <1>1, <1>3, <1>5, <3>1 DEF Text!Attempt
    <3> HIDE DEF check
    <3>4. /\ Len(added') = Len(added) + 2
          /\ \A k \in DOMAIN added' :
               \/ k \in DOMAIN added /\ added'[k] = added[k]
               \/ added'[k] = Text!WroteStep \/ added'[k] = check
      BY <1>1, <3>1
    <3>5. \A k \in DOMAIN added' : added'[k].step > Len(steps)
      BY <2>2, <3>2, <3>4
    <3>6. Len(added') \in Nat /\ Len(added') <= Text!MaxAttempts + 1
      BY <1>1, <3>3, <3>4
    <3> QED
      BY <1>2, <1>4, <3>5, <3>6
  <2> QED
    BY <2>1, <2>3, <2>4
<1> QED
  BY <1>8, <1>9, <1>10, <1>11, <1>12, Zenon DEF Text!AnsweringNext

\* Every step of a request keeps the run and its writer together.
LEMMA WriterStep ==
    ASSUME WalkFacts, WalkFacts', WriterInv, [PipelineNext]_pvars
    PROVE  WriterInv'
<1>1. /\ added \in Seq(Text!TraceStep) /\ Len(added) \in Nat
      /\ model \in BOOLEAN /\ sound \subseteq Texts
      /\ Text!MaxAttempts = 2 /\ appended \in Nat
  <2>1. /\ added \in Seq(Text!TraceStep) /\ model \in BOOLEAN /\ sound \subseteq Text!Texts
    BY Zenon DEF WriterInv, Text!AnsweringTypeOK
  <2> QED
    BY <2>1 DEF Texts, Text!Texts, Text!MaxAttempts, WriterInv
<1>2. CASE Execute
  <2>1. phase = "walk" /\ UNCHANGED << written, stream >>
    BY <1>2 DEF Execute
  <2>2. Text!Unanswered
    BY <2>1 DEF WriterInv
  <2>3. added = << >> /\ turn = "write"
    BY <2>2, Zenon DEF Text!Unanswered
  <2>4. Text!Unanswered'
    BY <2>1, <2>2 DEF written, Text!Unanswered, Text!Plain
  <2>5. /\ model' \in BOOLEAN /\ sound' \subseteq Texts
        /\ added' = << >> /\ appended' = appended /\ turn' = turn
    BY <1>1, <2>1, <2>3 DEF written, stream
  <2>6. Text!AnsweringTypeOK' /\ Text!WritingInv'
    BY <2>4, <2>5, TextStillUnbegun DEF WalkFacts
  <2>7. appended = 0
    BY <2>3 DEF WriterInv
  <2> QED
    BY <1>1, <2>4, <2>5, <2>6, <2>7 DEF WriterInv, Text!MaxAttempts
<1>3. CASE WriteAnswer
  <2>1. phase = "done" /\ UNCHANGED << vars, stream >> /\ Text!AnsweringNext
    BY <1>3, WritesText DEF WriteAnswer
  <2>2. /\ phase' = "done" /\ appended' = appended /\ steps' = steps
    BY <2>1 DEF vars, stream
  <2>3. Text!AnsweringTypeOK' /\ Text!WritingInv'
    BY <2>1, TextStep DEF WriterInv
  <2>4. /\ turn = "write" /\ Len(added') \in Nat /\ Len(added') <= Text!MaxAttempts + 1
        /\ \A k \in DOMAIN added' : added'[k].step > Len(steps)
    BY <2>1, TextAdds DEF WriterInv
  <2>5. appended = 0
    BY <2>4 DEF WriterInv
  <2>6. appended' \in 0..Len(added')
    BY <2>2, <2>4, <2>5
  <2> QED
    BY <2>2, <2>3, <2>4, <2>5, <2>6 DEF WriterInv, Text!MaxAttempts
<1>4. ASSUME UNCHANGED << status, understanding, steps >>, UNCHANGED written,
             phase' # "done" => phase # "done",
             \/ appended' = appended
             \/ turn = "done" /\ appended < Len(added) /\ appended' = appended + 1
      PROVE  WriterInv'
  <2>1. Text!AnsweringTypeOK' /\ Text!WritingInv'
    <3>1. UNCHANGED << status, understanding, steps, written >>
      BY <1>4
    <3> QED
      BY <3>1, TextStays DEF WriterInv
  <2>2. /\ turn' = turn /\ added' = added /\ steps' = steps
    BY <1>4 DEF written
  <2>3. phase' # "done" => Text!Unanswered'
    BY <1>4 DEF WriterInv, written, Text!Unanswered, Text!Plain
  <2>4. appended' \in 0..Len(added')
    BY <1>1, <1>4, <2>2 DEF WriterInv
  <2>5. turn' = "write" => appended' = 0
    BY <1>4, <2>2 DEF WriterInv
  <2> QED
    BY <2>1, <2>2, <2>3, <2>4, <2>5 DEF WriterInv, Text!MaxAttempts
<1>5. CASE AppendStep
  <2>1. /\ UNCHANGED << vars, written >> /\ turn = "done" /\ appended < Len(added)
        /\ appended' = appended + 1
    BY <1>5 DEF AppendStep
  <2>2. UNCHANGED << status, understanding, steps >> /\ UNCHANGED written /\ phase' = phase
    BY <2>1 DEF vars
  <2> QED
    BY <1>4, <2>1, <2>2
<1>6. CASE ToolEscape
  BY <1>4, <1>6 DEF ToolEscape, Raise, Callable, Invocable, Walking, Closing
<1>7. CASE UNCHANGED << vars, written, appended >>
  <2>1. /\ UNCHANGED << status, understanding, steps >> /\ UNCHANGED written
        /\ phase' = phase /\ appended' = appended
    BY <1>7 DEF vars
  <2> QED
    BY <1>4, <2>1
<1> QED
  BY <1>2, <1>3, <1>5, <1>6, <1>7
     DEF PipelineNext, Progress, Accept, Understand, ForwardStep, AnswerEvent, NoAnswerEvent,
         Record, RecordRun, ErrorEvent, RunEvent, Escape, Leave, Closing, pvars, stream

\* A question that was settled by itself stays without a trace.
LEMMA SettledStep ==
    ASSUME WalkFacts, WriterInv, SettledInv, [PipelineNext]_pvars
    PROVE  SettledInv'
<1>1. Understood' = Understood
  BY RequestStep, WalkGrows DEF Understood
<1> SUFFICES ASSUME ~Understood PROVE SettledInv'
  BY <1>1 DEF SettledInv
<1>2. steps = << >> /\ added = << >>
  BY DEF SettledInv
<1>3. CASE Execute
  <2>1. Settle
    BY <1>3 DEF Execute, SkipUnbound, NotBuilt, Invoke, Fail, Conclude, Callable, Invocable, Walking
  <2>2. steps' = steps /\ added' = added /\ status' = understanding.status
    BY <1>3, <2>1 DEF Execute, Settle, written
  <2>3. status' \in {"clarify", "rejected_out_of_domain"}
    BY <2>2, ReadingType DEF WalkFacts, Understanding, UnderstandingStatus, Understood
  <2> QED
    BY <1>2, <2>2, <2>3 DEF SettledInv
<1>4. CASE WriteAnswer
  <2>1. phase = "done" /\ UNCHANGED vars /\ Text!AnsweringNext
    BY <1>4, WritesText DEF WriteAnswer
  <2>2. ~Text!ShouldExplain
    BY <2>1, Zenon DEF SettledInv, Text!ShouldExplain
  <2>3. Text!FixedWording
    BY <2>1, <2>2, Zenon
       DEF Text!AnsweringNext, Text!NoModel, Text!ModelFails, Text!Write, Text!Accept,
           Text!Reject, Text!FallBack, Text!Asking
  <2>4. added' = added
    BY <2>3, Zenon DEF Text!FixedWording
  <2> QED
    BY <1>2, <2>1, <2>4 DEF vars, SettledInv
<1>5. CASE UNCHANGED << steps, status, added, phase >>
  BY <1>2, <1>5 DEF SettledInv
<1>6. CASE ToolEscape
  BY <1>6 DEF ToolEscape, Raise, Callable, Invocable, Walking
<1> QED
  BY <1>3, <1>4, <1>5, <1>6
     DEF PipelineNext, Progress, Accept, Understand, ForwardStep, AppendStep, AnswerEvent,
         NoAnswerEvent, Record, RecordRun, ErrorEvent, RunEvent, Escape, Leave, Closing,
         pvars, stream, vars, written

-----------------------------------------------------------------------------
(* Sending. *)

EventKind == {"accepted", "understanding", "tool_result", "answer", "error", "run"}

\* The events of a kind are finitely many places of the stream.
LEMMA KindsAreFinite ==
    ASSUME sent \in Seq(Event), NEW kind
    PROVE  /\ Len(sent) \in Nat /\ DOMAIN sent = 1..Len(sent)
           /\ KindsSent(kind) \subseteq 1..Len(sent)
           /\ IsFiniteSet(KindsSent(kind)) /\ Cardinality(KindsSent(kind)) \in Nat
<1>1. Len(sent) \in Nat /\ DOMAIN sent = 1..Len(sent)
  OBVIOUS
<1>2. KindsSent(kind) \subseteq 1..Len(sent)
  BY <1>1 DEF KindsSent
<1>3. IsFiniteSet(1..Len(sent))
  BY <1>1, FS_Interval
<1>4. IsFiniteSet(KindsSent(kind))
  BY <1>2, <1>3, FS_Subset
<1> QED
  BY <1>1, <1>2, <1>4, FS_CardinalityType

\* What was forwarded is the number of steps sent.
LEMMA ForwardedCounts ==
    ASSUME sent \in Seq(Event)
    PROVE  Forwarded \in Nat /\ Forwarded = Cardinality(KindsSent("tool_result"))
<1>1. Forwarded = Cardinality(KindsSent("tool_result"))
  BY DEF Forwarded, KindsSent
<1> QED
  BY <1>1, KindsAreFinite

\* One event more: the stream grows by it at its end, and keeps what it held.
LEMMA Sending ==
    ASSUME sent \in Seq(Event), NEW kind \in EventKind, NEW step \in Nat,
           NEW says \in Result \cup {Nothing}, Yield(kind, step, says)
    PROVE  /\ sent' \in Seq(Event) /\ Len(sent) \in Nat
           /\ Len(sent') = Len(sent) + 1 /\ LastKind' = kind
           /\ sent'[Len(sent) + 1] = [kind |-> kind, step |-> step, says |-> says]
           /\ \A j \in 1..Len(sent) : sent'[j] = sent[j]
           /\ KindsSent(kind)' = KindsSent(kind) \cup {Len(sent) + 1}
           /\ \A other : other # kind => KindsSent(other)' = KindsSent(other)
           /\ Forwarded' = IF kind = "tool_result" THEN Forwarded + 1 ELSE Forwarded
<1> DEFINE e == [kind |-> kind, step |-> step, says |-> says]
<1>1. e \in Event /\ e.kind = kind
  BY DEF Event, EventKind
<1> HIDE DEF e
<1>2. sent' = Append(sent, e)
  BY DEF Yield, e
<1>3. /\ sent' \in Seq(Event) /\ Len(sent) \in Nat /\ Len(sent') = Len(sent) + 1
      /\ DOMAIN sent = 1..Len(sent) /\ DOMAIN sent' = 1..(Len(sent) + 1)
      /\ sent'[Len(sent) + 1] = e /\ \A j \in 1..Len(sent) : sent'[j] = sent[j]
  BY <1>1, <1>2
<1>4. LastKind' = kind
  <2>1. sent' # << >>
    BY <1>3
  <2> QED
    BY <1>1, <1>3, <2>1 DEF LastKind
<1>5. KindsSent(kind)' = KindsSent(kind) \cup {Len(sent) + 1}
  BY <1>1, <1>3 DEF KindsSent
<1>6. ASSUME NEW other, other # kind
      PROVE  KindsSent(other)' = KindsSent(other)
  BY <1>1, <1>3, <1>6 DEF KindsSent
<1>7. Forwarded = Cardinality(KindsSent("tool_result"))
      /\ Forwarded' = Cardinality(KindsSent("tool_result")')
  BY <1>3 DEF Forwarded, KindsSent
<1>8. CASE kind = "tool_result"
  <2>1. /\ KindsSent(kind) \subseteq 1..Len(sent) /\ IsFiniteSet(KindsSent(kind))
        /\ Cardinality(KindsSent(kind)) \in Nat
    BY KindsAreFinite
  <2>2. Len(sent) + 1 \notin KindsSent(kind)
    BY <1>3, <2>1
  <2>3. Cardinality(KindsSent(kind) \cup {Len(sent) + 1}) = Cardinality(KindsSent(kind)) + 1
    BY <2>1, <2>2, FS_AddElement
  <2> QED
    BY <1>3, <1>4, <1>5, <1>6, <1>7, <1>8, <2>3 DEF e
<1>9. CASE kind # "tool_result"
  BY <1>3, <1>4, <1>5, <1>6, <1>7, <1>9 DEF e
<1> QED
  BY <1>8, <1>9

\* The run that is reported is a report.
LEMMA RunType ==
    ASSUME WalkFacts, WriterInv
    PROVE  /\ Run \in Result /\ RunSteps \in Nat /\ Run.steps = RunSteps
           /\ Len(steps) \in Nat /\ Len(added) \in Nat
<1>1. /\ status \in RunStatus /\ Len(steps) \in Nat
  BY DEF WalkFacts, TypeOK
<1>2. /\ answer \in [text : Text!Texts, wording : BOOLEAN] /\ verdict \in Text!Verdict
      /\ added \in Seq(Text!TraceStep)
  BY Zenon DEF WriterInv, Text!AnsweringTypeOK
<1>3. Len(added) \in Nat
  BY <1>2
<1>4. RunSteps \in Nat
  BY <1>1, <1>3 DEF RunSteps, WriterInv
<1>5. verdict.grounded \in BOOLEAN
  BY <1>2 DEF Text!Verdict
<1> QED
  BY <1>1, <1>2, <1>3, <1>4, <1>5 DEF Texts, Run, Result, Text!Texts

\* Nothing that leaves the run alone changes what is reported of it.
LEMMA RunStays ==
    ASSUME UNCHANGED << vars, written, appended >>
    PROVE  /\ Run' = Run /\ RunSteps' = RunSteps /\ Understood' = Understood
           /\ \A place : Last(place)' = Last(place)
  BY DEF vars, written, Run, RunSteps, Understood, Last

\* An event more leaves the steps numbered, if a step carries the next number.
LEMMA Numbering ==
    ASSUME sent \in Seq(Event), Numbered,
           NEW kind \in EventKind, NEW step \in Nat, NEW says \in Result \cup {Nothing},
           Yield(kind, step, says), kind = "tool_result" => step = Forwarded + 1
    PROVE  Numbered'
<1> DEFINE n     == Len(sent)
           K     == KindsSent("tool_result")
           After == KindsSent("tool_result")'
<1>1. /\ n \in Nat /\ K \subseteq 1..n
      /\ Forwarded = Cardinality(K) /\ Forwarded \in Nat
  BY KindsAreFinite, ForwardedCounts
<1>2. /\ sent'[n + 1] = [kind |-> kind, step |-> step, says |-> says]
      /\ \A j \in 1..n : sent'[j] = sent[j]
      /\ After = IF kind = "tool_result" THEN K \cup {n + 1} ELSE K
  BY Sending
<1>3. ASSUME NEW j \in K
      PROVE  sent'[j].step = 1 + Cardinality({ k \in After : k < j })
  <2>1. sent'[j] = sent[j] /\ sent[j].step = 1 + Cardinality({ k \in K : k < j })
    BY <1>1, <1>2 DEF Numbered
  <2>2. { k \in After : k < j } = { k \in K : k < j }
    BY <1>1, <1>2
  <2> QED
    BY <2>1, <2>2
<1>4. ASSUME kind = "tool_result"
      PROVE  sent'[n + 1].step = 1 + Cardinality({ k \in After : k < n + 1 })
  <2>1. { k \in After : k < n + 1 } = K
    BY <1>1, <1>2, <1>4
  <2>2. sent'[n + 1].step = Forwarded + 1
    BY <1>2, <1>4
  <2>3. Cardinality({ k \in After : k < n + 1 }) = Forwarded
    BY <1>1, <2>1
  <2>4. Forwarded + 1 = 1 + Forwarded
    BY <1>1
  <2> QED
    BY <2>2, <2>3, <2>4
<1>5. \A j \in After : sent'[j].step = 1 + Cardinality({ k \in After : k < j })
  BY <1>2, <1>3, <1>4
<1> QED
  BY <1>5 DEF Numbered

-----------------------------------------------------------------------------
(* The steps of a request. *)

RequestInv == OrderInv /\ SentInv /\ AuditInv

\* What the invariants say of a run before it is final and of the counts they compare.
LEMMA RequestFacts ==
    ASSUME WalkFacts, WriterInv, SettledInv, RequestInv
    PROVE  /\ RunSteps \in Nat /\ Forwarded \in Nat /\ Forwarded <= RunSteps
           /\ Run \in Result /\ Nothing \in Result \cup {Nothing}
           /\ sent \in Seq(Event) /\ Numbered
           /\ turn = "done" => phase = "done"
           /\ ~Understood => RunSteps = 0
<1>1. /\ RunSteps \in Nat /\ Run \in Result /\ Len(steps) \in Nat
  BY RunType
<1>2. sent \in Seq(Event) /\ Numbered /\ Forwarded <= RunSteps
  BY DEF RequestInv, SentInv
<1>3. Forwarded \in Nat
  BY <1>2, ForwardedCounts
<1>4. turn = "done" => phase = "done"
  BY DEF WriterInv, Text!Unanswered
<1>5. ~Understood => RunSteps = 0
  <2> SUFFICES ASSUME ~Understood PROVE RunSteps = 0
    OBVIOUS
  <2>1. Len(steps) = 0 /\ Len(added) = 0
    BY DEF SettledInv
  <2> QED
    BY <2>1 DEF WriterInv, RunSteps
<1> QED
  BY <1>1, <1>2, <1>3, <1>4, <1>5

\* The run grows or is worded behind a stream that waits for it.
LEMMA Behind ==
    ASSUME WalkFacts, WriterInv, SettledInv, RequestInv, at = "run",
           UNCHANGED << understanding, channel, at, sent, audit, noted >>,
           RunSteps' \in Nat, RunSteps <= RunSteps'
    PROVE  RequestInv'
<1>1. /\ RunSteps \in Nat /\ Forwarded \in Nat /\ Forwarded <= RunSteps
  BY RequestFacts
<1>2. /\ Forwarded' = Forwarded /\ LastKind' = LastKind /\ Numbered' = Numbered
      /\ \A kind : KindsSent(kind)' = KindsSent(kind)
      /\ Understood' = Understood /\ Last("run")' = Last("run")
  BY DEF Forwarded, LastKind, Numbered, KindsSent, Understood, Last
<1>3. Forwarded' <= RunSteps'
  BY <1>1, <1>2
<1>4. OrderInv'
  BY DEF RequestInv, OrderInv, Final
<1>5. SentInv'
  BY <1>2, <1>3 DEF RequestInv, SentInv, Final, Stage
<1>6. AuditInv'
  BY <1>2 DEF RequestInv, AuditInv
<1> QED
  BY <1>4, <1>5, <1>6 DEF RequestInv

\* A request that is dropped, or that fails, leaves what it sent and at most its run.
LEMMA Dropping ==
    ASSUME WalkFacts, WriterInv, SettledInv, RequestInv, at \in Stage,
           NEW how \in {"failed", "gone"}, Closing(how),
           UNCHANGED << steps, status, understanding, answer, verdict, added >>,
           \/ audit' = audit
           \/ at = "record" /\ audit' = audit \cup {Run}
    PROVE  RequestInv'
<1>1. /\ at' = how /\ channel' = channel /\ noted' = noted /\ appended' = appended
      /\ sent' = sent \/ Yield("error", 0, Nothing)
  BY DEF Closing
<1>2. Run' = Run /\ RunSteps' = RunSteps
  BY <1>1 DEF Run, RunSteps
<1>3. /\ sent \in Seq(Event) /\ Numbered /\ Forwarded <= RunSteps
      /\ Nothing \in Result \cup {Nothing}
  BY RequestFacts
<1>4. OrderInv'
  BY <1>1 DEF RequestInv, OrderInv, Final, Ended
<1>5. KindsSent("run") = {}
  BY DEF RequestInv, SentInv, Stage
<1>6. SentInv'
  <2>1. CASE sent' = sent
    <3>1. Forwarded' = Forwarded /\ Numbered' /\ KindsSent("run")' = {}
      BY <1>3, <1>5, <2>1 DEF Forwarded, Numbered, KindsSent
    <3> QED
      BY <1>1, <1>2, <1>3, <2>1, <3>1 DEF SentInv, Final, Stage
  <2>2. CASE Yield("error", 0, Nothing)
    <3>1. /\ sent' \in Seq(Event) /\ Forwarded' = Forwarded /\ KindsSent("run")' = {}
      BY <1>3, <1>5, <2>2, Sending DEF EventKind
    <3>2. Numbered'
      BY <1>3, <2>2, Numbering DEF EventKind
    <3> QED
      BY <1>1, <1>2, <1>3, <3>1, <3>2 DEF SentInv, Final, Stage
  <2> QED
    BY <1>1, <2>1, <2>2
<1>7. AuditInv'
  <2>1. audit' \subseteq {Run'}
    BY <1>2 DEF RequestInv, AuditInv
  <2>2. audit' # {} => appended' = Len(added')
    BY <1>1 DEF RequestInv, AuditInv, OrderInv, Final
  <2> QED
    BY <1>1, <2>1, <2>2 DEF AuditInv
<1> QED
  BY <1>4, <1>6, <1>7 DEF RequestInv

\* An event is sent and the request goes on: what the events before it said stays, and
\* so does the run.
LEMMA GoingOnWith ==
    ASSUME WalkFacts, WriterInv, SettledInv, RequestInv,
           UNCHANGED << vars, written, appended, channel, audit, noted >>,
           NEW kind \in EventKind, NEW step \in Nat, NEW says \in Result \cup {Nothing},
           Yield(kind, step, says),
           kind = "tool_result" => step = Forwarded + 1 /\ Forwarded + 1 <= RunSteps
    PROVE  /\ sent' \in Seq(Event) /\ Numbered' /\ LastKind' = kind /\ Forwarded' <= RunSteps'
           /\ Forwarded' = IF kind = "tool_result" THEN Forwarded + 1 ELSE Forwarded
           /\ Run' = Run /\ RunSteps' = RunSteps /\ Understood' = Understood
           /\ phase' = phase /\ turn' = turn /\ appended' = appended /\ added' = added
           /\ channel' = channel /\ audit' = audit /\ noted' = noted
           /\ \A place : Last(place)' = Last(place)
           /\ Len(sent) \in Nat /\ Len(sent') = Len(sent) + 1
           /\ sent'[Len(sent')].says = says
           /\ \A j \in 1..Len(sent) : sent'[j] = sent[j]
           /\ KindsSent(kind)' = KindsSent(kind) \cup {Len(sent')}
           /\ \A other : other # kind => KindsSent(other)' = KindsSent(other)
           /\ KindsSent("answer") \subseteq 1..Len(sent)
<1>1. /\ sent \in Seq(Event) /\ Numbered /\ RunSteps \in Nat /\ Forwarded \in Nat
      /\ Forwarded <= RunSteps
  BY RequestFacts
<1>2. Numbered'
  BY <1>1, Numbering
<1>3. /\ sent' \in Seq(Event) /\ Len(sent) \in Nat /\ Len(sent') = Len(sent) + 1
      /\ LastKind' = kind
      /\ sent'[Len(sent) + 1] = [kind |-> kind, step |-> step, says |-> says]
      /\ \A j \in 1..Len(sent) : sent'[j] = sent[j]
      /\ KindsSent(kind)' = KindsSent(kind) \cup {Len(sent) + 1}
      /\ \A other : other # kind => KindsSent(other)' = KindsSent(other)
      /\ Forwarded' = IF kind = "tool_result" THEN Forwarded + 1 ELSE Forwarded
  BY <1>1, Sending
<1>4. /\ Run' = Run /\ RunSteps' = RunSteps /\ Understood' = Understood
      /\ \A place : Last(place)' = Last(place)
  BY RunStays
<1>5. phase' = phase /\ turn' = turn /\ appended' = appended /\ added' = added
  BY DEF vars, written
<1>6. Forwarded' <= RunSteps'
  BY <1>1, <1>3, <1>4
<1>7. KindsSent("answer") \subseteq 1..Len(sent)
  BY <1>1, KindsAreFinite
<1> QED
  BY <1>2, <1>3, <1>4, <1>5, <1>6, <1>7

\* Every step of a request keeps its stream, its order and its trail.
LEMMA RequestInvStep ==
    ASSUME WalkFacts, WalkFacts', WriterInv, WriterInv', SettledInv, RequestInv,
           [PipelineNext]_pvars
    PROVE  RequestInv'
<1>1. /\ OrderInv /\ SentInv /\ AuditInv
      /\ RunSteps \in Nat /\ Forwarded \in Nat /\ Forwarded <= RunSteps
      /\ Run \in Result /\ Run \in Result \cup {Nothing} /\ Nothing \in Result \cup {Nothing}
      /\ sent \in Seq(Event) /\ Numbered
      /\ turn = "done" => phase = "done"
      /\ ~Understood => RunSteps = 0
  BY RequestFacts DEF RequestInv
<1>2. CASE Accept
  <2>1. /\ at = "accept" /\ at' = "understand" /\ Yield("accepted", 0, Nothing)
        /\ UNCHANGED << vars, written, appended, channel, audit, noted >>
    BY <1>2 DEF Accept
  <2>2. /\ sent' \in Seq(Event) /\ Numbered' /\ LastKind' = "accepted"
        /\ Forwarded' <= RunSteps' /\ channel' = channel /\ audit' = audit /\ noted' = noted
        /\ Run' = Run
        /\ \A other : other # "accepted" => KindsSent(other)' = KindsSent(other)
    BY <1>1, <2>1, GoingOnWith DEF EventKind
  <2>3. OrderInv'
    BY <1>1, <2>1, <2>2 DEF OrderInv, Final, Stage
  <2>4. SentInv'
    BY <1>1, <2>1, <2>2 DEF SentInv, Final, Stage, Last
  <2>5. AuditInv'
    BY <1>1, <2>1, <2>2 DEF AuditInv
  <2> QED
    BY <2>3, <2>4, <2>5 DEF RequestInv
<1>3. CASE Understand
  <2>1. /\ at = "understand" /\ at' = "run" /\ Yield("understanding", 0, Nothing)
        /\ UNCHANGED << vars, written, appended, channel, audit, noted >>
    BY <1>3 DEF Understand
  <2>2. /\ sent' \in Seq(Event) /\ Numbered' /\ LastKind' = "understanding"
        /\ Forwarded' <= RunSteps' /\ channel' = channel /\ audit' = audit /\ noted' = noted
        /\ Run' = Run /\ KindsSent("understanding")' # {}
        /\ \A other : other # "understanding" => KindsSent(other)' = KindsSent(other)
    BY <1>1, <2>1, GoingOnWith DEF EventKind
  <2>3. OrderInv'
    BY <1>1, <2>1, <2>2 DEF OrderInv, Final, Stage
  <2>4. SentInv'
    BY <1>1, <2>1, <2>2 DEF SentInv, Final, Stage, Last
  <2>5. AuditInv'
    BY <1>1, <2>1, <2>2 DEF AuditInv
  <2> QED
    BY <2>3, <2>4, <2>5 DEF RequestInv
<1>4. CASE Execute
  <2>1. /\ at = "run" /\ UNCHANGED << written, stream >>
    BY <1>4 DEF Execute
  <2>2. /\ understanding' = understanding /\ Len(steps) \in Nat /\ Len(steps') \in Nat
        /\ Len(steps) <= Len(steps')
    BY RequestStep, WalkGrows
  <2>3. appended \in Nat /\ appended' = appended
    BY <2>1, RunType DEF stream, WriterInv
  <2>4. RunSteps' \in Nat /\ RunSteps <= RunSteps'
    BY <2>2, <2>3 DEF RunSteps
  <2> QED
    BY <2>1, <2>2, <2>4, Behind DEF stream
<1>5. CASE WriteAnswer
  <2>1. at = "run" /\ UNCHANGED << vars, stream >>
    BY <1>5 DEF WriteAnswer
  <2>2. RunSteps' = RunSteps /\ understanding' = understanding
    BY <2>1 DEF RunSteps, vars, stream
  <2> QED
    BY <1>1, <2>1, <2>2, Behind DEF stream
<1>6. CASE AppendStep
  <2>1. /\ at = "run" /\ appended' = appended + 1 /\ UNCHANGED vars
        /\ UNCHANGED << channel, at, sent, audit, noted >>
    BY <1>6 DEF AppendStep
  <2>2. Len(steps') = Len(steps) /\ understanding' = understanding
    BY <2>1 DEF vars
  <2>3. Len(steps) \in Nat /\ appended \in Nat
    BY RunType DEF WriterInv
  <2>4. RunSteps' \in Nat /\ RunSteps <= RunSteps'
    BY <2>1, <2>2, <2>3 DEF RunSteps
  <2> QED
    BY <2>1, <2>2, <2>4, Behind
<1>7. CASE ForwardStep
  <2>1. /\ at = "run" /\ at' = at /\ ~CaughtUp /\ Yield("tool_result", Forwarded + 1, Nothing)
        /\ UNCHANGED << vars, written, appended, channel, audit, noted >>
    BY <1>7 DEF ForwardStep
  <2>2. Forwarded + 1 <= RunSteps /\ Forwarded + 1 \in Nat
    BY <1>1, <2>1 DEF CaughtUp
  <2>3. Understood
    BY <1>1, <2>2
  <2>4. /\ sent' \in Seq(Event) /\ Numbered' /\ LastKind' = "tool_result"
        /\ Forwarded' <= RunSteps' /\ channel' = channel /\ audit' = audit /\ noted' = noted
        /\ Run' = Run /\ Understood' = Understood
        /\ \A other : other # "tool_result" => KindsSent(other)' = KindsSent(other)
    BY <1>1, <2>1, <2>2, GoingOnWith DEF EventKind
  <2>5. OrderInv'
    BY <1>1, <2>1, <2>4 DEF OrderInv, Final, Stage
  <2>6. SentInv'
    BY <1>1, <2>1, <2>3, <2>4 DEF SentInv, Final, Stage, Last
  <2>7. AuditInv'
    BY <1>1, <2>1, <2>4 DEF AuditInv
  <2> QED
    BY <2>5, <2>6, <2>7 DEF RequestInv
<1>8. CASE AnswerEvent
  <2>1. /\ at = "run" /\ at' = "record" /\ turn = "done" /\ CaughtUp /\ appended = Len(added)
        /\ Understood /\ Yield("answer", 0, Run)
        /\ UNCHANGED << vars, written, appended, channel, audit, noted >>
    BY <1>8 DEF AnswerEvent, Answered
  <2>2. /\ sent' \in Seq(Event) /\ Numbered' /\ LastKind' = "answer"
        /\ Forwarded' <= RunSteps' /\ Forwarded' = Forwarded /\ RunSteps' = RunSteps
        /\ channel' = channel /\ audit' = audit /\ noted' = noted
        /\ phase' = phase /\ turn' = turn /\ appended' = appended /\ added' = added
        /\ Run' = Run /\ Understood' = Understood
        /\ KindsSent("answer")' = KindsSent("answer") \cup {Len(sent')}
        /\ sent'[Len(sent')].says = Run
        /\ \A other : other # "answer" => KindsSent(other)' = KindsSent(other)
    BY <1>1, <2>1, GoingOnWith DEF EventKind
  <2>3. KindsSent("answer")' = {Len(sent')}
    BY <1>1, <2>1, <2>2 DEF SentInv
  <2>4. OrderInv'
    BY <1>1, <2>1, <2>2 DEF OrderInv, Final, Stage, CaughtUp
  <2>5. SentInv'
    BY <1>1, <2>1, <2>2, <2>3 DEF SentInv, Final, Stage, Last
  <2>6. AuditInv'
    BY <1>1, <2>1, <2>2 DEF AuditInv
  <2> QED
    BY <2>4, <2>5, <2>6 DEF RequestInv
<1>9. ASSUME UNCHANGED << vars, written, appended, channel, sent >>
      PROVE  /\ Run' = Run /\ RunSteps' = RunSteps /\ Understood' = Understood
             /\ Forwarded' = Forwarded /\ LastKind' = LastKind /\ Numbered' = Numbered
             /\ \A kind : KindsSent(kind)' = KindsSent(kind)
             /\ phase' = phase /\ turn' = turn /\ appended' = appended /\ added' = added
             /\ channel' = channel /\ sent' = sent /\ CaughtUp' = CaughtUp
             /\ \A place : Last(place)' = Last(place)
  BY <1>9, RunStays DEF Forwarded, LastKind, Numbered, KindsSent, vars, written, CaughtUp
<1>10. CASE NoAnswerEvent
  <2>1. /\ at = "run" /\ at' = "record" /\ turn = "done" /\ CaughtUp /\ appended = Len(added)
        /\ ~Understood /\ UNCHANGED << vars, written, appended, channel, sent >>
        /\ audit' = audit /\ noted' = noted
    BY <1>10 DEF NoAnswerEvent, Answered
  <2>2. OrderInv'
    BY <1>1, <1>9, <2>1 DEF OrderInv, Final, Stage
  <2>3. SentInv'
    BY <1>1, <1>9, <2>1 DEF SentInv, Final, Stage, Last
  <2>4. AuditInv'
    BY <1>1, <1>9, <2>1 DEF AuditInv
  <2> QED
    BY <2>2, <2>3, <2>4 DEF RequestInv
<1>11. CASE Record
  <2>1. PICK wrote \in LogWrites : RecordRun(wrote)
    BY <1>11 DEF Record
  <2>2. /\ at = "record" /\ audit' = (IF wrote THEN audit \cup {Run} ELSE audit)
        /\ noted' = (noted \/ (Understood /\ ~wrote))
        /\ at' = IF status = "error" THEN "error" ELSE "finish"
        /\ UNCHANGED << vars, written, appended, channel, sent >>
    BY <2>1 DEF RecordRun
  <2>3. phase = "done" /\ Final /\ audit = {} /\ ~noted
    BY <1>1, <2>2 DEF OrderInv, Final, AuditInv
  <2>4. at' = "error" => Understood
    BY <2>2, <2>3 DEF SettledInv
  <2>5. at' \in {"error", "finish"}
    BY <2>2
  <2>6. OrderInv'
    BY <1>1, <1>9, <2>2, <2>3, <2>4, <2>5 DEF OrderInv, Final, Stage
  <2>7. SentInv'
    BY <1>1, <1>9, <2>2, <2>3, <2>4, <2>5 DEF SentInv, Final, Stage, Last
  <2>8. AuditInv'
    <3>1. audit' = IF wrote THEN {Run} ELSE {}
      BY <2>2, <2>3
    <3>2. noted' <=> Understood /\ ~wrote
      BY <2>2, <2>3
    <3>3. appended' = Len(added')
      BY <1>1, <1>9, <2>2, <2>3 DEF OrderInv
    <3> QED
      BY <1>9, <2>2, <2>5, <3>1, <3>2, <3>3 DEF AuditInv
  <2> QED
    BY <2>6, <2>7, <2>8 DEF RequestInv
<1>12. CASE ErrorEvent
  <2>1. /\ at = "error" /\ at' = "finish" /\ Yield("error", 0, Nothing)
        /\ UNCHANGED << vars, written, appended, channel, audit, noted >>
    BY <1>12 DEF ErrorEvent
  <2>2. Understood
    BY <1>1, <2>1 DEF OrderInv
  <2>3. /\ sent' \in Seq(Event) /\ Numbered' /\ LastKind' = "error"
        /\ Forwarded' <= RunSteps' /\ Forwarded' = Forwarded /\ RunSteps' = RunSteps
        /\ channel' = channel /\ audit' = audit /\ noted' = noted
        /\ phase' = phase /\ turn' = turn /\ appended' = appended /\ added' = added
        /\ Run' = Run /\ Understood' = Understood
        /\ \A j \in 1..Len(sent) : sent'[j] = sent[j]
        /\ KindsSent("answer") \subseteq 1..Len(sent)
        /\ \A other : other # "error" => KindsSent(other)' = KindsSent(other)
    BY <1>1, <2>1, GoingOnWith DEF EventKind
  <2>4. OrderInv'
    BY <1>1, <2>1, <2>3 DEF OrderInv, Final, Stage, CaughtUp
  <2>5. \A j \in KindsSent("answer")' : sent'[j].says = Run'
    BY <1>1, <2>1, <2>3 DEF SentInv, Final
  <2>6. SentInv'
    BY <1>1, <2>1, <2>2, <2>3, <2>5 DEF SentInv, Final, Stage, Last
  <2>7. AuditInv'
    BY <1>1, <2>1, <2>3 DEF AuditInv
  <2> QED
    BY <2>4, <2>6, <2>7 DEF RequestInv
<1>13. CASE RunEvent
  <2>1. /\ at = "finish" /\ at' = "closed" /\ Yield("run", 0, Run)
        /\ UNCHANGED << vars, written, appended, channel, audit, noted >>
    BY <1>13 DEF RunEvent
  <2>2. /\ sent' \in Seq(Event) /\ Numbered' /\ LastKind' = "run"
        /\ Forwarded' <= RunSteps' /\ Forwarded' = Forwarded /\ RunSteps' = RunSteps
        /\ channel' = channel /\ audit' = audit /\ noted' = noted
        /\ phase' = phase /\ turn' = turn /\ appended' = appended /\ added' = added
        /\ Run' = Run /\ Understood' = Understood
        /\ KindsSent("run")' = KindsSent("run") \cup {Len(sent')}
        /\ sent'[Len(sent')].says = Run
        /\ \A j \in 1..Len(sent) : sent'[j] = sent[j]
        /\ KindsSent("answer") \subseteq 1..Len(sent)
        /\ \A other : other # "run" => KindsSent(other)' = KindsSent(other)
    BY <1>1, <2>1, GoingOnWith DEF EventKind
  <2>3. KindsSent("run")' = {Len(sent')}
    BY <1>1, <2>1, <2>2 DEF SentInv
  <2>4. OrderInv'
    BY <1>1, <2>1, <2>2 DEF OrderInv, Final, Ended, CaughtUp
  <2>5. \A j \in KindsSent("answer")' : sent'[j].says = Run'
    BY <1>1, <2>1, <2>2 DEF SentInv, Final
  <2>6. SentInv'
    BY <1>1, <2>1, <2>2, <2>3, <2>5 DEF SentInv, Final, Stage, Last
  <2>7. AuditInv'
    BY <1>1, <2>1, <2>2 DEF AuditInv
  <2> QED
    BY <2>4, <2>6, <2>7 DEF RequestInv
<1>14. CASE Escape
  <2>1. at \in Stage /\ Closing("failed") /\ UNCHANGED << vars, audit >>
    BY <1>14 DEF Escape, Stage
  <2> QED
    BY <2>1, Dropping DEF Closing, vars, written
<1>15. CASE ToolEscape
  <2>1. at \in Stage /\ Closing("failed") /\ Raise /\ UNCHANGED audit
    BY <1>15 DEF ToolEscape, Stage
  <2> QED
    BY <2>1, Dropping DEF Closing, Raise, written
<1>16. CASE Leave
  <2>1. at \in Stage /\ Closing("gone") /\ UNCHANGED vars
    BY <1>16 DEF Leave
  <2>2. audit' = audit \/ (at = "record" /\ audit' = audit \cup {Run})
    BY <1>16 DEF Leave
  <2> QED
    BY <2>1, <2>2, Dropping DEF Closing, vars, written
<1>17. CASE UNCHANGED pvars
  <2>1. UNCHANGED << vars, written, appended, channel, sent >>
        /\ at' = at /\ audit' = audit /\ noted' = noted
    BY <1>17 DEF pvars, stream
  <2> QED
    BY <1>1, <1>9, <2>1 DEF RequestInv, OrderInv, SentInv, AuditInv, Final
<1> QED
  BY <1>2, <1>3, <1>4, <1>5, <1>6, <1>7, <1>8, <1>10, <1>11, <1>12, <1>13, <1>14, <1>15,
     <1>16, <1>17 DEF PipelineNext, Progress

\* An accepted question has neither a run nor a stream yet.
LEMMA RequestInit ==
    ASSUME PipelineInit
    PROVE  WriterInv /\ SettledInv /\ RequestInv
<1>1. /\ phase = "walk" /\ steps = << >> /\ at = "accept" /\ sent = << >> /\ audit = {}
      /\ noted = FALSE /\ appended = 0 /\ channel \in {"ask", "stream"}
      /\ model \in BOOLEAN /\ sound \subseteq Texts /\ TypeOK
  BY TypeInit DEF PipelineInit, Init
<1>2. Text!Unanswered
  BY DEF PipelineInit, Writer!Unanswered, Text!Unanswered, Writer!Plain, Text!Plain
<1>3. added = << >> /\ turn = "write"
  BY <1>2, Zenon DEF Text!Unanswered
<1>4. WriterInv
  <2>1. Text!AnsweringTypeOK /\ Text!WritingInv
    BY <1>1, <1>2, TextUnbegun
  <2>2. Len(added) = 0 /\ DOMAIN added = {} /\ Text!MaxAttempts = 2
    BY <1>3 DEF Text!MaxAttempts
  <2> QED
    BY <1>1, <1>2, <2>1, <2>2 DEF WriterInv
<1>5. SettledInv
  BY <1>1, <1>3 DEF SettledInv
<1>6. OrderInv
  BY <1>1 DEF OrderInv, Final, Stage
<1>7. SentInv
  <2>1. sent \in Seq(Event) /\ DOMAIN sent = {} /\ LastKind = "none"
    BY <1>1 DEF LastKind
  <2>2. \A kind : KindsSent(kind) = {}
    BY <2>1 DEF KindsSent
  <2>3. Forwarded = 0
    BY <2>1, <2>2, ForwardedCounts, FS_EmptySet
  <2>4. RunSteps = 0
    BY <1>1 DEF RunSteps
  <2> QED
    BY <1>1, <2>1, <2>2, <2>3, <2>4 DEF SentInv, Final, Stage, Last, Numbered
<1>8. AuditInv
  BY <1>1 DEF AuditInv
<1> QED
  BY <1>4, <1>5, <1>6, <1>7, <1>8 DEF RequestInv

\* However a request goes - whatever its tools return, whatever the model writes,
\* whether the log takes its row and wherever its reader leaves - the run, the
\* stream and the trail stay in the order the route promises (pipeline.py:92-160).
THEOREM RequestsInOrder == PipelineSpec => []PipeInv
<1>1. PipelineInit => WriterInv /\ SettledInv /\ RequestInv
  BY RequestInit
<1>2. WalkFacts /\ WalkFacts' /\ (WriterInv /\ SettledInv /\ RequestInv) /\ [PipelineNext]_pvars
        => (WriterInv /\ SettledInv /\ RequestInv)'
  <2> SUFFICES ASSUME WalkFacts, WalkFacts', WriterInv, SettledInv, RequestInv,
                      [PipelineNext]_pvars
               PROVE  WriterInv' /\ SettledInv' /\ RequestInv'
    OBVIOUS
  <2>1. WriterInv'
    BY WriterStep
  <2>2. SettledInv'
    BY SettledStep
  <2>3. RequestInv'
    BY <2>1, RequestInvStep
  <2> QED
    BY <2>1, <2>2, <2>3
<1>3. WriterInv /\ SettledInv /\ RequestInv => PipeInv
  BY DEF RequestInv, PipeInv
<1> QED
  BY <1>1, <1>2, <1>3, RequestsWalkWell, PTL DEF PipelineSpec

-----------------------------------------------------------------------------
(* What a reader and an auditor can rely on. *)

\* One row at most is kept of a run, the run as it was delivered, and a run that was
\* analysed and is not in the trail says so (tracing.py:47-85, pipeline.py:151-154).
LEMMA TrailIsKept ==
    ASSUME WalkFacts, PipeInv
    PROVE  AuditIsTheRun
<1>1. /\ audit \subseteq {Run} /\ Run \in Result /\ Run.steps = RunSteps
      /\ audit # {} => appended = Len(added)
  BY RunType DEF PipeInv, AuditInv
<1>2. Cardinality(audit) <= 1
  <2>1. CASE audit = {}
    BY <2>1, FS_EmptySet
  <2>2. CASE audit = {Run}
    BY <2>2, FS_Singleton
  <2> QED
    BY <1>1, <2>1, <2>2
<1>3. ASSUME NEW row \in audit
      PROVE  /\ row.steps = Len(steps) + Len(added)
             /\ Delivered => row = sent[Len(sent)].says
  <2>1. row = Run /\ appended = Len(added)
    BY <1>1
  <2> QED
    BY <1>1, <2>1 DEF RunSteps, Delivered, PipeInv, SentInv
<1>4. (Delivered /\ Understood) => (noted <=> audit = {})
  BY DEF Delivered, PipeInv, AuditInv
<1> QED
  BY <1>1, <1>2, <1>3, <1>4 DEF AuditIsTheRun

\* An analysed question leaves one row that says what its run says, or a note that
\* it has none (pipeline.py:137-160, tracing.py).
THEOREM TrailIsTheRun == PipelineSpec => []AuditIsTheRun
<1>1. WalkFacts /\ PipeInv => AuditIsTheRun
  BY TrailIsKept
<1> QED
  BY <1>1, RequestsWalkWell, RequestsInOrder, PTL

\* A delivered run was sent step by step, each step once and in its order, and the
\* answer announced before it is its own (pipeline.py:12-13).
LEMMA StreamIsKept ==
    ASSUME WalkFacts, PipeInv
    PROVE  StreamIsTheRun
<1>1. sent \in Seq(Event) /\ Numbered
  BY DEF PipeInv, SentInv
<1>2. ASSUME Delivered
      PROVE  /\ sent[Len(sent)].kind = "run"
             /\ Cardinality(KindsSent("run")) = 1
             /\ Cardinality(KindsSent("tool_result")) = sent[Len(sent)].says.steps
             /\ \A j \in KindsSent("answer") : sent[j].says = sent[Len(sent)].says
  <2>1. /\ at = "closed" /\ Final /\ KindsSent("run") = {Len(sent)}
        /\ sent[Len(sent)].says = Run /\ CaughtUp
        /\ \A j \in KindsSent("answer") : sent[j].says = Run
    BY <1>2 DEF Delivered, Final, PipeInv, OrderInv, SentInv
  <2>2. sent[Len(sent)].kind = "run"
    BY <2>1 DEF KindsSent
  <2>3. Cardinality(KindsSent("run")) = 1
    BY <2>1, FS_Singleton
  <2>4. Cardinality(KindsSent("tool_result")) = Run.steps
    BY <1>1, <2>1, ForwardedCounts, RunType DEF CaughtUp, PipeInv
  <2> QED
    BY <2>1, <2>2, <2>3, <2>4
<1> QED
  BY <1>1, <1>2 DEF StreamIsTheRun, Numbered

\* The stream says each step of the run once and in order, then its answer, then
\* the run itself (pipeline.py:92-160).
THEOREM StreamTellsTheRun == PipelineSpec => []StreamIsTheRun
<1>1. WalkFacts /\ PipeInv => StreamIsTheRun
  BY StreamIsKept
<1> QED
  BY <1>1, RequestsWalkWell, RequestsInOrder, PTL

-----------------------------------------------------------------------------
(* The stream of a request is the one EventStream promises. *)

\* What the promise reads of a request.
LEMMA PromiseReads ==
    /\ Promised!svars = << LastKind, at \in Stage, ~Understood >>
    /\ \A kind : Promised!Send(kind) <=>
         /\ at \in Stage /\ Promised!Follows(kind)
         /\ LastKind' = kind
         /\ (at \in Stage)' = (kind # "run")
         /\ (~Understood)' = ~Understood
    /\ Promised!Break <=>
         /\ at \in Stage /\ (at \in Stage)' = FALSE
         /\ LastKind' \in {LastKind, "error"}
         /\ (~Understood)' = ~Understood
BY Zenon DEF Promised!svars, Promised!Send, Promised!Break, LastKind

\* An event is sent only where the promise lets it follow.
LEMMA Following ==
    ASSUME PipeInv, at \in Stage
    PROVE  /\ at = "accept"     => Promised!Follows("accepted")
           /\ at = "understand" => Promised!Follows("understanding")
           /\ (at = "run" /\ Understood) => Promised!Follows("tool_result")
           /\ (at = "run" /\ Understood) => Promised!Follows("answer")
           /\ at = "error"      => Promised!Follows("error")
           /\ at = "finish"     => Promised!Follows("run")
<1>1. LastKind \in Last(at)
  BY DEF PipeInv, SentInv
<1>2. at = "error" => Understood
  BY DEF PipeInv, OrderInv
<1> QED
  BY <1>1, <1>2 DEF Promised!Follows, LastKind, Last

\* Sending an event, with the request still open or just closed.
LEMMA SendsIt ==
    ASSUME sent \in Seq(Event), UNCHANGED understanding, at \in Stage,
           NEW kind \in EventKind, NEW step \in Nat, NEW says \in Result \cup {Nothing},
           Yield(kind, step, says), Promised!Follows(kind),
           IF kind = "run" THEN at' = "closed" ELSE at' \in Stage
    PROVE  Promised!StreamNext
<1>1. LastKind' = kind
  BY Sending
<1>2. (at \in Stage)' = (kind # "run")
  BY DEF Stage
<1>3. (~Understood)' = ~Understood
  BY DEF Understood
<1>4. Promised!Send(kind)
  BY <1>1, <1>2, <1>3, PromiseReads
<1>5. kind \in Promised!Kind
  BY DEF EventKind, Promised!Kind
<1> QED
  BY <1>4, <1>5 DEF Promised!StreamNext

\* Ending a request breaks its stream, with the error as its last event at most.
LEMMA BreaksIt ==
    ASSUME sent \in Seq(Event), UNCHANGED understanding, at \in Stage,
           NEW how \in {"failed", "gone"}, Closing(how)
    PROVE  Promised!StreamNext
<1>1. at' = how /\ (sent' = sent \/ Yield("error", 0, Nothing))
  BY DEF Closing
<1>2. LastKind' \in {LastKind, "error"}
  <2>1. CASE sent' = sent
    BY <2>1 DEF LastKind
  <2>2. CASE Yield("error", 0, Nothing)
    BY <2>2, Sending DEF EventKind
  <2> QED
    BY <1>1, <2>1, <2>2
<1>3. (at \in Stage)' = FALSE
  BY <1>1 DEF Stage
<1>4. (~Understood)' = ~Understood
  BY DEF Understood
<1>5. Promised!Break
  BY <1>2, <1>3, <1>4, PromiseReads
<1> QED
  BY <1>5 DEF Promised!StreamNext

\* Each step of a request sends what may follow, breaks the stream, or says nothing.
LEMMA PromiseStep ==
    ASSUME WalkFacts, PipeInv, [PipelineNext]_pvars
    PROVE  [Promised!StreamNext]_(Promised!svars)
<1>1. /\ sent \in Seq(Event) /\ Forwarded + 1 \in Nat /\ Run \in Result \cup {Nothing}
      /\ Nothing \in Result \cup {Nothing}
      /\ (~CaughtUp) => Understood
  <2>1. /\ WriterInv /\ SettledInv /\ RequestInv
    BY DEF PipeInv, RequestInv
  <2>2. /\ sent \in Seq(Event) /\ Forwarded \in Nat /\ RunSteps \in Nat /\ Run \in Result
        /\ Forwarded <= RunSteps /\ (~Understood => RunSteps = 0)
    BY <2>1, RequestFacts
  <2> QED
    BY <2>2 DEF CaughtUp
<1>2. understanding' = understanding
  BY RequestStep, WalkGrows
<1>3. ASSUME sent' = sent, (at \in Stage)' = (at \in Stage)
      PROVE  UNCHANGED Promised!svars
  <2>1. LastKind' = LastKind /\ (~Understood)' = ~Understood
    BY <1>2, <1>3 DEF LastKind, Understood
  <2> QED
    BY <1>3, <2>1 DEF Promised!svars, LastKind
<1>4. CASE Accept
  BY <1>1, <1>2, <1>4, Following, SendsIt DEF Accept, Stage, EventKind
<1>5. CASE Understand
  BY <1>1, <1>2, <1>5, Following, SendsIt DEF Understand, Stage, EventKind
<1>6. CASE ForwardStep
  BY <1>1, <1>2, <1>6, Following, SendsIt DEF ForwardStep, Stage, EventKind
<1>7. CASE AnswerEvent
  BY <1>1, <1>2, <1>7, Following, SendsIt DEF AnswerEvent, Answered, Stage, EventKind
<1>8. CASE ErrorEvent
  BY <1>1, <1>2, <1>8, Following, SendsIt DEF ErrorEvent, Stage, EventKind
<1>9. CASE RunEvent
  BY <1>1, <1>2, <1>9, Following, SendsIt DEF RunEvent, Stage, EventKind
<1>10. CASE Escape \/ ToolEscape
  BY <1>1, <1>2, <1>10, BreaksIt DEF Escape, ToolEscape, Stage
<1>11. CASE Leave
  BY <1>1, <1>2, <1>11, BreaksIt DEF Leave
<1>12. CASE Execute \/ WriteAnswer \/ AppendStep \/ UNCHANGED pvars
  <2>1. sent' = sent /\ at' = at
    BY <1>12 DEF Execute, WriteAnswer, AppendStep, pvars, stream
  <2> QED
    BY <1>3, <2>1
<1>13. CASE NoAnswerEvent \/ Record
  <2>1. sent' = sent /\ at \in Stage /\ at' \in Stage
    BY <1>13 DEF NoAnswerEvent, Answered, Record, RecordRun, Stage
  <2> QED
    BY <1>3, <2>1
<1> QED
  BY <1>4, <1>5, <1>6, <1>7, <1>8, <1>9, <1>10, <1>11, <1>12, <1>13
     DEF PipelineNext, Progress

\* The route implements its promise: the events of a question come in the order the
\* panel is built from, and the stream says nothing after its run or its break.
THEOREM StreamKeepsThePromise == PipelineSpec => KeepsThePromise
<1>1. PipelineInit => Promised!StreamInit
  <2> SUFFICES ASSUME PipelineInit PROVE Promised!StreamInit
    OBVIOUS
  <2>1. sent = << >> /\ at \in Stage
    BY DEF PipelineInit, Stage
  <2> QED
    BY <2>1 DEF Promised!StreamInit
<1>2. WalkFacts /\ PipeInv /\ [PipelineNext]_pvars => [Promised!StreamNext]_(Promised!svars)
  BY PromiseStep
<1> QED
  BY <1>1, <1>2, RequestsWalkWell, RequestsInOrder, PTL
     DEF PipelineSpec, KeepsThePromise, Promised!EventStreamSpec

-----------------------------------------------------------------------------
(* What the panel says is being waited for. *)

\* A row of the panel is one of the steps that came with its number.
Came(n) == { j \in 1..Forwarded : NumberOf(j) = n }

\* A row is a planned call's or that of a step that came, and shows the last that did.
LEMMA RowsAreSteps ==
    ASSUME NEW n \in DOMAIN MergedSteps
    PROVE  /\ n \in DOMAIN Plan \/ \E j \in 1..Forwarded : NumberOf(j) = n
           /\ MergedSteps[n] = IF Came(n) = {} THEN Pending
                               ELSE CHOOSE j \in Came(n) : \A i \in Came(n) : i <= j
  BY DEF MergedSteps, Came

\* Where a step stands in the run, and the number it carries, when it was forwarded.
LEMMA ForwardedSteps ==
    ASSUME WalkFacts, PipeInv, NEW j \in 1..Forwarded
    PROVE  /\ j \in Nat /\ Len(steps) \in Nat /\ j <= Len(steps) + 3
           /\ IF j <= Len(steps) THEN j \in DOMAIN steps /\ NumberOf(j) = j
              ELSE NumberOf(j) \in Nat /\ NumberOf(j) > Len(steps) /\ phase = "done"
<1>1. /\ RunSteps \in Nat /\ Forwarded \in Nat /\ Forwarded <= RunSteps
      /\ Len(steps) \in Nat /\ Len(added) \in Nat /\ steps \in Seq(Step)
  BY RequestFacts, RunType DEF PipeInv, RequestInv, WalkFacts, TypeOK
<1>2. appended \in 0..Len(added) /\ Len(added) <= 3
  BY DEF PipeInv, WriterInv, Text!MaxAttempts
<1>3. j \in Nat /\ j >= 1 /\ j <= Len(steps) + appended
  BY <1>1 DEF RunSteps
<1>4. j <= Len(steps) + 3
  BY <1>1, <1>2, <1>3
<1>5. CASE j <= Len(steps)
  BY <1>1, <1>3, <1>4, <1>5 DEF NumberOf
<1>6. CASE j > Len(steps)
  <2>1. j - Len(steps) \in 1..Len(added)
    BY <1>1, <1>2, <1>3, <1>6
  <2>2. added \in Seq(Text!TraceStep)
    BY Zenon DEF PipeInv, WriterInv, Text!AnsweringTypeOK
  <2>3. j - Len(steps) \in DOMAIN added
    BY <2>1, <2>2
  <2>4. added[j - Len(steps)].step > Len(steps)
    BY <2>3 DEF PipeInv, WriterInv
  <2>5. NumberOf(j) \in Nat /\ NumberOf(j) > Len(steps)
    <3>1. added[j - Len(steps)] \in Text!TraceStep
      BY <2>2, <2>3
    <3>2. added[j - Len(steps)].step \in Nat
      BY <3>1 DEF Text!TraceStep
    <3>3. NumberOf(j) = added[j - Len(steps)].step
      BY <1>1, <1>3, <1>6 DEF NumberOf
    <3> QED
      BY <2>4, <3>2, <3>3
  <2>6. added # << >>
    BY <2>3
  <2>7. phase = "done"
    BY <2>6 DEF PipeInv, WriterInv, Text!Unanswered
  <2> QED
    BY <1>1, <1>3, <1>4, <1>6, <2>5, <2>7
<1> QED
  BY <1>1, <1>3, <1>5, <1>6

\* Once a step of the engine was forwarded, the walk is done and every planned call
\* went before it.
LEMMA EngineIsLast ==
    ASSUME WalkFacts, PipeInv, Understood, NEW j \in 1..Forwarded, KindOf(j) = "engine"
    PROVE  phase = "done" /\ Len(Plan) < j
<1>1. /\ j \in Nat /\ Len(steps) \in Nat
      /\ IF j <= Len(steps) THEN j \in DOMAIN steps
         ELSE phase = "done"
  BY ForwardedSteps
<1>2. /\ Len(Plan) \in Nat /\ WholePlanShown
  BY ReadingType DEF WalkFacts, TypeOK, WalkInv
<1>3. CASE j <= Len(steps)
  <2>1. j \in DOMAIN steps /\ steps[j].kind = "engine"
    BY <1>1, <1>3 DEF KindOf
  <2>2. phase = "done"
    BY <2>1, NoEngineYet DEF WalkFacts
  <2>3. ~(j <= Len(Plan))
    BY <1>2, <2>1, <2>2 DEF WholePlanShown
  <2> QED
    BY <1>1, <1>2, <2>2, <2>3
<1>4. CASE j > Len(steps)
  <2>1. phase = "done"
    BY <1>1, <1>4
  <2>2. Len(steps) \in {Len(Plan), Len(Plan) + 1}
    BY <1>2, <2>1 DEF WholePlanShown
  <2> QED
    BY <1>1, <1>2, <1>4, <2>1, <2>2
<1> QED
  BY <1>1, <1>3, <1>4

\* A set of numbers with at most one of them up to a bound, and none more than three
\* beyond it, has a greatest one.
LEMMA HighestOfFew ==
    ASSUME NEW L \in Nat, NEW n, NEW C, C # {},
           \A j \in C : j \in Nat /\ j <= L + 3 /\ (j <= L => j = n)
    PROVE  \E j \in C : \A i \in C : i <= j
<1>1. CASE L + 3 \in C
  BY <1>1
<1>2. CASE L + 3 \notin C /\ L + 2 \in C
  <2>1. \A i \in C : i <= L + 2
    BY <1>2
  <2> QED
    BY <1>2, <2>1
<1>3. CASE L + 3 \notin C /\ L + 2 \notin C /\ L + 1 \in C
  <2>1. \A i \in C : i <= L + 1
    BY <1>3
  <2> QED
    BY <1>3, <2>1
<1>4. CASE L + 3 \notin C /\ L + 2 \notin C /\ L + 1 \notin C
  <2>1. PICK c \in C : TRUE
    OBVIOUS
  <2>2. \A i \in C : i <= L
    BY <1>4
  <2>3. \A i \in C : i <= c
    BY <2>1, <2>2
  <2> QED
    BY <2>1, <2>3
<1> QED
  BY <1>1, <1>2, <1>3, <1>4

\* Of the steps that came with one number, the last one is the row: at most one of
\* them is a step of the walk, and the writer adds three at most.
LEMMA LastOfThem ==
    ASSUME WalkFacts, PipeInv, NEW n, Came(n) # {}
    PROVE  \E j \in Came(n) : \A i \in Came(n) : i <= j
<1>1. Len(steps) \in Nat
  BY RunType DEF PipeInv
<1>2. ASSUME NEW j \in Came(n)
      PROVE  j \in Nat /\ j <= Len(steps) + 3 /\ (j <= Len(steps) => j = n)
  <2>1. j \in 1..Forwarded /\ NumberOf(j) = n
    BY <1>2 DEF Came
  <2> QED
    BY <2>1, ForwardedSteps
<1> QED
  BY <1>1, <1>2, HighestOfFew

\* The panel never says that the work is further than it is (steps.ts:77-108).
LEMMA StageIsKept ==
    ASSUME WalkFacts, PipeInv
    PROVE  StageIsTheWork
<1> SUFFICES ASSUME at \in Stage, Understood
             PROVE  /\ RunStage = "writing" => phase = "done"
                    /\ RunStage = "done" => phase = "done" /\ turn = "done"
                                            /\ appended = Len(added)
                    /\ (at = "run" /\ CaughtUp
                          /\ \E j \in DOMAIN steps : steps[j].kind = "engine")
                         => RunStage = "writing"
                    /\ \A n \in DOMAIN MergedSteps :
                         /\ RunStage \in {"writing", "done"} => MergedSteps[n] # Pending
                         /\ n <= Len(steps) => MergedSteps[n] \in {Pending, n}
  BY DEF StageIsTheWork
<1>1. /\ RunSteps \in Nat /\ Forwarded \in Nat /\ Forwarded <= RunSteps
      /\ Len(steps) \in Nat /\ Len(added) \in Nat /\ steps \in Seq(Step)
      /\ appended \in Nat /\ Len(Plan) \in Nat /\ DOMAIN Plan = 1..Len(Plan)
  <2>1. /\ RunSteps \in Nat /\ Forwarded \in Nat /\ Forwarded <= RunSteps
        /\ Len(steps) \in Nat /\ Len(added) \in Nat /\ steps \in Seq(Step)
    BY RequestFacts, RunType DEF PipeInv, RequestInv, WalkFacts, TypeOK
  <2>2. appended \in Nat
    BY <2>1 DEF PipeInv, WriterInv
  <2>3. Plan \in Seq(PlannedCall)
    BY ReadingType DEF WalkFacts, TypeOK
  <2> QED
    BY <2>1, <2>2, <2>3
<1>2. \A kind : SentKind(kind) <=> KindsSent(kind) # {}
  BY DEF SentKind, KindsSent
<1>3. ASSUME RunStage = "writing"
      PROVE  \E j \in 1..Forwarded : KindOf(j) = "engine"
  BY <1>3 DEF RunStage
<1>4. RunStage = "writing" => phase = "done"
  BY <1>3, EngineIsLast
<1>5. ASSUME RunStage = "done"
      PROVE  Final
  <2>1. KindsSent("answer") # {}
    BY <1>2, <1>5 DEF RunStage
  <2> QED
    BY <2>1 DEF PipeInv, SentInv, Final, Stage
<1>6. RunStage = "done" => phase = "done" /\ turn = "done" /\ appended = Len(added) /\ CaughtUp
  BY <1>5 DEF PipeInv, OrderInv
<1>7. ASSUME at = "run", CaughtUp, NEW j \in DOMAIN steps, steps[j].kind = "engine"
      PROVE  RunStage = "writing"
  <2>1. j \in 1..Forwarded /\ j <= Len(steps)
    BY <1>1, <1>7 DEF CaughtUp, RunSteps
  <2>2. KindOf(j) = "engine"
    BY <1>7, <2>1 DEF KindOf
  <2>3. ~SentKind("answer") /\ SentKind("understanding")
    BY <1>2, <1>7 DEF PipeInv, SentInv, Stage
  <2> QED
    BY <2>1, <2>2, <2>3 DEF RunStage
<1>8. ASSUME NEW n \in DOMAIN MergedSteps, RunStage \in {"writing", "done"}
      PROVE  MergedSteps[n] # Pending
  <2>1. Came(n) # {}
    <3>1. CASE n \in DOMAIN Plan
      <4>1. phase = "done" /\ WholePlanShown
        BY <1>4, <1>6, <1>8 DEF WalkFacts, WalkInv
      <4>2. Len(Plan) <= Len(steps)
        BY <1>1, <4>1 DEF WholePlanShown
      <4>3. Len(Plan) <= Forwarded
        <5>1. CASE RunStage = "writing"
          <6>1. PICK j \in 1..Forwarded : KindOf(j) = "engine"
            BY <1>3, <5>1
          <6>2. Len(Plan) < j
            BY <6>1, EngineIsLast
          <6> QED
            BY <1>1, <6>2
        <5>2. CASE RunStage = "done"
          BY <1>1, <1>6, <4>2, <5>2 DEF CaughtUp, RunSteps
        <5> QED
          BY <1>8, <5>1, <5>2
      <4>4. n \in 1..Forwarded /\ n <= Len(steps)
        BY <1>1, <3>1, <4>2, <4>3
      <4>5. NumberOf(n) = n
        BY <4>4 DEF NumberOf
      <4> QED
        BY <4>4, <4>5 DEF Came
    <3>2. CASE \E j \in 1..Forwarded : NumberOf(j) = n
      BY <3>2 DEF Came
    <3> QED
      BY <3>1, <3>2, RowsAreSteps
  <2>2. \E j \in Came(n) : \A i \in Came(n) : i <= j
    BY <2>1, LastOfThem
  <2>3. MergedSteps[n] \in Came(n)
    BY <2>1, <2>2, RowsAreSteps
  <2>4. MergedSteps[n] \in 1..Forwarded
    BY <2>3 DEF Came
  <2> QED
    BY <1>1, <2>4 DEF Pending
<1>9. ASSUME NEW n \in DOMAIN MergedSteps, n <= Len(steps)
      PROVE  MergedSteps[n] \in {Pending, n}
  <2>1. CASE Came(n) = {}
    BY <2>1, RowsAreSteps
  <2>2. CASE Came(n) # {}
    <3>1. \A j \in Came(n) : j = n
      <4> SUFFICES ASSUME NEW j \in 1..Forwarded, NumberOf(j) = n PROVE j = n
        BY DEF Came
      <4>1. /\ j \in Nat
            /\ IF j <= Len(steps) THEN NumberOf(j) = j
               ELSE NumberOf(j) \in Nat /\ NumberOf(j) > Len(steps)
        BY ForwardedSteps
      <4>2. CASE j <= Len(steps)
        BY <4>1, <4>2
      <4>3. CASE ~(j <= Len(steps))
        <5>1. n > Len(steps) /\ n \in Nat
          BY <4>1, <4>3
        <5> QED
          BY <1>1, <1>9, <5>1
      <4> QED
        BY <4>2, <4>3
    <3>2. \E j \in Came(n) : \A i \in Came(n) : i <= j
      BY <2>2, LastOfThem
    <3>3. MergedSteps[n] \in Came(n)
      BY <2>2, <3>2, RowsAreSteps
    <3> QED
      BY <3>1, <3>3
  <2> QED
    BY <2>1, <2>2
<1> QED
  BY <1>4, <1>6, <1>7, <1>8, <1>9

\* The rows and the stage the panel makes of the events are those of work that was
\* done (steps.ts:77-108).
THEOREM StageIsNeverAhead == PipelineSpec => []StageIsTheWork
<1>1. WalkFacts /\ PipeInv => StageIsTheWork
  BY StageIsKept
<1> QED
  BY <1>1, RequestsWalkWell, RequestsInOrder, PTL

-----------------------------------------------------------------------------
(* What a reader was shown. *)

Reports == KindsSent("answer") \cup KindsSent("run")

\* Every run that was announced is the run as it stands, with its writer at rest -
\* also when the reader left, or the request failed, after the announcement.
AnnouncedInv == \A j \in Reports : sent[j].says = Run /\ turn = "done"

\* Nothing but the run itself is announced.
LEMMA Announcing ==
    ASSUME sent \in Seq(Event), AnnouncedInv, Run' = Run, turn' = turn,
           \/ sent' = sent
           \/ \E kind \in EventKind, step \in Nat, says \in Result \cup {Nothing} :
                /\ Yield(kind, step, says)
                /\ kind \in {"answer", "run"} => says = Run /\ turn = "done"
    PROVE  AnnouncedInv'
<1>1. CASE sent' = sent
  BY <1>1 DEF AnnouncedInv, Reports, KindsSent
<1>2. ASSUME NEW kind \in EventKind, NEW step \in Nat, NEW says \in Result \cup {Nothing},
             Yield(kind, step, says),
             kind \in {"answer", "run"} => says = Run /\ turn = "done"
      PROVE  AnnouncedInv'
  <2>1. /\ sent'[Len(sent) + 1].says = says
        /\ \A j \in 1..Len(sent) : sent'[j] = sent[j]
        /\ KindsSent(kind)' = KindsSent(kind) \cup {Len(sent) + 1}
        /\ \A other : other # kind => KindsSent(other)' = KindsSent(other)
    <3>1. sent'[Len(sent) + 1] = [kind |-> kind, step |-> step, says |-> says]
      BY <1>2, Sending
    <3> QED
      BY <1>2, <3>1, Sending
  <2>2. Reports \subseteq 1..Len(sent)
    BY KindsAreFinite DEF Reports
  <2>3. Reports' \subseteq Reports \cup
                  (IF kind \in {"answer", "run"} THEN {Len(sent) + 1} ELSE {})
    BY <2>1 DEF Reports
  <2> QED
    BY <1>2, <2>1, <2>2, <2>3 DEF AnnouncedInv
<1> QED
  BY <1>1, <1>2

\* No step of a request takes back or adds to a run that was announced.
LEMMA AnnouncedStep ==
    ASSUME WalkFacts, PipeInv, AnnouncedInv, [PipelineNext]_pvars
    PROVE  AnnouncedInv'
<1>1. /\ sent \in Seq(Event) /\ Forwarded + 1 \in Nat /\ Run \in Result \cup {Nothing}
      /\ Nothing \in Result \cup {Nothing}
      /\ Final => turn = "done"
  <2>1. WriterInv /\ SettledInv /\ RequestInv
    BY DEF PipeInv, RequestInv
  <2>2. sent \in Seq(Event) /\ Forwarded \in Nat /\ Run \in Result
    BY <2>1, RequestFacts
  <2> QED
    BY <2>2 DEF PipeInv, OrderInv
<1>2. ASSUME at = "run", sent' = sent
      PROVE  AnnouncedInv'
  <2>1. Reports = {}
    BY <1>2 DEF PipeInv, SentInv, Reports
  <2>2. Reports' = {}
    BY <1>2, <2>1 DEF Reports, KindsSent
  <2> QED
    BY <2>2 DEF AnnouncedInv
<1>3. CASE Execute \/ WriteAnswer \/ AppendStep
  BY <1>2, <1>3 DEF Execute, WriteAnswer, AppendStep, stream
<1>4. ASSUME UNCHANGED << vars, written, appended >>
      PROVE  Run' = Run /\ turn' = turn
  BY <1>4, RunStays DEF written
<1>5. CASE Accept
  BY <1>1, <1>4, <1>5, Announcing DEF Accept, EventKind
<1>6. CASE Understand
  BY <1>1, <1>4, <1>6, Announcing DEF Understand, EventKind
<1>7. CASE ForwardStep
  BY <1>1, <1>4, <1>7, Announcing DEF ForwardStep, EventKind
<1>8. CASE AnswerEvent
  BY <1>1, <1>4, <1>8, Announcing DEF AnswerEvent, Answered, EventKind
<1>9. CASE ErrorEvent
  BY <1>1, <1>4, <1>9, Announcing DEF ErrorEvent, EventKind
<1>10. CASE RunEvent
  BY <1>1, <1>4, <1>10, Announcing DEF RunEvent, EventKind, Final
<1>11. CASE NoAnswerEvent \/ Record \/ UNCHANGED pvars
  <2>1. sent' = sent /\ UNCHANGED << vars, written, appended >>
    BY <1>11 DEF NoAnswerEvent, Record, RecordRun, pvars, stream
  <2> QED
    BY <1>1, <1>4, <2>1, Announcing
<1>12. CASE Escape \/ ToolEscape \/ Leave
  <2>1. /\ Run' = Run /\ turn' = turn
    BY <1>12 DEF Escape, ToolEscape, Leave, Closing, Raise, Run, RunSteps, vars, written
  <2>2. sent' = sent \/ Yield("error", 0, Nothing)
    BY <1>12 DEF Escape, ToolEscape, Leave, Closing
  <2> QED
    BY <1>1, <2>1, <2>2, Announcing DEF EventKind
<1> QED
  BY <1>3, <1>5, <1>6, <1>7, <1>8, <1>9, <1>10, <1>11, <1>12 DEF PipelineNext, Progress

\* A wording of the model reaches a reader only when the validator accepted that very
\* text, and the verdict that is shown beside an answer is about that answer: also for
\* a reader who stopped before the run came (pipeline.py:131-148, answering.py:128-159).
ShownIsChecked ==
    \A j \in Reports :
        /\ sent[j].says.answer.text # DataOnly => sent[j].says.answer.text \in sound
        /\ sent[j].says.status \in {"answered", "refused_missing_data"} =>
             (sent[j].says.grounded <=> sent[j].says.answer.text \in sound)

\* So what a reader was told of the model's words, the validator had accepted
\* (pipeline.py:131-148).
THEOREM ReadersSeeCheckedAnswers == PipelineSpec => []ShownIsChecked
<1>1. PipelineInit => AnnouncedInv
  <2> SUFFICES ASSUME PipelineInit PROVE AnnouncedInv
    OBVIOUS
  <2>1. sent = << >>
    BY DEF PipelineInit
  <2>2. Reports = {}
    BY <2>1 DEF Reports, KindsSent
  <2> QED
    BY <2>2 DEF AnnouncedInv
<1>2. WalkFacts /\ PipeInv /\ AnnouncedInv /\ [PipelineNext]_pvars => AnnouncedInv'
  BY AnnouncedStep
<1>3. PipeInv /\ AnnouncedInv => ShownIsChecked
  <2> SUFFICES ASSUME PipeInv, AnnouncedInv, NEW j \in Reports
               PROVE  /\ Run.answer.text # DataOnly => Run.answer.text \in sound
                      /\ Run.status \in {"answered", "refused_missing_data"} =>
                           (Run.grounded <=> Run.answer.text \in sound)
    BY DEF AnnouncedInv, ShownIsChecked
  <2>1. turn = "done"
    BY DEF AnnouncedInv
  <2>2. Text!ModelWordingWasAccepted /\ Text!VerdictIsAboutTheAnswer
    BY Zenon DEF PipeInv, WriterInv, Text!WritingInv
  <2>3. answer.text # DataOnly => answer.text \in sound
    BY <2>1, <2>2 DEF Text!ModelWordingWasAccepted, Text!Settled, Text!Plain
  <2>4. status \in {"answered", "refused_missing_data"} =>
          (verdict.grounded <=> answer.text \in sound)
    BY <2>1, <2>2, Zenon DEF Text!VerdictIsAboutTheAnswer, Text!Settled, Text!ShouldExplain
  <2> QED
    BY <2>3, <2>4, Zenon DEF Run
<1> QED
  BY <1>1, <1>2, <1>3, RequestsWalkWell, RequestsInOrder, PTL DEF PipelineSpec

-----------------------------------------------------------------------------
(* The answer a request gives.  The writer of a request writes what it would *)
(* by itself, so what its invariant says holds of every request: also of one *)
(* that is left, or that an exception ends, while its answer is written.     *)

\* The properties of the writer, as those of the request, follow from its invariant.
LEMMA WriterSays ==
    ASSUME Text!WritingInv
    PROVE  /\ ModelWordingWasAccepted /\ VerdictIsAboutTheAnswer
           /\ RewriteIsCorrected /\ TraceTellsTheAttempts
<1>1. ModelWordingWasAccepted
  BY Zenon DEF Text!WritingInv, Text!ModelWordingWasAccepted, Text!Settled, Text!Plain,
     ModelWordingWasAccepted, Writer!ModelWordingWasAccepted, Writer!Settled, Writer!Plain
<1>2. VerdictIsAboutTheAnswer
  BY Zenon DEF Text!WritingInv, Text!VerdictIsAboutTheAnswer, Text!Settled,
     Text!ShouldExplain, VerdictIsAboutTheAnswer, Writer!VerdictIsAboutTheAnswer,
     Writer!Settled, Writer!ShouldExplain
<1>3. RewriteIsCorrected
  BY Zenon DEF Text!WritingInv, Text!RewriteIsCorrected, Text!MaxAttempts, Text!Unwritten,
     RewriteIsCorrected, Writer!RewriteIsCorrected, Writer!MaxAttempts, Writer!Unwritten
<1>4. TraceTellsTheAttempts
  BY Zenon DEF Text!WritingInv, Text!TraceTellsTheAttempts, Text!Settled,
     Text!ShouldExplain, TraceTellsTheAttempts, Writer!TraceTellsTheAttempts,
     Writer!Settled, Writer!ShouldExplain
<1> QED
  BY <1>1, <1>2, <1>3, <1>4

\* What holds of the answer of every request, however it ends.
LEMMA RequestsAreWritten ==
    PipelineSpec => [](/\ ModelWordingWasAccepted /\ VerdictIsAboutTheAnswer
                       /\ RewriteIsCorrected /\ TraceTellsTheAttempts)
<1>1. PipeInv => Text!WritingInv
  BY Zenon DEF PipeInv, WriterInv
<1> QED
  BY <1>1, WriterSays, RequestsInOrder, PTL

\* Model wording is on the run of a request only when the validator accepted it.
THEOREM RequestWordingWasAccepted == PipelineSpec => []ModelWordingWasAccepted
  BY RequestsAreWritten, PTL

\* The verdict a request stores is about the text its run shows.
THEOREM RequestVerdictsAreTrue == PipelineSpec => []VerdictIsAboutTheAnswer
  BY RequestsAreWritten, PTL

\* A request asks its model again only with the correction of a rejected draft.
THEOREM RequestRewritesAreCorrected == PipelineSpec => []RewriteIsCorrected
  BY RequestsAreWritten, PTL

\* The trace of a request tells every draft and ends with the check of the answer.
THEOREM RequestTraceIsComplete == PipelineSpec => []TraceTellsTheAttempts
  BY RequestsAreWritten, PTL

=============================================================================
