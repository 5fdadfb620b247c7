------------------------------ MODULE Pipeline ------------------------------
(***************************************************************************)
(* AgentPipeline.stream (backend/app/agent/pipeline.py) behind /api/ask    *)
(* and /api/ask/stream (api/routes.py): one question from its acceptance   *)
(* to its run, with the executor and the answer writer inside it, the      *)
(* events a reader sees, and the row record_run leaves in agent_run_log.   *)
(*                                                                         *)
(* stream() is a generator: it goes on only when its consumer has taken    *)
(* the last event.  A reader of the SSE route may leave at any moment,     *)
(* which closes the generator where it stands; an exception nobody catches *)
(* ends it there too.                                                      *)
(***************************************************************************)
EXTENDS Executor, Wording

CONSTANTS
    LogWrites   \* outcomes an INSERT into the log can have

ASSUME LogWritesAssumption == LogWrites \subseteq BOOLEAN

VARIABLES
    channel,    \* "ask" collects the run, "stream" forwards every event
    model, sound, turn, prompts, drafts, answer, generated, verdict, added,
    appended,   \* how many of the writer's trace steps are on the run
    at,         \* where the generator is
    sent,       \* the events it has yielded
    audit,      \* the rows of agent_run_log with this run_id
    noted       \* the run's notes say it was not recorded

attention == understanding.intent = "maintenance_attention"

Writer == INSTANCE Answering WITH base <- Len(steps)

written == << model, sound, turn, prompts, drafts, answer, generated, verdict, added >>
stream  == << channel, appended, at, sent, audit, noted >>
pvars   == << vars, written, stream >>

Stage == {"accept", "understand", "run", "record", "error", "finish"}

Ended == {"closed",    \* the run was delivered
          "failed",    \* an exception left the generator
          "gone"}      \* the reader left

RunSteps == Len(steps) + appended   \* length of run.steps

Result == [status   : RunStatus,
           steps    : Nat,
           answer   : [text : Texts, wording : BOOLEAN],
           grounded : BOOLEAN]

Nothing == [kind |-> "nothing"]

Event == [kind : {"accepted", "understanding", "tool_result", "answer", "error", "run"},
          step : Nat,                     \* position in run.steps
          says : Result \cup {Nothing}]

-----------------------------------------------------------------------------

Run == [status   |-> status,
        steps    |-> RunSteps,
        answer   |-> answer,
        grounded |-> verdict.grounded]

Yield(kind, step, says) ==
    sent' = Append(sent, [kind |-> kind, step |-> step, says |-> says])

Forwarded == Cardinality({ j \in DOMAIN sent : sent[j].kind = "tool_result" })

CaughtUp == Forwarded = RunSteps

Accept ==
    /\ at = "accept"
    /\ Yield("accepted", 0, Nothing)
    /\ at' = "understand"
    /\ UNCHANGED << vars, written, channel, appended, audit, noted >>

(* The reading of the question is announced before any of it is carried out. *)
Understand ==
    /\ at = "understand"
    /\ Yield("understanding", 0, Nothing)
    /\ at' = "run"
    /\ UNCHANGED << vars, written, channel, appended, audit, noted >>

(* One step of the executor: the loop asks for the next item only after the *)
(* last one went out.                                                       *)
Execute ==
    /\ at = "run" /\ phase = "walk" /\ CaughtUp
    /\ Settle \/ SkipUnbound \/ NotBuilt \/ Invoke \/ Fail \/ Conclude
    /\ UNCHANGED << written, stream >>

\* Slip: the last step of the run is sent, not the next one.
ForwardLast ==
    /\ at = "run" /\ ~CaughtUp
    /\ Yield("tool_result", RunSteps, Nothing)
    /\ UNCHANGED << vars, written, channel, appended, at, audit, noted >>

ForwardStep ==
    /\ at = "run" /\ ~CaughtUp
    /\ Yield("tool_result", Forwarded + 1, Nothing)
    /\ UNCHANGED << vars, written, channel, appended, at, audit, noted >>

(* write_and_validate; its trace steps join the run one by one. *)
WriteAnswer ==
    /\ at = "run" /\ phase = "done" /\ CaughtUp
    /\ UNCHANGED << vars, stream >>
    /\ Writer!AnsweringNext

\* Slip: the writer's last step is left out of the run.
AppendButLast ==
    /\ at = "run" /\ turn = "done" /\ CaughtUp /\ appended < Len(added) - 1
    /\ appended' = appended + 1
    /\ UNCHANGED << vars, written, channel, at, sent, audit, noted >>

AppendStep ==
    /\ at = "run" /\ turn = "done" /\ CaughtUp /\ appended < Len(added)
    /\ appended' = appended + 1
    /\ UNCHANGED << vars, written, channel, at, sent, audit, noted >>

Answered == at = "run" /\ turn = "done" /\ CaughtUp /\ appended = Len(added)

AnswerEvent ==
    /\ Answered /\ Understood
    /\ Yield("answer", 0, Run)
    /\ at' = "record"
    /\ UNCHANGED << vars, written, channel, appended, audit, noted >>

\* Slip: any run may skip its answer event.
AnswerEventSkipped ==
    /\ Answered
    /\ at' = "record"
    /\ UNCHANGED << vars, written, channel, appended, sent, audit, noted >>

(* A rejection or a clarification has no answer event. *)
NoAnswerEvent ==
    /\ Answered /\ ~Understood
    /\ at' = "record"
    /\ UNCHANGED << vars, written, channel, appended, sent, audit, noted >>

\* Slip: what record_run returned is ignored on every path.
RecordRunIgnored(wrote) ==
    /\ at = "record"
    /\ audit' = IF wrote THEN audit \cup {Run} ELSE audit
    /\ at' = IF status = "error" THEN "error" ELSE "finish"
    /\ UNCHANGED << vars, written, channel, appended, sent, noted >>

(* record_run swallows its own failure; only the analysed path reads what it *)
(* returned.                                                                 *)
RecordRun(wrote) ==
    /\ at = "record"
    /\ audit' = IF wrote THEN audit \cup {Run} ELSE audit
    /\ noted' = (noted \/ (Understood /\ ~wrote))
    /\ at' = IF status = "error" THEN "error" ELSE "finish"
    /\ UNCHANGED << vars, written, channel, appended, sent >>

Record == \E wrote \in LogWrites : RecordRun(wrote)

ErrorEvent ==
    /\ at = "error"
    /\ Yield("error", 0, Nothing)
    /\ at' = "finish"
    /\ UNCHANGED << vars, written, channel, appended, audit, noted >>

RunEvent ==
    /\ at = "finish"
    /\ Yield("run", 0, Run)
    /\ at' = "closed"
    /\ UNCHANGED << vars, written, channel, appended, audit, noted >>

-----------------------------------------------------------------------------

\* The SSE route reports an escaped exception as a last "error" event.
Closing(how) ==
    /\ at' = how
    /\ IF how = "failed" /\ channel = "stream"
       THEN Yield("error", 0, Nothing) ELSE UNCHANGED sent
    /\ UNCHANGED << written, channel, appended, noted >>

(* Resolving entities reads the database; writing the answer calls the model. *)
(* What they raise beyond LLMError is not caught.                             *)
Escape ==
    /\ \/ at = "understand"
       \/ at = "run" /\ phase = "done" /\ CaughtUp /\ Writer!Asking
    /\ Closing("failed")
    /\ UNCHANGED << vars, audit >>

ToolEscape ==
    /\ at = "run" /\ CaughtUp
    /\ Raise
    /\ Closing("failed")
    /\ UNCHANGED audit

(* The reader of a stream goes away - Stop, a reload, a new question - and the *)
(* request is cancelled wherever it is; an INSERT under way may still commit.  *)
Leave ==
    /\ channel = "stream" /\ at \in Stage
    /\ Closing("gone")
    /\ audit' \in {audit} \cup
         (IF at = "record" /\ TRUE \in LogWrites THEN {audit \cup {Run}} ELSE {})
    /\ UNCHANGED vars

-----------------------------------------------------------------------------

PipelineInit ==
    /\ Init
    /\ channel \in {"ask", "stream"}
    /\ model \in BOOLEAN
    /\ sound \in SUBSET Texts
    /\ Writer!Unanswered
    /\ appended = 0
    /\ at = "accept"
    /\ sent = << >>
    /\ audit = {}
    /\ noted = FALSE

Progress == \/ Accept \/ Understand \/ Execute \/ ForwardStep
            \/ WriteAnswer \/ AppendStep
            \/ AnswerEvent \/ NoAnswerEvent
            \/ Record \/ ErrorEvent \/ RunEvent

PipelineNext == Progress \/ Escape \/ ToolEscape \/ Leave

PipelineSpec == PipelineInit /\ [][PipelineNext]_pvars

\* Every await of a request ends: a query by its command timeout, a model call
\* by the HTTP client's, a send because the reader reads on or leaves.
FairPipeline == PipelineSpec /\ WF_pvars(Progress)

-----------------------------------------------------------------------------
(* Properties. *)

Delivered == at = "closed"

KindsSent(kind) == { j \in DOMAIN sent : sent[j].kind = kind }

\* The stream is a view of the run and not a second account of it: once the run
\* is delivered, every step of it was forwarded once and in its order, and the
\* answer that was announced is the answer of the run (pipeline.py:12-13).
StreamIsTheRun ==
    /\ sent \in Seq(Event)
    /\ Delivered =>
        LET report == sent[Len(sent)] IN
        /\ report.kind = "run"
        /\ Cardinality(KindsSent("run")) = 1
        /\ Cardinality(KindsSent("tool_result")) = report.says.steps
        /\ \A j \in KindsSent("tool_result") :
             sent[j].step = 1 + Cardinality({ k \in KindsSent("tool_result") : k < j })
        /\ \A j \in KindsSent("answer") : sent[j].says = report.says

SentKind(kind) == \E j \in DOMAIN sent : sent[j].kind = kind

\* The j-th step of run.steps, as it was sent: its number and its kind.
NumberOf(j) == IF j <= Len(steps) THEN j ELSE added[j - Len(steps)].step

KindOf(j) ==
    IF j <= Len(steps) THEN steps[j].kind
    ELSE IF added[j - Len(steps)].tool = "explainer" THEN "llm" ELSE "engine"

Pending == 0

\* steps.ts, mergeSteps: the plan, each row replaced by the last step that came
\* with its number, and the steps beyond it.
MergedSteps ==
    LET came(n) == { j \in 1..Forwarded : NumberOf(j) = n }
        planned == IF SentKind("understanding") THEN DOMAIN Plan ELSE {}
    IN  [n \in planned \cup { NumberOf(j) : j \in 1..Forwarded } |->
            IF came(n) = {} THEN Pending
            ELSE CHOOSE j \in came(n) : \A i \in came(n) : i <= j]

\* Slip: with a step for every planned call in, the answer is being written.
RunStageByPlan ==
    IF SentKind("answer") THEN "done"
    ELSE IF ~SentKind("understanding") THEN "reading"
    ELSE IF Forwarded >= Len(Plan) THEN "writing" ELSE "querying"

\* steps.ts, runStage: what the panel says is being waited for.
RunStage ==
    IF SentKind("answer") THEN "done"
    ELSE IF ~SentKind("understanding") THEN "reading"
    ELSE IF \E j \in 1..Forwarded : KindOf(j) = "engine" THEN "writing" ELSE "querying"

\* What the panel says is being waited for is never ahead of the work: it says that
\* the answer is written only when no call or calculation is left and no planned one
\* is still listed as pending, and that it is done only when the answer is settled;
\* while the model is asked over a finding of the engine it says that the answer is
\* being written; and no step the writer adds takes the row of a call or of the
\* calculation, whatever number it carries (steps.ts:77-108).
StageIsTheWork ==
    (at \in Stage /\ Understood) =>
        /\ RunStage = "writing" => phase = "done"
        /\ RunStage = "done" => phase = "done" /\ turn = "done" /\ appended = Len(added)
        /\ (at = "run" /\ CaughtUp /\ Writer!Asking
              /\ \E j \in DOMAIN steps : steps[j].kind = "engine") => RunStage = "writing"
        /\ \A n \in DOMAIN MergedSteps :
             /\ RunStage \in {"writing", "done"} => MergedSteps[n] # Pending
             /\ n <= Len(steps) => MergedSteps[n] \in {Pending, n}

\* What the audit trail keeps is the run as it was delivered - its wording, its
\* verdict and every step of its trace - and one row of it at most, however the
\* request ended; and an analysed run that reaches its reader is in the trail or
\* says in its notes that it is not (tracing.py:47-85, pipeline.py:151-154).
AuditIsTheRun ==
    /\ audit \subseteq Result /\ Cardinality(audit) <= 1
    /\ \A row \in audit :
         /\ row.steps = Len(steps) + Len(added)
         /\ Delivered => row = sent[Len(sent)].says
    /\ (Delivered /\ Understood) => (noted <=> audit = {})

\* The model is never the final authority over what a request answers: wording of its
\* own is on the run only when it is the last draft it wrote and the validator accepted
\* that draft; in every other case the data-only answer is (answering.py:128-159).
ModelWordingWasAccepted == Writer!ModelWordingWasAccepted

\* The verdict a request stores is about the text its run shows, not about a draft
\* that was thrown away or the text a fallback replaced (answering.py:95-165).
VerdictIsAboutTheAnswer == Writer!VerdictIsAboutTheAnswer

\* The model is asked again only after the validator rejected what it wrote for this
\* run, at most once, and is told what was wrong with that draft (answering.py:93-126).
RewriteIsCorrected == Writer!RewriteIsCorrected

\* The steps the writer adds to the run's trace show each draft once and in order and
\* end with the one check of the answer shown; validation.retries is the number of
\* rewrites asked for (answering.py:101-160).
TraceTellsTheAttempts == Writer!TraceTellsTheAttempts

\* The order of the events is the one EventStream promises.
Promised == INSTANCE EventStream WITH
    last    <- IF sent = << >> THEN "none" ELSE sent[Len(sent)].kind,
    open    <- at \in Stage,
    settled <- ~Understood

KeepsThePromise == Promised!EventStreamSpec

\* A question does not stay open: it is answered, or it fails, or it is dropped.
RequestEnds == <>(at \in Ended)

=============================================================================
