------------------------------ MODULE Executor ------------------------------
(***************************************************************************)
(* PlanExecutor.execute_stream (backend/app/agent/executor.py): one walk   *)
(* over the plan that understanding produced, and the run it leaves.       *)
(*                                                                         *)
(* One action is one planned step, from resolving its bindings to folding  *)
(* its envelope into the run; the database may be in a different state at  *)
(* every step, so an invoked tool may return any of its envelopes.         *)
(***************************************************************************)
EXTENDS MesTools

CONSTANTS
    Understandings,   \* what the understanding layer may hand over
    Envelopes,        \* Envelopes[t]: what tool t may return
    Implemented       \* the tools registered with a handler

UnderstandingStatus == {"understood", "clarify", "rejected_out_of_domain"}

Understanding == [status : UnderstandingStatus,
                  intent : Intent,
                  plan   : Seq(PlannedCall)]

ASSUME UnderstandingsAssumption == Understandings \subseteq Understanding

ASSUME EnvelopesAssumption == Envelopes \in [Tool -> SUBSET Envelope]

VARIABLES
    understanding,  \* the reading of the question and its plan
    phase,          \* "walk" until the run is finished, or an error escaped
    steps,          \* run.steps
    results,        \* <<step, path>>: a later binding can follow path there
    typed,          \* tools with a typed result the engine can read
    status,         \* run.status
    missing,        \* run.missing_fields, as a set
    named,          \* run.missing_fields[0] once the run refuses
    composed        \* what the deterministic answer reports

vars == << understanding, phase, steps, results, typed, status, missing,
           named, composed >>

StepStatus == {"ok", "not_implemented", "skipped", "failed"}

RunStatus == {"answered", "clarify", "refused_missing_data",
              "rejected_out_of_domain", "error"}

Step == [step    : Nat,
         kind    : {"tool", "engine"},
         status  : StepStatus,
         missing : SUBSET Field,
         bound   : SUBSET Nat]       \* resolved_bindings, by position

None == "none"

\* What run.answer is about (_compose_answer).
Composed == {None, "fixed_wording", "refusal", "failure", "finding",
             "summaries", "nothing_retrieved"}

TypeOK ==
    /\ understanding \in Understandings
    /\ phase \in {"walk", "done", "raised"}
    /\ steps \in Seq(Step)
    /\ results \subseteq Nat \X Path
    /\ typed \subseteq Tool
    /\ status \in RunStatus
    /\ missing \subseteq Field
    /\ named \in Field \cup {None}
    /\ composed \in Composed

-----------------------------------------------------------------------------

Plan == understanding.plan

Understood == understanding.status = "understood"

\* Every stop records the rest of the plan, so the walk is over exactly when
\* each planned call has its step.
Walking == phase = "walk" /\ Understood /\ Len(steps) < Len(Plan)

Position == Len(steps) + 1

Current == Plan[Position]

\* Slip: the bindings are not looked up before the call.
ResolvedBlindly(bindings) == DOMAIN bindings

\* The bindings the loop of _run_step resolves before one is absent.
Resolved(bindings) ==
    { j \in DOMAIN bindings :
        \A k \in 1..j : << bindings[k].from, bindings[k].path >> \in results }

AllResolved == Resolved(Current.bindings) = DOMAIN Current.bindings

Supplied == Current.args
              \cup { Current.bindings[j].parameter : j \in DOMAIN Current.bindings }

Traced(at, st, lacking) ==
    [step |-> at, kind |-> "tool", status |-> st, missing |-> lacking,
     bound |-> Resolved(Current.bindings)]

\* _mark_remaining_skipped: a step for every planned call after this one.
Skipped(at) ==
    [step |-> at, kind |-> "tool", status |-> "skipped", missing |-> {}, bound |-> {}]

\* Slip: the skipped steps are numbered from one again.
RestRenumbered == [j \in 1..(Len(Plan) - Position) |-> Skipped(j)]

RestSkipped == [j \in 1..(Len(Plan) - Position) |-> Skipped(Position + j)]

\* Slip: `all` for `any` - one missing required field does not stop the run.
FatalWhenAllMissing(call, lacking) ==
    IF call.requires \subseteq lacking THEN call.requires ELSE {}

\* _fatal_missing: only what this call declared as required stops the run.
Fatal(call, lacking) == lacking \cap call.requires

-----------------------------------------------------------------------------
(* Outcomes the understanding layer already settled: no tool may run. *)

Settle ==
    /\ phase = "walk" /\ ~Understood
    /\ phase' = "done"
    /\ status' = understanding.status
    /\ composed' = "fixed_wording"
    /\ UNCHANGED << understanding, steps, results, typed, missing, named >>

(* A value a binding was to provide is absent: the step is skipped, and the *)
(* walk goes on.                                                            *)
SkipUnbound ==
    /\ Walking /\ ~AllResolved
    /\ steps' = Append(steps, Traced(Position, "skipped", {}))
    /\ UNCHANGED << understanding, phase, results, typed, status, missing,
                    named, composed >>

Invocable == Walking /\ AllResolved

NotBuilt ==
    /\ Invocable /\ Current.tool \notin Implemented
    /\ steps' = Append(steps, Traced(Position, "not_implemented", {}))
    /\ UNCHANGED << understanding, phase, results, typed, status, missing,
                    named, composed >>

Callable ==
    /\ Invocable
    /\ Current.tool \in Implemented
    /\ RequiredParams(Current.tool) \subseteq Supplied

Keep(env) ==
    /\ results' = results \cup ({Position} \X env.provides)
    /\ typed' = IF env.usable THEN typed \cup {Current.tool} ELSE typed

Return(env) ==
    /\ Callable
    /\ Fatal(Current, env.missing) = {}
    /\ Keep(env)
    /\ steps' = Append(steps, Traced(Position, "ok", env.missing))
    /\ UNCHANGED << understanding, phase, status, missing, named, composed >>

(* A required field came back missing: the run refuses and names it. *)
Refuse(env) ==
    /\ Callable
    /\ Fatal(Current, env.missing) # {}
    /\ Keep(env)
    /\ steps' = Append(steps, Traced(Position, "ok", env.missing)) \o RestSkipped
    /\ status' = "refused_missing_data"
    /\ missing' = missing \cup Fatal(Current, env.missing)
    /\ named' \in Fatal(Current, env.missing)
    /\ UNCHANGED << understanding, phase, composed >>

(* ToolParameterError, WindowError or another ToolError. *)
Fail ==
    /\ Invocable /\ Current.tool \in Implemented
    /\ steps' = Append(steps, Traced(Position, "failed", {})) \o RestSkipped
    /\ status' = "error"
    /\ UNCHANGED << understanding, phase, results, typed, missing, named, composed >>

(* Anything else the tool raises - a database error, a timeout - leaves the *)
(* generator: the run is never finished.                                    *)
Raise ==
    /\ Callable
    /\ phase' = "raised"
    /\ UNCHANGED << understanding, steps, results, typed, status, missing,
                    named, composed >>

-----------------------------------------------------------------------------
(* The end of the walk: derive a finding, merge what the steps reported,    *)
(* compose the answer.                                                      *)

\* derive.py: the tool whose typed result the engine needs for this intent.
EngineReads ==
    CASE understanding.intent \in {"production_capacity", "bottleneck"}
                                                  -> {"calculate_production_capacity"}
      [] understanding.intent \in {"machine_health", "machine_status",
                                   "maintenance_attention"}
                                                  -> {"get_machine_status"}
      [] understanding.intent = "production_analysis"
                                                  -> {"get_production_history"}
      [] OTHER                                    -> {}

\* Slip: the engine runs on whatever came back, however the run ended.
DerivesAnyway == EngineReads \cap typed # {}

Derives == status = "answered" /\ EngineReads \cap typed # {}

EngineStep == [step |-> Position, kind |-> "engine", status |-> "ok",
               missing |-> {}, bound |-> {}]

Reported == UNION { steps[j].missing : j \in DOMAIN steps }

HasStep(st) == \E j \in DOMAIN steps : steps[j].status = st

ComposeAnswer ==
    CASE status = "refused_missing_data" -> "refusal"
      [] status = "error"                -> "failure"
      [] status = "answered" /\ Derives  -> "finding"
      [] status = "answered" /\ ~Derives
           /\ (HasStep("ok") \/ HasStep("not_implemented")) -> "summaries"
      [] OTHER                           -> "nothing_retrieved"

Conclude ==
    /\ phase = "walk" /\ Understood /\ Len(steps) = Len(Plan)
    /\ phase' = "done"
    /\ steps' = IF Derives THEN Append(steps, EngineStep) ELSE steps
    /\ missing' = missing \cup Reported
    /\ composed' = ComposeAnswer
    /\ UNCHANGED << understanding, results, typed, status, named >>

-----------------------------------------------------------------------------

Init ==
    /\ understanding \in Understandings
    /\ phase = "walk"
    /\ steps = << >>
    /\ results = {}
    /\ typed = {}
    /\ status = "answered"
    /\ missing = {}
    /\ named = None
    /\ composed = None

Invoke ==
    /\ Callable
    /\ \E env \in Envelopes[Current.tool] : Return(env) \/ Refuse(env)

Next == \/ Settle
        \/ SkipUnbound
        \/ NotBuilt
        \/ Invoke
        \/ Fail
        \/ Raise
        \/ Conclude

Spec == Init /\ [][Next]_vars

-----------------------------------------------------------------------------
(* Properties. *)

\* The k-th call came to grief in no way that stops a walk.
Harmless(k) ==
    steps[k].status # "failed" /\ steps[k].missing \cap Plan[k].requires = {}

StoppedAt(k) ==
    /\ k \in 1..Len(Plan)
    /\ Len(Plan) <= Len(steps)
    /\ \A j \in 1..(k - 1) : Harmless(j)
    /\ \A j \in (k + 1)..Len(Plan) : steps[j].status = "skipped"

\* A run that refuses names a field that the step it stopped at declared as
\* required and reported missing; no earlier step was fatal and nothing was
\* called after it (executor.py:122-133, and the field the answer reads at 401).
RefusalNamesItsStep ==
    status = "refused_missing_data" =>
        \E k \in 1..Len(Plan) :
            /\ StoppedAt(k)
            /\ steps[k].status = "ok"
            /\ named \in steps[k].missing \cap Plan[k].requires

\* An error run is one failed call: what ran before it was not fatal, what
\* came after it was skipped (executor.py:135-141).
ErrorStopsTheWalk ==
    status = "error" =>
        \E k \in 1..Len(Plan) : StoppedAt(k) /\ steps[k].status = "failed"

\* A run still on its way to an answer has had no failed call and no required
\* field missing, whatever its optional fields were (executor.py:221-228).
AnsweredIsComplete ==
    (Understood /\ status = "answered") =>
        \A j \in DOMAIN steps : j <= Len(Plan) => Harmless(j)

\* The three ends of a walk, each with what justifies it.
EndIsJustified == RefusalNamesItsStep /\ ErrorStopsTheWalk /\ AnsweredIsComplete

\* However the run ended, its trace shows the whole plan, each call once and
\* in order, and at most the engine's step after it (executor.py:231-249).
WholePlanShown ==
    (phase = "done" /\ Understood) =>
        /\ Len(steps) \in {Len(Plan), Len(Plan) + 1}
        /\ \A j \in DOMAIN steps :
             /\ steps[j].step = j
             /\ steps[j].kind = IF j <= Len(Plan) THEN "tool" ELSE "engine"

\* A tool was only ever called with every bound argument taken from an earlier
\* call of the same run that succeeded and provided it (executor.py:174-191,
\* 117-118).
CalledWithWhatCameBack ==
    \A j \in DOMAIN steps :
        (j <= Len(Plan) /\ steps[j].status \in {"ok", "failed", "not_implemented"}) =>
            /\ steps[j].bound = DOMAIN Plan[j].bindings
            /\ \A b \in steps[j].bound :
                 /\ Plan[j].bindings[b].from \in 1..(j - 1)
                 /\ << Plan[j].bindings[b].from, Plan[j].bindings[b].path >> \in results
                 /\ steps[Plan[j].bindings[b].from].status = "ok"

\* The engine concludes only on an answered run, from a call of this run that
\* succeeded: a refused or failed run computes nothing (executor.py:146-150).
FindingRestsOnACall ==
    (\E j \in DOMAIN steps : steps[j].kind = "engine") =>
        /\ status = "answered"
        /\ \E k \in 1..Len(Plan) :
             steps[k].status = "ok" /\ Plan[k].tool \in EngineReads

=============================================================================
