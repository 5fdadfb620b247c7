----------------------- MODULE UnderstandingPipeline -----------------------
(***************************************************************************)
(* UnderstandingPipeline.understand (backend/app/agent/understanding.py):  *)
(* the domain guard, the extraction of an intent by the model or by the    *)
(* rules, the corrections code makes to either, the resolution of entities *)
(* and the plan.  One action per await: the guard's call, the extractor's  *)
(* call, the resolver's reads.                                             *)
(*                                                                         *)
(* What the pattern tables find in a question is a fact of the question;   *)
(* what a model answers is any member of Replies, or LLMError.             *)
(***************************************************************************)
EXTENDS MesTools

CONSTANTS
    Questions,   \* the questions asked
    Replies      \* the extractions a model may return

Metric == {"max_capacity", "planned_production", "actual_production"}

\* Labels resolve_window knows, two strings it raises WindowError for, and the
\* empty string, which it takes for this week.
Named      == {"today", "this_week", "yesterday", "stated"}
Unresolved == {"malformed", "unsupported"}
Blank      == "blank"
Label      == Named \cup Unresolved \cup {Blank}

Silent == "silent"   \* the question states no period

Question == [blank   : BOOLEAN,          \* nothing but white space
             signals : BOOLEAN,          \* factory vocabulary, or an entity's shape
             denied  : BOOLEAN,          \* an out-of-domain phrase
             period  : {"stated", "malformed", Silent},
             metrics : SUBSET Metric,    \* the METRIC_PATTERNS that match
             matches : SUBSET (Intent \ {"unknown"}),   \* intents with a pattern that matches
             names   : SUBSET Entity]    \* ids found by their pattern

Reply == [intent : Intent, window : Label, ids : SUBSET Entity, ambiguous : BOOLEAN]

ASSUME QuestionsAssumption == Questions \subseteq Question

ASSUME RepliesAssumption == Replies \subseteq Reply

VARIABLES
    question,
    llm,        \* a language model is configured
    stage,      \* the await the question is at
    decidedBy,  \* verdict.decided_by
    path,       \* what the reading came from: the model or the rules
    intent,
    ids,        \* kinds of entity the extraction names
    window,     \* understanding.window, as its label
    planned,    \* the label handed to the plan
    status,
    plan

vars == << question, llm, stage, decidedBy, path, intent, ids, window, planned,
           status, plan >>

Stage == {"guard", "extract", "resolve", "done"}

Nobody == "nobody"

-----------------------------------------------------------------------------
(* DomainGuard.check *)

Decide(inDomain, by) ==
    /\ stage = "guard"
    /\ decidedBy' = by
    /\ IF inDomain
       THEN stage' = "extract" /\ UNCHANGED status
       ELSE stage' = "done" /\ status' = "rejected_out_of_domain"
    /\ UNCHANGED << question, llm, path, intent, ids, window, planned, plan >>

(* One kind of signal and not the other: vocabulary settles it. *)
Denied == question.denied /\ ~question.signals /\ Decide(FALSE, "denylist")

\* Slip: a factory word outweighs what is asked for.
AllowedByAnyWord == question.signals /\ Decide(TRUE, "allowlist")

Allowed == question.signals /\ ~question.denied /\ Decide(TRUE, "allowlist")

Contested == question.signals = question.denied

Judged ==
    /\ Contested /\ llm /\ ~question.blank
    /\ \E inDomain \in BOOLEAN : Decide(inDomain, "llm")

(* Nothing asked, no model, or LLMError: the guard fails closed. *)
FailClosed == Contested /\ Decide(FALSE, "fail_closed")

-----------------------------------------------------------------------------
(* IntentExtractor.extract and _sanitise *)

\* The specific shapes are tested before the general ones: INTENT_PATTERNS.
IntentOrder == << "production_analysis", "bottleneck", "maintenance_attention",
                  "machine_health", "production_capacity", "machine_status",
                  "production_orders", "material_inventory" >>

\* _match_intent: the first that matches.
Rules ==
    IF question.matches = {} THEN "unknown"
    ELSE IntentOrder[CHOOSE j \in DOMAIN IntentOrder :
                       /\ IntentOrder[j] \in question.matches
                       /\ \A k \in 1..(j - 1) : IntentOrder[k] \notin question.matches]

\* _settle_confusable_intent: only where the rules and a literal signal agree.
Settled(model) ==
    CASE /\ model = "production_orders" /\ Rules = "production_capacity"
         /\ "max_capacity" \in question.metrics
         /\ "planned_production" \notin question.metrics
            -> "production_capacity"
      [] /\ model \in {"machine_status", "machine_health"}
         /\ Rules = "maintenance_attention" /\ "machine" \notin question.names
            -> "maintenance_attention"
      [] OTHER -> model

DefaultWindow(i) ==
    CASE i \in {"machine_status", "machine_health", "maintenance_attention",
                "material_inventory"}  -> "today"
      [] i = "production_analysis"     -> "yesterday"
      [] OTHER                         -> "this_week"

AboutNow == {"machine_status", "machine_health", "maintenance_attention"}

\* Slip: a condition question is about now, whatever period it states.
WindowAlwaysNow(i, model) ==
    IF i \in AboutNow THEN DefaultWindow(i)
    ELSE IF question.period # Silent THEN question.period ELSE model

\* A stated period is a literal token; an unstated one of a condition is now.
WindowFor(i, model) ==
    IF question.period # Silent THEN question.period
    ELSE IF i \in AboutNow THEN DefaultWindow(i) ELSE model

\* Slip: any "how many" is taken for the capacity.
NeverAmbiguous(i) == i = "unknown"

\* _check_ambiguity
Ambiguous(i) ==
    \/ i = "unknown"
    \/ i = "production_capacity" /\ question.period = Silent /\ question.metrics = {}

\* extract_with_rules, as a reply.
ByRules ==
    [intent    |-> Rules,
     window    |-> IF question.period = Silent THEN DefaultWindow(Rules)
                                               ELSE question.period,
     ids       |-> question.names,
     ambiguous |-> Ambiguous(Rules)]

Repaired(i, label) == IF label \in Unresolved THEN DefaultWindow(i) ELSE label

Dates(label) == IF label = Blank THEN "this_week" ELSE label

\* Slip: the run's dates are repaired, and the plan keeps the model's string.
ResolveRunOnly(i, label) ==
    /\ window' = Dates(Repaired(i, label))
    /\ planned' = label

\* resolve_window, and the repair of a label it does not know.
ResolveWindow(i, label) ==
    /\ window' = Dates(Repaired(i, label))
    /\ planned' = Repaired(i, label)

(* The reading, corrected; the window; and the clarification it may need. *)
Interpret(reply, by) ==
    LET i == Settled(reply.intent) IN
    /\ stage = "extract"
    /\ path' = by
    /\ intent' = i
    /\ ids' = reply.ids \cup question.names
    /\ ResolveWindow(i, WindowFor(i, reply.window))
    /\ IF reply.ambiguous \/ (i # "unknown" /\ Ambiguous(i))
       THEN stage' = "done" /\ status' = "clarify"
       ELSE stage' = "resolve" /\ UNCHANGED status
    /\ UNCHANGED << question, llm, decidedBy, plan >>

ExtractByModel(reply) == llm /\ Interpret(reply, "llm")

(* No model, or LLMError. *)
ExtractByRules == Interpret(ByRules, "rules")

-----------------------------------------------------------------------------
(* EntityResolver.resolve, missing_requirement and build_plan *)

\* Slip: the plan stays on a question that is to be clarified.
ResolveKeepingPlan ==
    /\ stage = "resolve"
    /\ stage' = "done"
    /\ plan' = BuildPlan(intent, ids)
    /\ status' = IF MissingRequirement(intent, ids) \/ plan' = << >>
                 THEN "clarify" ELSE "understood"
    /\ UNCHANGED << question, llm, decidedBy, path, intent, ids, window, planned >>

(* An intent without its part, or with nothing to run, is a clarification. *)
Resolve ==
    /\ stage = "resolve"
    /\ stage' = "done"
    /\ plan' = IF MissingRequirement(intent, ids) THEN << >> ELSE BuildPlan(intent, ids)
    /\ status' = IF plan' = << >> THEN "clarify" ELSE "understood"
    /\ UNCHANGED << question, llm, decidedBy, path, intent, ids, window, planned >>

-----------------------------------------------------------------------------

Init ==
    /\ question \in Questions
    /\ llm \in BOOLEAN
    /\ stage = "guard"
    /\ decidedBy = Nobody
    /\ path = Nobody
    /\ intent = "unknown"
    /\ ids = {}
    /\ window = Silent /\ planned = Silent
    /\ status = "understood"
    /\ plan = << >>

Next == \/ Denied \/ Allowed \/ Judged \/ FailClosed
        \/ \E reply \in Replies : ExtractByModel(reply)
        \/ ExtractByRules \/ Resolve

Spec == Init /\ [][Next]_vars

-----------------------------------------------------------------------------
(* Properties. *)

Done == stage = "done"

AllDates == "all dates"

\* The dates a tool makes of the plan's label: get_production_orders takes the
\* empty one for no filter at all (tools/mes_tools.py:328).
DatesOf(tool) ==
    IF tool = "get_production_orders" /\ planned = Blank THEN AllDates ELSE Dates(planned)

\* No factory row is read, and nothing is planned, for a question that neither
\* its own words nor a model placed in the domain: not when a word of the
\* factory stands beside a forbidden request, and not when the model is down
\* (guard.py:3-22).
FailsClosed ==
    (stage = "resolve" \/ plan # << >>) =>
        \/ question.signals /\ ~question.denied
        \/ llm /\ decidedBy = "llm"

\* A period the question states in words the system knows is the period the run
\* and its plan are about, whatever the model answered and whatever the intent
\* would assume.
StatedPeriodWins ==
    (Done /\ status = "understood" /\ question.period = "stated") =>
        window = "stated" /\ planned = "stated"

\* The dates the run reports are the dates its tools use, and no tool is handed
\* a window it will refuse (understanding.py:100-109): only orders may be listed
\* without a filter, for an empty label.
RunAndPlanAgree ==
    \A j \in DOMAIN plan :
        "time_window" \in plan[j].args =>
            window \in Named /\ DatesOf(plan[j].tool) \in {window, AllDates}

\* A question that names neither a period nor a metric never gets a capacity
\* calculated, whoever read it and whatever code made of that reading; and where the
\* rules would take it for a capacity question, it is planned only if a model took
\* it for another intent (extractor.py:447-475 asks back a capacity alone, so a "How
\* many A12?" that a model reads as production_orders is answered with the orders).
BareQuantityIsNotCalculated ==
    (plan # << >> /\ question.period = Silent /\ question.metrics = {}) =>
        /\ intent # "production_capacity"
        /\ Rules = "production_capacity" => path = "llm"

\* What is handed over is what the executor was built for.
HandsOver ==
    Done => [status |-> status, intent |-> intent, plan |-> plan] \in Handovers

\* docs/07-agent-understanding.md:94 - "A planned quantity question is routed to
\* production_orders, not to the capacity engine", and so say
\* agent/vocabulary.py:314 and the pattern under it.
PlannedIsNotCapacity ==
    (/\ plan # << >> /\ path = "rules"
     /\ "production_orders" \in question.matches
     /\ question.metrics = {"planned_production"})
        => intent # "production_capacity"

=============================================================================
