# A TLA+ model of the MES AI agent

The agent answers questions about a factory from a virtual MES. A question is
read (by rules, by a language model, or by both), turned into a fixed plan of
tool calls, carried out over the database, concluded by a deterministic engine,
worded by a model that a validator may overrule, and recorded. The claim the
program makes is that *the model is never the authority*: what is shown comes
from what the tools returned, a run refuses where a figure is unknown, and the
trace, the stream and the audit row tell one story.

The modules here model that program, translated from the source under `src/`.
TLC checks them on small instances. The theorems of the eight `*Proofs` modules
are checked by TLAPS for every value of the constants: every safety property a
passing run checks is also stated by one.

## 1. The system

| Component | State it keeps | Operations | Talks to |
|---|---|---|---|
| Understanding (`agent/understanding.py`, `guard.py`, `extractor.py`, `vocabulary.py`, `entities.py`) | the reading of one question, built await by await | guard, extract, sanitise, resolve window and entities, plan | LLM client, database |
| Selector (`agent/selector.py`) | none: a pure table | `build_plan`, `missing_requirement` | understanding |
| Executor (`agent/executor.py`, `derive.py`) | the run: status, steps, missing fields, results by step | resolve bindings, invoke, stop or go on, conclude, compose | registry and tools, engine |
| Tools and registry (`tools/`) | the registry: contract and handlers | one query or calculation per tool, result in an envelope | repositories |
| Virtual MES (`db/`, `repositories/`) | the rows | reads; edited from outside | - |
| Engine and derivation (`engine/`, `agent/derive.py`) | none: pure | capacity, bottleneck, health, production analysis, and the finding made of one | tools, executor |
| Answer writing (`agent/answering.py`, `explainer.py`) | drafts, verdict, trace steps of its own | draft, check, correct once, fall back | LLM client, validator |
| Validator (`agent/validator.py`) | none: pure | every rule of `validate_answer` | answer writing |
| Pipeline and routes (`agent/pipeline.py`, `tracing.py`, `api/routes.py`) | where the generator is, events sent, the audit row | understand, execute, answer, record, yield | all of the above, the reader |
| Local LLM client (`llm/openai_compatible.py`) | the structured-output mode, shared by all requests | `structured` with negotiation and one repair | the endpoint |
| Ask panel (`frontend/components/Copilot.tsx`, `lib/sse.ts`, `lib/steps.ts`) | one React state, busy flag, the current AbortController | ask, cancel, consume a stream | `/api/ask/stream` |
| Pools, lifespan, warm-up (`db.py`, `main.py`) | two connection pools, `app.state` | startup, probe, shutdown | database, endpoint |
| Clock, windows, freshness (`timewindow.py`, `dataset.py`) | the factory's day | resolve a label, judge the dataset | tools, understanding, health route |

How they interact. A request is a chain of async generators: the route pulls
from the pipeline, the pipeline from the executor, and nothing goes on until
its consumer took the last item. The database is shared with people who edit it
while a run is reading. The LLM client is shared by concurrent requests. In the
panel, a question that was stopped is still an async function that will resume,
and it writes the same React state as the next question.

What is hard to get right, and hard to test:

- a plan whose later calls are bound to what earlier calls returned, with
  refusals, failures and calls that are not built in the middle of it;
- a calculation over three reads without a snapshot, in a factory that changes;
- yields between the steps of building a run: readers that leave, exceptions
  that escape, a log that fails;
- a second draft after a rejected one, and a model that fails at either;
- one mode field read and written around awaits of concurrent calls;
- a window that is repaired for the run *and* for the plan;
- stopped questions that resume while another is shown;
- sums of floors, ties, netting and rankings, over columns that may be NULL and
  hours that have been a double in between;
- rules of a validator that overlap, and that the program's own answers must
  pass too;
- midnight between two queries of one request, and requests that wait for the
  connections of others;
- a shutdown that finds a background task anywhere.

`PROJECT.json` lists each of these under `hazards`, at its line.

What makes each component correct:

- *executor*: the whole plan is accounted for, a refusal names what was
  required, nothing is called with an argument nothing returned, nothing is
  concluded from a failed run;
- *tools over the MES*: a refusal was true and a figure had its preconditions
  when the rows were read;
- *answer writing*: the wording shown is accepted or data-only, and verdict and
  trace are about it;
- *pipeline*: stream, run and audit row agree, and a request ends;
- *understanding*: out-of-domain questions fail closed, a stated period wins,
  run and plan mean the same dates;
- *LLM client*: the remembered mode is the best one whatever the interleaving;
- *panel*: one question is shown, busy means busy, no end is silent, and what it
  says is being waited for is;
- *engine and derivation*: the figure is the most that can be made, the cause is
  the larger one, the account of a shortfall balances, worse readings never
  rank better;
- *validator*: the program's own answers pass, and what an accepted draft says
  is so;
- *clock and windows*: labels mean the calendar's days, nothing elapsed is
  counted, nothing stale is called fresh;
- *service*: every request ends, and a stopped process holds nothing open.

## 2. The modules

| Module | Models | Its place |
|---|---|---|
| `Selector` | the plan templates, as functions of intent and entity kinds; `Handovers` is every reading understanding can hand over | extended by all below |
| `MesTools` | what each tool's envelope provides and reports missing, as a function of the rows it reads | extends `Selector` |
| `Executor` | `PlanExecutor.execute_stream`, one action per planned step | extends `MesTools` |
| `ExecutorProofs` | theorems about `Executor` | extends `Executor`, TLAPS |
| `FactoryRun` | the executor over a database that is edited between steps and between the reads of the calculation | extends `Executor` and is shown to implement it |
| `FactoryProofs` | theorems about `FactoryRun`, the refinement first | extends `FactoryRun`, `ExecutorProofs` |
| `Sorting` | Python's `sorted` | extended by `Condition`, `Shortfall` |
| `Capacity` | `availability`, `calculate_capacity`, `identify_constraint` | extended by `Grounding` |
| `Condition` | `evaluate_machine`, `rank_attention` | extended by `Grounding` |
| `Shortfall` | `analyse_production` | extended by `Grounding` |
| `Grounding` | `validate_answer` | extended by `Findings` |
| `Findings` | `derive`, `_compose_answer`, a model that rewords, and the check of either | composes the four above |
| `FindingsProofs` | theorems about the engines, the composed answer and the validator | extends `Findings`, TLAPS |
| `Wording` | the texts a question may be answered with | extended by `Answering`, `Pipeline` |
| `Answering` | `write_and_validate` | instantiated by `Pipeline` |
| `AnsweringProofs` | theorems about `Answering` | extends `Answering`, TLAPS |
| `EventStream` | **abstract**: what the event stream promises its reader | implemented by `Pipeline`, assumed by `Copilot` |
| `Pipeline` | `AgentPipeline.stream` and the routes, with executor and writer inside | extends `Executor`, `Wording`; instantiates `Answering`; refines `EventStream` |
| `PipelineProofs` | theorems about `Pipeline`, its two refinements among them | extends `Pipeline`, `ExecutorProofs`; instantiates `AnsweringProofs` |
| `UnderstandingPipeline` | guard, extraction, windows, entities, plan | extends `MesTools` |
| `StructuredOutput` | `OpenAICompatibleLLMClient.structured`, concurrent calls | stands alone |
| `ReadingProofs` | theorems about `UnderstandingPipeline` and `StructuredOutput` | extends both, TLAPS |
| `Copilot` | `ask` and `cancel` with the stream reader | instantiates `EventStream` per question |
| `CopilotProofs` | theorems about `Copilot` | extends `Copilot`, TLAPS |
| `Windows` | the labels of `resolve_window` as days, `assess` | extended by `Service` |
| `Service` | `lifespan`, the pools, and requests as chains of queries under a clock | extends `Windows` |
| `ServiceProofs` | theorems about `Service` | extends `Service`, TLAPS |

`MC*` modules give the constants their values. The definitions called *Slip*
in a module are plausible bugs: each property is shown to fail when one of them
takes the place of the definition it precedes (`mutants` in `PROJECT.json`).
They take no part in the specification.

Correspondence to the code:

- **`Executor`**. `steps` is `run.steps`, `status` is `run.status`, `missing`
  and `named` are `run.missing_fields` (a set, and the first one once a refusal
  words it). `results` holds `<<step, path>>` when the result of that step has
  a value at that path: it is all `_run_step` asks of earlier results. An
  envelope is a record of the paths it provides, the fields it reports missing
  and whether the engine can use its typed data. `Settle` is the early return
  for questions understanding settled; `SkipUnbound`, `NotBuilt`, `Invoke`
  (`Return` or `Refuse`), `Fail` and `Raise` are the outcomes of one step, with
  `_mark_remaining_skipped` inside those that stop; `Conclude` is derivation,
  the merge of missing fields and `_compose_answer`.
- **`FactoryRun`**. `Edit` changes the database; `ReadRow` is one of the
  queries of `calculate_production_capacity`; the other tools read at one
  moment. Locks play no part: the repositories run each query on a connection of
  its own. `seen` keeps the rows each call read, for the properties.
- **`Capacity`, `Condition`, `Shortfall`**. Columns are whole numbers of their
  smallest unit. Quotients are compared and floored as the code does: integer
  division, half up (`HalfUp`) where it quantises, half to even (`Percent`) where
  it formats. The one double of the path, planned minus maintenance, is its
  decimal value and the side of it on which the double lies (`Rounding`, a
  constant: what a subtraction of doubles does is not this program's doing).
  `Key`, `Outranks` and `Ranking` are the sort of `rank_attention`, ties in the
  order of the rows. `Sorted` is the one sequence of a set's elements in which
  each comes before those it goes before: a stable sort, once the order settles
  ties by place.
- **`Grounding`**. A text is what the validator's patterns find in it: figures with
  the unit beside them, names, what it calls a limit or a cause. Each rule is one
  disjunct of `MissingClaims` or `WrongClaims`, or `Unsupported`, `Strangers`,
  `labels`; figures are in hundredths and `Near` is the tolerance. `NUMBER` reads no
  sign, so neither does `Figure`.
- **`Findings`**. `Conclude` is `derive` and `_compose_answer`; `Propose` is a model
  that puts figures, names and causes of the run together as it pleases
  (`NamingDrafts`, `BlamingDrafts`, `HealthDrafts`, `AnalysisDrafts`); `Validate` is
  the check of whichever text is to be shown. `CapacityFacts`, `HealthFacts` and
  `HistoryFacts` say what the columns' CHECKs, and the refusals before a
  calculation, leave of what the tools return.
- **`Answering`**. `prompts`, `drafts` and `added` are the requests made of the
  model, what it wrote and the trace steps returned. The validator is a set
  `sound`, chosen once per run: `validate_answer` is a function of the text and
  the run, so two looks at one text agree, and nothing else of it is assumed here
  (its rules are in `Grounding`).
- **`Pipeline`**. `at` is where the generator stands, `sent` the events yielded,
  `audit` the rows with this run's id. `Leave` is the reader closing the stream
  at any yield or await; a cancelled INSERT may still commit. `Escape` and
  `ToolEscape` are exceptions nobody catches; the SSE route turns them into a
  last event. `MergedSteps` and `RunStage` are what the panel computes from the
  events that went out.
- **`UnderstandingPipeline`**. What the regular expressions find in a question
  is a fact of the question (a record); what a model answers is any member of
  `Replies`, or an `LLMError`, which shows as the guard failing closed and as
  extraction by rules with a model configured. `window` is the label whose
  dates the run reports, `planned` the label the tools are handed.
- **`StructuredOutput`**. `mode` is the client's `_mode`; `left[c]` the modes a
  call has not been refused, `found[c]` what it read when it began, `asked[c]`
  its requests. Each action of a call is what happens between two awaits. What
  an endpoint supports (`accepts`) does not change while it runs.
- **`Copilot`**. `controller` is `abortRef.current`, `stage[k]` what the k-th
  call of `ask` awaits. Each part of the React state is represented by the
  question it came from.
- **`Windows`, `Service`**. Days are numbers and day 0 is a Monday. `stage` is the
  await `lifespan` is at; `open` is every pool and client not closed yet; `warmup`
  the background task. A request is where it awaits, which of its queries is
  next, and what it has read: `Acquire` takes a connection if its pool has one,
  `QueryReturns` and `CommandFails` give it back, `Resume` is the code up to the
  next await. `counted` is the window the calculation resolved, `period` the one
  the run shows.

## 3. What TLC checks

Passing runs:

| Run | States | Shows |
|---|---|---|
| `factory_run` | 960,642 | Over every plan the selector builds, with one tool of the contract not built, while the factory is edited: a refusal names a required field its last call reported missing, an error stops the walk, an answered run is complete; the trace is the whole plan; calls use only what came back; a finding rests on a call. A run whose plan looked for a required figure while it was unknown refuses, whatever is edited afterwards; a run concludes, or refuses, only what the rows it read say. |
| `pipeline` | 72,756 | Whatever the validator and the model do, generated wording was the last draft and accepted, the verdict is about the text shown, a rewrite carries the correction of the draft before it, the trace counts the attempts. Stream, delivered run and audit row agree; an unrecorded analysed run says so; the panel's rows and stage never run ahead of the work; the stream implements `EventStream`; every request ends. |
| `structured_output` | 16,436 | Three concurrent calls over one mode field: the remembered mode is the best the endpoint accepts, a settled mode is reused, a call costs at most the walk and one repair. |
| `understanding` | 245,139 | The guard fails closed; a stated period is the run's and the plan's; run and tools use the same dates; no capacity is calculated for a question that names neither metric nor period; what is handed over is what the executor was built for. |
| `copilot` | 650,684 | The panel shows one question, is busy exactly while it is under way, never ends silently, shows every step of a delivered run, stays still when stopped, and is given back. |
| `derivation` | 334,867 | The capacity is the largest number of parts that can be shared out among the machines and the stock; the machine and the cause named are the right ones; worse readings never help; losses, gains and the net shortfall reconcile; the validator accepts the composed answers (but for two named kinds) and what a draft it accepts claims is so. |
| `service` | 250,642 | The labels mean the days of the calendar; no elapsed day is counted across midnight; a stale dataset is never called fresh; every request ends although connections run out and the database may not answer; an orderly stop leaves nothing open. |

Three links join the models, each proved: `HandsOverTemplates` shows that
understanding produces only readings in `Handovers`, the set `factory_run` starts
from; `StreamKeepsThePromise` and `PanelReadsThePromise` that the pipeline sends, and
the panel reads, a stream of `EventStream`; `FactoryImplementsExecutor` and
`RequestsWalk` that a run over a changing factory, and the run inside a request, are
runs of one and the same executor.

Runs that find a disagreement between the code and what is said of it:

| Run | Said | Done |
|---|---|---|
| `preconditions` | a precondition of the calculation that fails "returns a **refusal**, not a number" (`docs/02:143`), "so the refusal reaches the user" (`docs/09:62`) | the calculation is planned without required fields (`selector.py:122`): with no machine that may run, or no stock row, the run ends "answered" with what each step found, and names no missing field |
| `step_numbers` | a step arrives once, by number (`Copilot.tsx:93`) | after a rejected draft and a failed rewrite, draft and check have one number (`answering.py:109`) |
| `planned_quantity` | a planned quantity is routed to `production_orders` (`docs/07:94`, `vocabulary.py:314`) | by rules, "how many" matches the capacity intent first (`vocabulary.py:286`) |
| `float_hours` | "Decimal, not float" (`capacity.py:18`, `docs/09:36`) | the hours are subtracted as doubles first (`mes_repository.py:136`): 4.00 h less 2.20 h makes 35 parts of 3 minutes, not 36 |
| `cry_wolf` | the validator "must not cry wolf on an answer built from tool output" (`tests/test_validation.py:84`) | the composed answer for a machine that may not run matches none of its patterns for a negative verdict (`validator.py:407`); a breach over 100 % or ending in a half is no figure it allows |

Other disagreements met while reading, not checked by a run:

- `pipeline.py:101` records a settled question and ignores whether it worked;
  `docs/08:168` says a failure to record is noted on the run.
- `pipeline.py:111` lets an exception that is not a `ToolError` leave before
  `record_run`; `docs/08:159` says every run is written to `agent_run_log`.
- `answering.py:48` adds the fixed wording only to text of the model;
  `docs/04:134` says a maintenance answer states that it is not predictive,
  "supplied by the system if the model omits it".
- `openai_compatible.py:136` sends the repair outside the `try` that catches a
  rejected format; if an endpoint rejects there what it accepted before, the
  exception is not an `LLMError`, which `base.py:35` says every failure is.
- `openai_compatible.py:185` parses the probe's reply outside any handler: an
  endpoint whose `/models` is not JSON stops the API from starting, although
  `docs/02:109` calls running without a provider a supported state. Pools opened
  by then are not closed: the `try` of `lifespan` begins at its `yield`.
- `llm/factory.py:63` does not hand `llm_structured_mode` to the client;
  `config.py:120` says it pins the mode.
- `main.py:90, 133`: `audit_log` and `dataset_note` are decided at startup and
  read nowhere.
- `understanding.py:71` says `degraded=False` for a question the guard rejected
  because the model failed; `schemas.py:350` says it is true when no model was
  available.
- `understanding.py:98` resolves the window that is shown, `mes_tools.py:545` the
  one that is counted: across midnight they differ (from a Sunday to a Monday,
  one day is shown for "this week" and seven are counted), against `docs/06:34`.
- `mes_tools.py:328` takes an empty window label for no filter while the run
  reports this week (`understanding.py:101`); `RunAndPlanAgree` excepts it.
- `mes_tools.py:618` says there are no available machine hours whenever the
  capacity is 0, also when it is the stock that is 0.
- `steps.ts:107` names the stage "writing" after an engine step; a refused run
  has none and is worded by the model too (`steps.ts:106`).
- `extractor.py:302` says planned-quantity routing happens downstream on the
  metric; nothing routes on it.
- `extractor.py:470` asks back only a *capacity* question without period and
  metric. Where a model takes "How many A12?" for `production_orders`,
  `extractor.py:311` does not correct it, and the orders are shown without asking;
  `docs/07:91` calls every such quantity question ambiguous.
  `BareQuantityIsNotCalculated` states what does hold: no capacity is calculated for
  it, and by the rules alone nothing is.
- `analysis.py:201` sorts offsets among the causes, so the main factor of a
  shortfall can be the over-production that made up for part of it.
- `rules.py:9` says a machine with a missing reading "cannot be declared fit"; its
  verdict is that it may produce, with a note. `rule_thresholds.comparison` names
  the operator of each rule; `rules.py` compares with "at or above" always.
- `validator.py` accepts a cause that the run does not hold where the bottleneck
  has only one: only the smaller of two reasons is rejected.

### Bounds, and why they are enough

- `factory_run`: every plan of every intent with every set of entity kinds, so no
  bound on the walk. `MaxEdits = 1`: the calculation reads three times, and one
  edit makes any two of its reads, or of two steps', see different factories; the
  properties of the trace are proved for any number of edits. One call that is a
  plan by itself and stands amid others is taken as not built.
- `preconditions`: every required column is recorded, exactly one precondition of
  the calculation fails, and nothing is edited: the run shows the plan itself, not
  an interleaving.
- `pipeline`: three plans - with a binding and required fields, with neither,
  with the fixed wording - and two drafts, so that an accepted and a rejected one
  can differ.
- `step_numbers`: the writer alone, after `MaxBase = 2` steps at most, as only the
  offset matters.
- `structured_output`: three calls, so one can begin before, one during and one
  after the remembered mode is written; the modes are the code's three.
- `understanding`: questions match the patterns of at most two intents (the
  order of the table is decided by pairs), over two metrics and two entity
  kinds, and every reply of the model with a supported, an unsupported and an
  empty label.
- `copilot`: `MaxAsks = 3` (two stopped questions resuming under a third),
  `MaxSteps = 2` (a first step and a later one).
- `derivation`: up to three machines, so two can tie below or above a third and
  none, one or all be eligible; no shifts, shifts shorter and longer than the
  maintenance; cycle times that divide an hour and that do not; a stock of
  nothing, of less and of more than the machines can use. Readings at, just
  above, well above and far above each limit, and missing; one limit without a
  critical value. Two machines and two days of history, on, below and above plan.
- `service`: two questions and one health check over pools of one connection, so
  each kind of wait happens; the process starts on a Sunday, so that one midnight
  changes the day and the week; the calendar is checked for each of seven days.

`CHECK_DEADLOCK FALSE` is set everywhere: each model is of a piece of work, or of
a process, that ends.

### Fairness

- `FairPipeline`: weak fairness of `Progress`, all that the generator and its
  awaits do by themselves. A query ends by its result or the pool's command
  timeout, a model call by the HTTP client's timeout, a send because the reader
  reads or leaves. Neither `Leave` nor an exception has to happen.
- `Copilot!FairSpec`: weak fairness of each call's awaits: a fetch or a read is
  answered, ended or dropped. Nobody has to press Stop or ask again.
- `Service!FairSpec`: weak fairness of each request's own steps - the event loop
  resumes a task that can go on, a pool hands out a free connection, and
  `command_timeout` ends a command. The database owes no answer: `QueryReturns`
  need not happen. Weak fairness suffices for `Acquire` since requests are
  finitely many and each ends, which leaves a connection free for good.

The other specifications state no fairness: only safety is asked of them.

## 4. What is proved

### The walk

`ExecutorProofs` proves, for any set of plans, any tools' envelopes and any
registry:

| Theorem | Says |
|---|---|
| `TypeCorrect` | `Spec => []TypeOK` |
| `WalkIsFaithful` | `Spec => []WalkInv`, the inductive invariant of the walk |
| `PlanIsShown`, `EndsAreJustified` | the invariants `WholePlanShown`, `EndIsJustified` (from `RefusalsAreNamed`, `ErrorsStop`, `AnswersAreComplete`) |
| `CallsAreFounded` | `Spec => []CallInv`, what every result and typed result came from |
| `ArgumentsCameBack`, `FindingsAreFounded` | the invariants `CalledWithWhatCameBack`, `FindingRestsOnACall` |

Assumptions: `UnderstandingsAssumption` (a reading has a status, an intent and
a finite sequence of planned calls) and `EnvelopesAssumption` (a tool returns
envelopes). Plans need not be those of the selector: they may have any length,
and their bindings may point anywhere, even forward.

The argument. None of the properties is inductive alone: that a refusal is
explained by *one* step holds because nothing before it was fatal, which holds
because a run still walking has status "answered", which holds because a stop
records the rest of the plan and so leaves nothing to walk. `WalkInv` adds just
these two facts to the properties: `InStep` (until the end, the k-th step is the
k-th planned call) and `StoppedShort` (a run that is not answered has recorded
its whole plan). The lemma `GoingOn` then covers every call that does not stop
the walk and `ComingToAStop` every one that does. `CallInv` adds where results
come from: `ResultsAreCalls` and `TypedAreCalls` say that a recorded path, or a
typed result, belongs to a step with status "ok"; the arguments' property and the
engine's follow since recorded steps never change.

### The walk over a changing factory

`FactoryProofs` proves `FactoryImplementsExecutor`: `FactorySpec => Spec`, with the
executor's variables mapped to themselves. `Edit` and `ReadRow` are stutters of
the executor; `Read` is its `Invoke` over the envelope of the rows read, wherever
they came from (`ReadInvokes`, by `RowsAssumption`: a tool may return what it
makes of any rows). The invariant `FactoryInv` says that rows are drawn only
while a calculation is under way, and at most two before its last read; without
it a call of another tool could answer from rows of an abandoned one. The
theorems of the executor then hold of the composition at once
(`FactoryEndsJustified`, `FactoryTraceFaithful`), for every set of database states
and every `MaxEdits`.

Two theorems say more, of the plans the selector builds. `OutcomesAreWhatWasRead`
(the invariant `OutcomeIsWhatWasRead`) rests on `ReadInv`: what each step reported,
provided and left for the engine is what its tool makes of the rows it saw, whatever
they have become since. `UnknownsAreRefused` (the invariant `UnknownIsRefused`) needs
in addition `SkipInv`: in a run that answers, a call was passed over only because it
waits for a value no step provided, or is not built, and a refusal composes the
refusal. The argument: a template that needs a column plans the look-up that requires
it (`TemplatesLookUp`), and if the run does not end in a refusal that call was made
(`AnsweredCalls`) and found the column (`LookUpsFound`), so it was known then. Edits
do not matter to it, since it speaks of what the look-up saw. Both assume
`Understandings \subseteq Handovers`, which `HandsOverTemplates` shows of
understanding and `HandoversAreReadings` unfolds into well-formed plans; the second
assumes that the two tools whose fields a capacity plan requires are built, as they
are (`mes_tools.py`): with one of them missing the plan goes on without asking. That a
run refuses *only* what is unknown is a part of `OutcomeIsWhatWasRead`; that the other
two preconditions refuse is not so (`preconditions`).

### The answer

`AnsweringProofs` proves, for any set of drafts, any verdicts of the validator
and any number of steps before the writer's:

| Theorem | Says |
|---|---|
| `AnsweringTypeCorrect` | `AnsweringSpec => []AnsweringTypeOK` |
| `AnswerIsFounded` | `AnsweringSpec => []WritingInv`, the inductive invariant |
| `WordingWasAccepted`, `VerdictsAreTrue`, `RewritesAreCorrected`, `TraceIsComplete` | the invariants `ModelWordingWasAccepted`, `VerdictIsAboutTheAnswer`, `RewriteIsCorrected`, `TraceTellsTheAttempts`, of the writer by itself |

Assumption: `TextsAssumption` (the data-only answer is not a draft). The argument: most of the properties speak of a
settled answer and say nothing while it is written, so they are not inductive.
`Drafting` is what they need of the time before: every draft so far was
rejected, the data-only answer stands, and requests, drafts and trace steps are
of one length. There are then three ways a step can go: a draft is rejected
(`Rejecting`), accepted (`Accepting`), or the data-only answer is left standing
(`StandingByTheData`: no model, a model that failed, no attempt left).

### The request

`PipelineProofs` proves, for any plans, envelopes, drafts and verdicts, any log and a
reader who may leave anywhere:

| Theorem | Says |
|---|---|
| `RequestsWalk` | `PipelineSpec => Spec`: a request carries out the executor's walk |
| `RequestsInOrder` | `PipelineSpec => []PipeInv`, the inductive invariant |
| `TrailIsTheRun`, `StreamTellsTheRun`, `StageIsNeverAhead` | the invariants `AuditIsTheRun`, `StreamIsTheRun`, `StageIsTheWork` |
| `RequestWordingWasAccepted`, `RequestVerdictsAreTrue`, `RequestRewritesAreCorrected`, `RequestTraceIsComplete` | the writer's four invariants, inside a request |
| `StreamKeepsThePromise` | the refinement `KeepsThePromise`: `PipelineSpec` implements `EventStream` |
| `ReadersSeeCheckedAnswers` | the model's wording, in any event that went out, was accepted, and the flag beside an answer is the verdict on it |

Assumptions: those of the executor and the writer, and `LogWritesAssumption`. The argument composes. `RequestsWalk` gives a request every
invariant of the walk; `WriterInv` carries `WritingInv` of `Answering`, instantiated
at the length of the trace, and says that it starts only when the walk is done; the writer's four properties follow
from it, since a step of anything else leaves the writer as it is. What
remains is the generator's own: `OrderInv` (where the run is final, it is written,
appended and forwarded), `SentInv` (what was last sent, by where the generator
stands; events numbered without a gap; after the run, nothing) and `AuditInv` (no row
before the run is final, and that run's row only). None is inductive without the
others: a row is the run because nothing is added after `record`, which holds because
all of the writer's steps were appended before it. The promise is then one case per
action: one event that may come next, a break, or a stutter.

### The panel

`CopilotProofs` proves, for any number of questions and of steps:

| Theorem | Says |
|---|---|
| `PanelInOrder` | `Spec => []PanelInv`, the inductive invariant |
| `OneIsShown`, `BusyIsExact`, `NoEndIsSilent`, `PanelShowsTheStream` | the invariants `OneQuestionShown`, `BusyIsTheWork`, `NoSilentEnd`, `PanelIsTheStream` |
| `StoppedStays` | the action property `StoppedIsStill` |
| `PanelReadsThePromise` | each question's stream is one of `EventStream` |

Assumption: `BoundsAssumption`. The heart of the invariant is `OneIsLive`: a call that
awaits something and was not stopped is the one the controller belongs to, the one
asked last, and there is one exactly while the panel is busy. Each property follows
from it with `ShownIsSent`; that a stopped call which resumes changes nothing is its
other half. With `StreamKeepsThePromise` this joins the two ends: the pipeline sends
what the panel is proved about.

### The reading, and the calls it is made with

`ReadingProofs` proves, for any questions of the type, any replies of a model, and any
number of concurrent structured calls to any endpoint:

| Theorem | Says |
|---|---|
| `ReadingInOrder` | `Spec => []ReadingInv`, the inductive invariant of understanding |
| `ReadingFailsClosed`, `StatedPeriodIsKept`, `DatesAgree`, `NoCapacityIsGuessed`, `HandsOverTemplates` | the invariants `FailsClosed`, `StatedPeriodWins`, `RunAndPlanAgree`, `BareQuantityIsNotCalculated`, `HandsOver` |
| `CallsInOrder` | `CallsSpec => []CallsInv`, the inductive invariant of the negotiation |
| `RemembersTheBest`, `NothingIsRenegotiated`, `CallsAreShort` | the invariants `ModeIsBest`, `SettledIsReused`, `WalkIsShort` |

Assumptions: `QuestionsAssumption`, `RepliesAssumption`. The properties of a reading
are about its end; `GuardIsFirst`, `WindowIsRead` and `NotAmbiguous` say of each stage
what it leaves for the next. The negotiation needs `Descending`: a call that awaits a
reply is at the j-th mode of the list because the endpoint accepts none before it. So
whichever call writes the shared field, and in whatever order, it writes the first
accepted mode, and what a call found there when it began was that mode too.

### The service

`ServiceProofs` proves, for any requests, labels, pool sizes and number of
midnights:

| Theorem | Says |
|---|---|
| `StopsClean` | `Spec => []NothingLeftOpen` |
| `CountsItsDays` | `Spec => []Calendar`, the invariant of questions and days |
| `ElapsedDaysAreNotCounted`, `LabelsAreTheCalendar` | the invariants `NothingElapsedIsCounted`, `WindowsAreTheCalendar`, from any first day |
| `FreshMeansYesterday` | the action property `FreshIsNeverStale` |

Assumptions: `PoolsAssumption`, `RequestsAssumption` (a request is to one address) and
`DaysAssumption` (days are integers). `FreshMeansYesterday` assumes besides that no
production is recorded for a day still to come when the process starts, as the seed
records none (`seed.sql:227`): a new layout would otherwise take the history back
behind what a check has read. `Closing` ties what is open to where `lifespan` is: the
client of the warm-up is open only while the task runs or is being cancelled, and the
loop ends after it. `Calendar` keeps, for each question, that its day is not after
today and its period is its label's then; that no window of the present begins before
its day (`NothingBefore`) is arithmetic on weekdays. `Behindhand` says that what a
check has read of the history is at most what it holds now, which is before today: an
answer "fresh" then has no choice but yesterday.

### The findings

`FindingsProofs` proves, for any number of machines, any rows, readings and limits the
columns allow:

| Theorem | Says |
|---|---|
| `FindingsInOrder` | `Spec => []FindingInv`: finding, text and verdict belong together |
| `CapacityIsMost`, `LimitIsRight` | the invariants `CapacityIsTheMost`, `ConstraintIsRight` |
| `NoPartTooMany` | with any rounding of the hours: the figure can be made, and falls short of the most by one part for each eligible machine at most |
| `AccountBalances` | the invariant `LossesReconcile` |
| `WorseNeverHelps` | the invariant `WorseIsNeverBetter` |
| `AcceptedMeansSo` | the invariant `AcceptedIsSo` |
| `FallingBackIsSafe` | the invariant `DataOnlyIsAccepted` |

Assumptions: `MachineAssumption` and `CasesAssumption`. The latter holds two
statements the schema alone does not: a double of hours in hundredths lies on its
decimal or on one side of it, and a warning limit is more than 0 and at most 100.00.
The code keeps four decimals of a breach, a fraction of that limit; above 100.00 two
readings that differ by a hundredth can share them, the sort then goes by the order of
the rows, and the hotter machine can come second: `WorseIsNeverBetter` is false there.
The limits the schema inserts are 70 °C and 2.5 mm/s.

The state machine is small and the work is in the engines, whose sums, maxima and
sorts range over sets of any size. Induction over data is out of reach, so what is
claimed of all finite sets is proved by a smallest counterexample (`Smallest`, from
the library's theorem that strict inclusion is well founded on them): of the subsets
for which it fails take one that contains no other, and leave out an element. That a
set can be sorted by a strict order (`CanBeSorted`), that a sum splits over a union
(`SumOfUnion`) and over the machines are such lemmas; every engine rests on them.

- *Capacity*: a machine's floor is the most it can make in its time, so a share-out of
  one more part would exceed some machine's floor or the stock. A double just below
  its decimal costs a floor one part at most and one just above gives it none
  (`SharesNearlyFit`): what `float_hours` finds never promises too much.
- *Constraint*: the machine named is alone at the bottom; the two causes are compared
  by the hours that undoing each gives back.
- *Account*: each machine's delta is counted once, by its sign, and the offset factor
  is the sum of the positive ones.
- *Ranking*: breaches are counted per level, and the relative breach is strictly
  monotone in the reading up to the limit above.
- *Accepted drafts*: each clause of `CapacityIsSo`, `HealthIsSo`, `HistoryIsSo` is
  matched with the rule of the validator whose silence implies it.
- *The composed answer*: `PlainTextPasses` lists what a text must avoid to pass every
  rule, and each form of `DataOnly` is shown to avoid it, but for `MisreadByPatterns`.

### What is only model-checked

- Liveness: `RequestEnds`, `BusyEnds` and `EveryRequestEnds` are beyond the prover.
- `CapacityIsTheMost` and `ConstraintIsRight` are stated, and proved, where the
  subtraction of hours is exact; `float_hours` shows what happens where it is not, and
  `NoPartTooMany` bounds it for the capacity. Which machine is then named is open.
- The five properties that fail are shown to fail by TLC alone.

## 5. What is not modelled

- *Text*: prompts, titles, formula strings, formatting, and the regular
  expressions of the extractor and the validator, which are present as what they
  find. A pattern that finds too much or too little is outside the model, but for
  the two kinds of answer that `MisreadByPatterns` names.
- *SQL*: queries are reads of rows; joins and aggregates are modelled by what the
  repository makes of them. Doubles are modelled only where they decide a figure.
- *SSE blocks and JSON*: the parsing of chunks; `Copilot` sees whole events.
  Rendering, the proxy, and the scripts that drive the system from outside.
- *Process faults*: a crash of the backend loses its requests and nothing else,
  since nothing but the audit row is written; the panel sees a dropped stream,
  which `Copilot` has.
- The Anthropic client is a single request without state.
- *Smaller simplifications*: `Condition` takes both rows of `rule_thresholds` as
  present; the warm-up closes its client in one step; a question of `Service`
  resolves its window when it is asked; stock figures of seven digits and more,
  which `:g` writes as powers of ten, do not occur.

## 6. The plan

Written and checked in this order: `Selector`, `MesTools`, `Executor`,
`ExecutorProofs`, `FactoryRun`, `Wording`, `Answering`, `AnsweringProofs`, `EventStream`,
`Pipeline`, `StructuredOutput`, `UnderstandingPipeline`, `Copilot`, `Capacity`,
`Condition`, `Shortfall`, `Sorting`, `Grounding`, `Findings`, `Windows`, `Service`,
`FactoryProofs`, `ServiceProofs`, `CopilotProofs`, `ReadingProofs`,
`PipelineProofs`, `FindingsProofs`.

Next, by what they would show:

1. That a run over a changing factory *and* inside a request keeps both sets of
   theorems at once: the composition of `FactoryRun` and `Pipeline`.
2. Warning limits above 100.00: a bound on how far apart two readings must be for
   `WorseIsNeverBetter` to rank them.
3. The parser of `sse.ts` over chunks cut anywhere, against the events sent.
