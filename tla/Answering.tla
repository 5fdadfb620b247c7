------------------------------ MODULE Answering ------------------------------
(***************************************************************************)
(* write_and_validate (backend/app/agent/answering.py): the model words    *)
(* the answer, the validator reads what it wrote, one correction is        *)
(* allowed, and the data-only answer stands when the model cannot do it.   *)
(*                                                                         *)
(* A text is a member of a small set.  What the validator decides about a  *)
(* text is a fact of the run (validate_answer reads only the run, which    *)
(* does not change here): `sound` is the set of texts it accepts.          *)
(***************************************************************************)
EXTENDS Wording, Integers, Sequences, FiniteSets

MaxAttempts == 2

Unwritten == "unwritten"   \* no draft has been rejected yet

VARIABLES
    status,     \* run.status
    attention,  \* run.intent is maintenance_attention
    base,       \* len(run.steps) as the executor left it
    model,      \* a language model is configured
    sound,      \* the texts validate_answer accepts for this run
    turn,       \* "write" until write_and_validate returns
    prompts,    \* the correction carried by each request to the model
    drafts,     \* what the model wrote, in order
    answer,     \* run.answer: a text, and whether the fixed wording was added
    generated,  \* run.answer_is_generated
    verdict,    \* run.validation
    added       \* the trace steps returned to the pipeline

given == << status, attention, base, model, sound >>
writing == << turn, prompts, drafts, answer, generated, verdict, added >>
avars == << given, writing >>

ShouldExplain == status \in {"answered", "refused_missing_data"}

Verdict == [grounded : BOOLEAN, retries : 0..(MaxAttempts - 1)]

Plain(text) == [text |-> text, wording |-> FALSE]

\* _with_required_wording
Shown(text) == [text |-> text, wording |-> attention /\ text \notin Worded]

TraceStep == [step : Nat, tool : {"explainer", "grounding_validator"}]

AnsweringTypeOK ==
    /\ status \in {"answered", "refused_missing_data", "clarify",
                   "rejected_out_of_domain", "error"}
    /\ attention \in BOOLEAN /\ model \in BOOLEAN
    /\ base \in Nat
    /\ sound \subseteq Texts
    /\ turn \in {"write", "done"}
    /\ prompts \in Seq(Drafts \cup {Unwritten})
    /\ drafts \in Seq(Drafts)
    /\ answer \in [text : Texts, wording : BOOLEAN]
    /\ generated \in BOOLEAN
    /\ verdict \in Verdict
    /\ added \in Seq(TraceStep)

-----------------------------------------------------------------------------

Attempt == Len(prompts) + 1

\* Slip: the second request is the first one again.
CorrectionForgotten == Unwritten

\* The feedback of a rejected draft names what was wrong with it.
Correction == IF drafts = << >> THEN Unwritten ELSE drafts[Len(drafts)]

Explained(at) == [step |-> at, tool |-> "explainer"]

Checked(at) == [step |-> at, tool |-> "grounding_validator"]

\* Slip: what a tool returned is taken for grounded unseen.
KeepDataOnlyUnchecked(retries) ==
    /\ turn' = "done"
    /\ answer' = Plain(DataOnly)
    /\ generated' = FALSE
    /\ verdict' = [grounded |-> TRUE, retries |-> retries]

\* run.answer = deterministic, checked like any other text.
KeepDataOnly(retries) ==
    /\ turn' = "done"
    /\ answer' = Plain(DataOnly)
    /\ generated' = FALSE
    /\ verdict' = [grounded |-> DataOnly \in sound, retries |-> retries]

(* A rejection, a clarification or a failed run is already worded. *)
FixedWording ==
    /\ turn = "write" /\ ~ShouldExplain
    /\ turn' = "done"
    /\ verdict' = [grounded |-> TRUE, retries |-> 0]
    /\ UNCHANGED << given, prompts, drafts, answer, generated, added >>

NoModel ==
    /\ turn = "write" /\ ShouldExplain /\ ~model
    /\ KeepDataOnly(0)
    /\ added' = << Checked(base + 1) >>
    /\ UNCHANGED << given, prompts, drafts >>

Asking == turn = "write" /\ ShouldExplain /\ model /\ Attempt <= MaxAttempts

(* LLMError: the model refused, timed out or could not be reached.  The step *)
(* is numbered from the run alone, whatever was drafted before.              *)
ModelFails ==
    /\ Asking
    /\ prompts' = Append(prompts, Correction)
    /\ KeepDataOnly(Attempt - 1)
    /\ added' = Append(added, Checked(base + 1))
    /\ UNCHANGED << given, drafts >>

WroteStep == Explained(base + Len(added) + 1)

\* Slip: the last attempt is shown whatever the validator says.
AcceptLast(text) ==
    /\ Asking /\ (text \in sound \/ Attempt = MaxAttempts)
    /\ prompts' = Append(prompts, Correction)
    /\ drafts' = Append(drafts, text)
    /\ turn' = "done"
    /\ answer' = Shown(text)
    /\ generated' = TRUE
    /\ verdict' = [grounded |-> TRUE, retries |-> Attempt - 1]
    /\ added' = added \o << WroteStep, Checked(base + Len(added) + 2) >>
    /\ UNCHANGED given

Accept(text) ==
    /\ Asking /\ text \in sound
    /\ prompts' = Append(prompts, Correction)
    /\ drafts' = Append(drafts, text)
    /\ turn' = "done"
    /\ answer' = Shown(text)
    /\ generated' = TRUE
    /\ verdict' = [grounded |-> TRUE, retries |-> Attempt - 1]
    /\ added' = added \o << WroteStep, Checked(base + Len(added) + 2) >>
    /\ UNCHANGED given

\* Slip: a rejected draft leaves no trace.
RejectUntraced(text) ==
    /\ Asking /\ text \notin sound
    /\ prompts' = Append(prompts, Correction)
    /\ drafts' = Append(drafts, text)
    /\ UNCHANGED << given, turn, answer, generated, verdict, added >>

Reject(text) ==
    /\ Asking /\ text \notin sound
    /\ prompts' = Append(prompts, Correction)
    /\ drafts' = Append(drafts, text)
    /\ added' = Append(added, WroteStep)
    /\ UNCHANGED << given, turn, answer, generated, verdict >>

(* Every draft was rejected. *)
FallBack ==
    /\ turn = "write" /\ ShouldExplain /\ model /\ Attempt > MaxAttempts
    /\ KeepDataOnly(MaxAttempts - 1)
    /\ added' = Append(added, Checked(base + Len(added) + 1))
    /\ UNCHANGED << given, prompts, drafts >>

-----------------------------------------------------------------------------

\* Nothing written yet; Validation() says grounded until somebody checks.
Unanswered ==
    /\ turn = "write"
    /\ prompts = << >> /\ drafts = << >> /\ added = << >>
    /\ answer = Plain(DataOnly)
    /\ generated = FALSE
    /\ verdict = [grounded |-> TRUE, retries |-> 0]

\* Any run the executor can leave, on its own.
AnsweringInit ==
    /\ status \in {"answered", "refused_missing_data", "clarify",
                   "rejected_out_of_domain", "error"}
    /\ attention \in BOOLEAN /\ model \in BOOLEAN
    /\ base \in Nat
    /\ sound \in SUBSET Texts
    /\ Unanswered

Write == \E text \in Drafts : Accept(text) \/ Reject(text)

AnsweringNext == FixedWording \/ NoModel \/ ModelFails \/ Write \/ FallBack

AnsweringSpec == AnsweringInit /\ [][AnsweringNext]_avars

-----------------------------------------------------------------------------
(* Properties. *)

Settled == turn = "done"

\* The model is never the final authority: wording of its own is shown only
\* when it is the last draft it wrote and the validator accepted that draft;
\* in every other case the data-only answer is shown (answering.py:128-159).
ModelWordingWasAccepted ==
    Settled =>
        /\ generated => /\ drafts # << >>
                        /\ answer.text = drafts[Len(drafts)]
                        /\ answer.text \in sound
        /\ ~generated => answer = Plain(DataOnly)

\* The verdict of the run is about the text the run shows, not about a draft
\* that was thrown away or about the text a fallback replaced.
VerdictIsAboutTheAnswer ==
    (Settled /\ ShouldExplain) => (verdict.grounded <=> answer.text \in sound)

\* The model is asked again only after the validator rejected what it wrote,
\* at most once, and is then told what was wrong with that very draft.
RewriteIsCorrected ==
    /\ Len(prompts) <= MaxAttempts
    /\ \A k \in 1..Len(prompts) :
         IF k = 1 THEN prompts[k] = Unwritten
         ELSE prompts[k] = drafts[k - 1] /\ drafts[k - 1] \notin sound

\* The trace shows each draft once and in order and ends with the one check of
\* the answer shown; validation.retries is the number of rewrites asked for.
TraceTellsTheAttempts ==
    (Settled /\ ShouldExplain) =>
        /\ Len(added) = Len(drafts) + 1
        /\ \A k \in 1..Len(added) :
             added[k].tool = IF k = Len(added) THEN "grounding_validator" ELSE "explainer"
        /\ verdict.retries = IF model THEN Len(prompts) - 1 ELSE 0

\* frontend/components/Copilot.tsx:93 - "A step can only arrive once", by
\* number: the panel keys its rows on it.
StepNumbersDistinct ==
    \A j, k \in 1..Len(added) : added[j].step = added[k].step => j = k

=============================================================================
