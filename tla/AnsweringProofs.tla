--------------------------- MODULE AnsweringProofs ---------------------------
(***************************************************************************)
(* What holds of every answer that is written, whatever a model may write, *)
(* whatever the validator accepts and however the model fails.             *)
(***************************************************************************)
EXTENDS Answering, SequenceTheorems, TLAPS

-----------------------------------------------------------------------------
(* Type correctness. *)

\* The next request asks for what can be asked for.
LEMMA CorrectionType ==
    ASSUME AnsweringTypeOK
    PROVE  Correction \in Drafts \cup {Unwritten}
  BY DEF AnsweringTypeOK, Correction

\* The steps the writer records are trace steps.
LEMMA TraceType ==
    ASSUME NEW n \in Nat
    PROVE  Explained(n) \in TraceStep /\ Checked(n) \in TraceStep
  BY DEF Explained, Checked, TraceStep

\* A request is added to requests, a draft to drafts, a step to the trace.
LEMMA OneMore ==
    ASSUME AnsweringTypeOK, NEW text \in Drafts, NEW r \in TraceStep
    PROVE  /\ Append(prompts, Correction) \in Seq(Drafts \cup {Unwritten})
           /\ Append(drafts, text) \in Seq(Drafts)
           /\ Append(added, r) \in Seq(TraceStep)
<1>1. /\ prompts \in Seq(Drafts \cup {Unwritten}) /\ drafts \in Seq(Drafts)
      /\ added \in Seq(TraceStep)
  BY Zenon DEF AnsweringTypeOK
<1>2. Append(prompts, Correction) \in Seq(Drafts \cup {Unwritten})
  BY <1>1, CorrectionType, AppendProperties
<1>3. Append(drafts, text) \in Seq(Drafts) /\ Append(added, r) \in Seq(TraceStep)
  BY <1>1, AppendProperties
<1> QED
  BY <1>2, <1>3

\* A request within the allowed attempts counts a possible number of retries.
LEMMA Within ==
    ASSUME NEW n \in Nat, n + 1 <= MaxAttempts
    PROVE  n + 1 - 1 \in 0..(MaxAttempts - 1)
  BY DEF MaxAttempts

\* When no attempt is left, every retry was used.
LEMMA AllUsed ==
    ASSUME NEW n \in Nat, n + 1 > MaxAttempts, n <= MaxAttempts
    PROVE  n - 1 = MaxAttempts - 1
  BY DEF MaxAttempts

\* What was given stays what it was.
LEMMA GivenStays ==
    ASSUME AnsweringTypeOK, UNCHANGED given
    PROVE  /\ status' \in {"answered", "refused_missing_data", "clarify",
                           "rejected_out_of_domain", "error"}
           /\ attention' \in BOOLEAN /\ model' \in BOOLEAN
           /\ base' \in Nat
           /\ sound' \subseteq Texts
<1>1. /\ status' = status /\ attention' = attention /\ model' = model
      /\ base' = base /\ sound' = sound
  BY DEF given
<1> QED
  BY <1>1, Zenon DEF AnsweringTypeOK

\* The state of the answer writer is well typed before it begins.
LEMMA AnsweringTypeInit ==
    ASSUME AnsweringInit
    PROVE  AnsweringTypeOK
<1>1. base \in Nat
  BY DEF AnsweringInit
<1>2. answer \in [text : Texts, wording : BOOLEAN]
  BY DEF AnsweringInit, Unanswered, Plain, Texts
<1>3. verdict \in Verdict
  BY DEF AnsweringInit, Unanswered, Verdict, MaxAttempts
<1>4. /\ turn \in {"write", "done"} /\ generated \in BOOLEAN
      /\ attention \in BOOLEAN /\ model \in BOOLEAN /\ sound \subseteq Texts
      /\ status \in {"answered", "refused_missing_data", "clarify",
                     "rejected_out_of_domain", "error"}
  BY Zenon DEF AnsweringInit, Unanswered
<1>5. /\ prompts \in Seq(Drafts \cup {Unwritten}) /\ drafts \in Seq(Drafts)
      /\ added \in Seq(TraceStep)
  BY DEF AnsweringInit, Unanswered
<1> QED
  BY <1>1, <1>2, <1>3, <1>4, <1>5, Zenon DEF AnsweringTypeOK

\* Every step of the writer keeps the type, whatever the model does.
LEMMA AnsweringTypeStep ==
    ASSUME AnsweringTypeOK, [AnsweringNext]_avars
    PROVE  AnsweringTypeOK'
<1>1. base \in Nat /\ Len(added) \in Nat /\ Len(prompts) \in Nat
  BY DEF AnsweringTypeOK
<1>2. Correction \in Drafts \cup {Unwritten}
  BY CorrectionType
<1>3. /\ Checked(base + 1) \in TraceStep
      /\ Checked(base + Len(added) + 1) \in TraceStep
      /\ Checked(base + Len(added) + 2) \in TraceStep
      /\ WroteStep \in TraceStep
  BY <1>1, TraceType DEF WroteStep
<1>4. \A n \in 0..(MaxAttempts - 1) : \A b \in BOOLEAN :
        [grounded |-> b, retries |-> n] \in Verdict
  BY DEF Verdict
<1>5. ASSUME NEW n \in 0..(MaxAttempts - 1), KeepDataOnly(n)
      PROVE  /\ turn' = "done" /\ generated' = FALSE /\ verdict' \in Verdict
             /\ answer' \in [text : Texts, wording : BOOLEAN]
  <2>1. (DataOnly \in sound) \in BOOLEAN /\ DataOnly \in Texts
    BY DEF Texts
  <2>2. [text |-> DataOnly, wording |-> FALSE] \in [text : Texts, wording : BOOLEAN]
    BY <2>1
  <2> QED
    BY <1>4, <1>5, <2>1, <2>2, Zenon DEF KeepDataOnly, Plain
<1>6. CASE FixedWording
  <2>1. verdict' \in Verdict
    BY <1>6 DEF FixedWording, Verdict, MaxAttempts
  <2> QED
    BY <1>6, <2>1, GivenStays, Zenon DEF FixedWording, AnsweringTypeOK
<1>7. CASE NoModel
  <2>1. 0 \in 0..(MaxAttempts - 1)
    BY DEF MaxAttempts
  <2>2. added' \in Seq(TraceStep)
    BY <1>3, <1>7 DEF NoModel
  <2> QED
    BY <1>5, <1>7, <2>1, <2>2, GivenStays, Zenon DEF NoModel, AnsweringTypeOK
<1>8. CASE ModelFails
  <2>1. Attempt - 1 \in 0..(MaxAttempts - 1)
    <3>1. Attempt <= MaxAttempts
      BY <1>8, Zenon DEF ModelFails, Asking
    <3> QED
      BY <1>1, <3>1, Within DEF Attempt
  <2>2. prompts' \in Seq(Drafts \cup {Unwritten}) /\ added' \in Seq(TraceStep)
    <3>1. prompts' = Append(prompts, Correction) /\ added' = Append(added, Checked(base + 1))
      BY <1>8 DEF ModelFails
    <3>2. Append(added, Checked(base + 1)) \in Seq(TraceStep)
      BY <1>3, AppendProperties DEF AnsweringTypeOK
    <3>3. Append(prompts, Correction) \in Seq(Drafts \cup {Unwritten})
      BY <1>2, AppendProperties DEF AnsweringTypeOK
    <3> QED
      BY <3>1, <3>2, <3>3
  <2>3. /\ turn' = "done" /\ generated' = FALSE /\ verdict' \in Verdict
        /\ answer' \in [text : Texts, wording : BOOLEAN]
    BY <1>5, <1>8, <2>1 DEF ModelFails
  <2> QED
    BY <1>8, <2>2, <2>3, GivenStays, Zenon DEF ModelFails, AnsweringTypeOK
<1>9. CASE Write
  <2>1. PICK text \in Drafts : Accept(text) \/ Reject(text)
    BY <1>9 DEF Write
  <2>2. prompts' \in Seq(Drafts \cup {Unwritten}) /\ drafts' \in Seq(Drafts)
    <3>1. prompts' = Append(prompts, Correction) /\ drafts' = Append(drafts, text)
      BY <2>1 DEF Accept, Reject
    <3> QED
      BY <1>3, <3>1, OneMore
  <2>3. CASE Accept(text)
    <3>1. Attempt - 1 \in 0..(MaxAttempts - 1)
      BY <1>1, <2>3 DEF Accept, Asking, Attempt, MaxAttempts
    <3>2. verdict' \in Verdict
      BY <1>4, <2>3, <3>1 DEF Accept
    <3>3. added' \in Seq(TraceStep)
      BY <1>3, <2>3 DEF Accept, AnsweringTypeOK
    <3>4. answer' \in [text : Texts, wording : BOOLEAN]
      <4>1. (attention /\ text \notin Worded) \in BOOLEAN
        OBVIOUS
      <4>2. text \in Texts
        BY DEF Texts
      <4> QED
        BY <2>3, <4>1, <4>2 DEF Accept, Shown
    <3> QED
      BY <2>2, <2>3, <3>2, <3>3, <3>4, GivenStays, Zenon DEF Accept, AnsweringTypeOK
  <2>4. CASE Reject(text)
    <3>1. added' \in Seq(TraceStep)
      BY <1>3, <2>4 DEF Reject, AnsweringTypeOK
    <3> QED
      BY <2>2, <2>4, <3>1, GivenStays, Zenon DEF Reject, AnsweringTypeOK
  <2> QED
    BY <2>1, <2>3, <2>4
<1>10. CASE FallBack
  <2>1. MaxAttempts - 1 \in 0..(MaxAttempts - 1)
    BY DEF MaxAttempts
  <2>2. added' \in Seq(TraceStep)
    BY <1>3, <1>10 DEF FallBack, AnsweringTypeOK
  <2> QED
    BY <1>5, <1>10, <2>1, <2>2, GivenStays, Zenon DEF FallBack, AnsweringTypeOK
<1>11. CASE UNCHANGED avars
  <2>1. UNCHANGED given /\ UNCHANGED writing
    BY <1>11, Zenon DEF avars
  <2> QED
    BY <2>1, GivenStays, Zenon DEF writing, AnsweringTypeOK
<1> QED
  BY <1>6, <1>7, <1>8, <1>9, <1>10, <1>11 DEF AnsweringNext

\* The state of the answer writer keeps its type, whatever the model does.
THEOREM AnsweringTypeCorrect == AnsweringSpec => []AnsweringTypeOK
  BY AnsweringTypeInit, AnsweringTypeStep, PTL DEF AnsweringSpec

-----------------------------------------------------------------------------
(* The answer and what was drafted.  While it is written, every draft was    *)
(* rejected and the data-only answer stands: this is what makes the verdict, *)
(* the corrections and the count of the trace come out right at the end.     *)

Drafting ==
    turn = "write" =>
        /\ answer = Plain(DataOnly) /\ ~generated
        /\ Len(prompts) = Len(drafts) /\ Len(added) = Len(drafts)
        /\ ~model => Len(drafts) = 0
        /\ \A k \in 1..Len(added) : added[k].tool = "explainer"
        /\ \A k \in 1..Len(drafts) : drafts[k] \notin sound

WritingInv ==
    /\ Drafting
    /\ ModelWordingWasAccepted
    /\ VerdictIsAboutTheAnswer
    /\ RewriteIsCorrected
    /\ TraceTellsTheAttempts

\* While the answer is written, the requests, the drafts and the trace are of
\* one length, and the sequences are what their types say.
LEMMA Writing ==
    ASSUME AnsweringTypeOK, WritingInv, turn = "write"
    PROVE  /\ prompts \in Seq(Drafts \cup {Unwritten}) /\ drafts \in Seq(Drafts)
           /\ added \in Seq(TraceStep)
           /\ Len(drafts) \in Nat /\ base \in Nat
           /\ Len(prompts) = Len(drafts) /\ Len(added) = Len(drafts)
<1>1. /\ prompts \in Seq(Drafts \cup {Unwritten}) /\ drafts \in Seq(Drafts)
      /\ added \in Seq(TraceStep) /\ base \in Nat
  BY Zenon DEF AnsweringTypeOK
<1>2. Len(prompts) = Len(drafts) /\ Len(added) = Len(drafts)
  BY Zenon DEF WritingInv, Drafting
<1> QED
  BY <1>1, <1>2, LenProperties

\* A request is the first one, or corrects the draft that was just rejected.
LEMMA Prompting ==
    ASSUME AnsweringTypeOK, WritingInv, Asking, UNCHANGED given,
           prompts' = Append(prompts, Correction),
           \A k \in 1..Len(drafts) : drafts'[k] = drafts[k]
    PROVE  RewriteIsCorrected' /\ Len(prompts') = Len(prompts) + 1
<1> DEFINE n == Len(drafts)
<1>1. turn = "write" /\ Attempt <= MaxAttempts /\ sound' = sound
  BY Zenon DEF Asking, given
<1>2. /\ prompts \in Seq(Drafts \cup {Unwritten}) /\ drafts \in Seq(Drafts)
      /\ n \in Nat /\ Len(prompts) = n
  BY <1>1, Writing
<1>3. /\ Len(prompts') = n + 1 /\ n + 1 <= MaxAttempts
      /\ \A k \in 1..n : prompts'[k] = prompts[k]
      /\ prompts'[n + 1] = Correction
  BY <1>1, <1>2, CorrectionType, AppendProperties DEF Attempt
<1>4. \A k \in 1..n : drafts[k] \notin sound
  BY <1>1, Zenon DEF WritingInv, Drafting
<1>5. Correction = IF n = 0 THEN Unwritten ELSE drafts[n]
  BY <1>2, EmptySeq DEF Correction
<1>6. ASSUME NEW k \in 1..(n + 1)
      PROVE  IF k = 1 THEN prompts'[k] = Unwritten
             ELSE prompts'[k] = drafts'[k - 1] /\ drafts'[k - 1] \notin sound'
  <2>1. CASE k = n + 1 /\ k = 1
    BY <1>2, <1>3, <1>5, <2>1
  <2>2. CASE k = n + 1 /\ k # 1
    <3>1. n \in 1..n /\ k - 1 = n /\ n # 0
      BY <1>2, <2>2
    <3> QED
      BY <1>1, <1>3, <1>4, <1>5, <2>2, <3>1
  <2>3. CASE k # n + 1
    <3>1. k \in 1..n /\ (k # 1 => k - 1 \in 1..n)
      BY <1>2, <2>3
    <3>2. IF k = 1 THEN prompts[k] = Unwritten
          ELSE prompts[k] = drafts[k - 1] /\ drafts[k - 1] \notin sound
      BY <1>2, <3>1 DEF WritingInv, RewriteIsCorrected
    <3> QED
      BY <1>1, <1>3, <3>1, <3>2
  <2> QED
    BY <2>1, <2>2, <2>3
<1> QED
  BY <1>1, <1>2, <1>3, <1>6 DEF RewriteIsCorrected

\* The data-only answer stands: it is what is shown and what was checked.
LEMMA StandingByTheData ==
    ASSUME AnsweringTypeOK, WritingInv, turn = "write", UNCHANGED given,
           NEW retries, KeepDataOnly(retries),
           retries = IF model THEN Len(prompts') - 1 ELSE 0,
           NEW at \in Nat, added' = Append(added, Checked(at)),
           drafts' = drafts, RewriteIsCorrected'
    PROVE  WritingInv'
<1>1. /\ added \in Seq(TraceStep) /\ Len(drafts) \in Nat /\ Len(added) = Len(drafts)
  BY Writing
<1>2. /\ turn' = "done" /\ answer' = Plain(DataOnly) /\ generated' = FALSE
      /\ verdict' = [grounded |-> DataOnly \in sound, retries |-> retries]
  BY DEF KeepDataOnly
<1>3. sound' = sound /\ model' = model
  BY DEF given
<1>4. /\ Len(added') = Len(drafts) + 1
      /\ \A k \in 1..Len(drafts) : added'[k] = added[k]
      /\ added'[Len(drafts) + 1] = Checked(at)
  BY <1>1, TraceType, AppendProperties
<1>5. \A k \in 1..Len(added) : added[k].tool = "explainer"
  BY Zenon DEF WritingInv, Drafting
<1>6. Checked(at).tool = "grounding_validator"
  BY DEF Checked
<1>7. ASSUME NEW k \in 1..Len(added')
      PROVE  added'[k].tool =
               IF k = Len(added') THEN "grounding_validator" ELSE "explainer"
  <2>1. CASE k = Len(added')
    BY <1>4, <1>6, <2>1
  <2>2. CASE k # Len(added')
    <3>1. k \in 1..Len(drafts)
      BY <1>1, <1>4, <2>2
    <3> QED
      BY <1>1, <1>4, <1>5, <2>2, <3>1
  <2> QED
    BY <2>1, <2>2
<1>8. Drafting' /\ ModelWordingWasAccepted'
  BY <1>2, Zenon DEF Drafting, ModelWordingWasAccepted, Settled
<1>9. VerdictIsAboutTheAnswer'
  <2>1. verdict'.grounded = (DataOnly \in sound) /\ answer'.text = DataOnly
    BY <1>2 DEF Plain
  <2> QED
    BY <1>3, <2>1 DEF VerdictIsAboutTheAnswer
<1>10. TraceTellsTheAttempts'
  <2>1. verdict'.retries = IF model' THEN Len(prompts') - 1 ELSE 0
    BY <1>2, <1>3
  <2> QED
    BY <1>4, <1>7, <2>1, Zenon DEF TraceTellsTheAttempts
<1> QED
  BY <1>8, <1>9, <1>10, Zenon DEF WritingInv

\* A rejected draft: recorded, and nothing of it is shown.
LEMMA Rejecting ==
    ASSUME AnsweringTypeOK, WritingInv, NEW text \in Drafts, Reject(text)
    PROVE  WritingInv'
<1>1. /\ Asking /\ turn = "write" /\ model /\ text \notin sound
      /\ UNCHANGED << given, turn, answer, generated, verdict >>
      /\ prompts' = Append(prompts, Correction) /\ drafts' = Append(drafts, text)
      /\ added' = Append(added, WroteStep)
  BY Zenon DEF Reject, Asking
<1>2. /\ drafts \in Seq(Drafts) /\ added \in Seq(TraceStep) /\ base \in Nat
      /\ Len(drafts) \in Nat /\ Len(prompts) = Len(drafts) /\ Len(added) = Len(drafts)
  BY <1>1, Writing
<1>3. WroteStep \in TraceStep /\ WroteStep.tool = "explainer"
  BY <1>2, TraceType DEF WroteStep, Explained
<1>4. /\ Len(drafts') = Len(drafts) + 1 /\ drafts'[Len(drafts) + 1] = text
      /\ \A k \in 1..Len(drafts) : drafts'[k] = drafts[k]
      /\ Len(added') = Len(drafts) + 1 /\ added'[Len(drafts) + 1] = WroteStep
      /\ \A k \in 1..Len(drafts) : added'[k] = added[k]
  BY <1>1, <1>2, <1>3, AppendProperties
<1>5. RewriteIsCorrected' /\ Len(prompts') = Len(drafts) + 1
  BY <1>1, <1>2, <1>4, Prompting
<1>6. /\ sound' = sound /\ model' = model
      /\ turn' = turn /\ answer' = answer /\ generated' = generated
  BY <1>1 DEF given
<1>7. Drafting'
  <2>1. /\ answer = Plain(DataOnly) /\ ~generated
        /\ \A k \in 1..Len(added) : added[k].tool = "explainer"
        /\ \A k \in 1..Len(drafts) : drafts[k] \notin sound
    BY <1>1, Zenon DEF WritingInv, Drafting
  <2>2. \A k \in 1..(Len(drafts) + 1) : k = Len(drafts) + 1 \/ k \in 1..Len(drafts)
    BY <1>2
  <2>3. \A k \in 1..Len(added') : added'[k].tool = "explainer"
    BY <1>2, <1>3, <1>4, <2>1, <2>2
  <2>4. \A k \in 1..Len(drafts') : drafts'[k] \notin sound'
    BY <1>1, <1>4, <1>6, <2>1, <2>2
  <2>5. Len(prompts') = Len(drafts') /\ Len(added') = Len(drafts')
    BY <1>4, <1>5
  <2>6. model' /\ ~generated' /\ answer' = Plain(DataOnly)
    BY <1>1, <1>6, <2>1
  <2> QED
    BY <2>3, <2>4, <2>5, <2>6, Zenon DEF Drafting
<1>8. turn' # "done"
  BY <1>1, <1>6
<1> QED
  BY <1>5, <1>7, <1>8, Zenon
     DEF WritingInv, ModelWordingWasAccepted, VerdictIsAboutTheAnswer,
         TraceTellsTheAttempts, Settled

\* An accepted draft: it is the last one, it is what is shown, and the trace ends
\* with it and its check.
LEMMA Accepting ==
    ASSUME AnsweringTypeOK, WritingInv, NEW text \in Drafts, Accept(text)
    PROVE  WritingInv'
<1> DEFINE n == Len(drafts)
           check == Checked(base + Len(added) + 2)
<1>1. /\ Asking /\ turn = "write" /\ model /\ text \in sound /\ UNCHANGED given
      /\ prompts' = Append(prompts, Correction) /\ drafts' = Append(drafts, text)
      /\ turn' = "done" /\ answer' = Shown(text) /\ generated' = TRUE
      /\ verdict' = [grounded |-> TRUE, retries |-> Attempt - 1]
      /\ added' = added \o << WroteStep, check >>
  BY Zenon DEF Accept, Asking
<1>2. /\ drafts \in Seq(Drafts) /\ added \in Seq(TraceStep) /\ base \in Nat
      /\ n \in Nat /\ Len(prompts) = n /\ Len(added) = n
  BY <1>1, Writing
<1>3. /\ WroteStep \in TraceStep /\ WroteStep.tool = "explainer"
      /\ check \in TraceStep /\ check.tool = "grounding_validator"
  <2>1. base + Len(added) + 1 \in Nat /\ base + Len(added) + 2 \in Nat
    BY <1>2
  <2>2. WroteStep \in TraceStep /\ check \in TraceStep
    BY <2>1, TraceType DEF WroteStep
  <2>3. WroteStep.tool = "explainer" /\ check.tool = "grounding_validator"
    BY DEF WroteStep, Explained, Checked
  <2> QED
    BY <2>2, <2>3
<1>4. /\ Len(drafts') = n + 1 /\ drafts'[n + 1] = text /\ drafts' # << >>
      /\ \A k \in 1..n : drafts'[k] = drafts[k]
  BY <1>1, <1>2, AppendProperties
<1>5. RewriteIsCorrected' /\ Len(prompts') = n + 1
  BY <1>1, <1>2, <1>4, Prompting
<1>6. sound' = sound /\ model' = model
  BY <1>1 DEF given
<1>7. answer'.text = text
  BY <1>1 DEF Shown
<1>8. verdict'.grounded = TRUE /\ verdict'.retries = n
  BY <1>1, <1>2 DEF Attempt
<1>9. Drafting'
  BY <1>1 DEF Drafting
<1>10. ModelWordingWasAccepted'
  <2>1. answer'.text = drafts'[Len(drafts')]
    BY <1>4, <1>7
  <2> QED
    BY <1>1, <1>4, <1>6, <1>7, <2>1, Zenon DEF ModelWordingWasAccepted
<1>11. VerdictIsAboutTheAnswer'
  BY <1>1, <1>6, <1>7, <1>8, Zenon DEF VerdictIsAboutTheAnswer
<1>12. TraceTellsTheAttempts'
  <2>1. << WroteStep, check >> \in Seq(TraceStep)
    BY <1>3
  <2>2. /\ Len(added') = n + 2
        /\ \A k \in 1..(n + 2) :
             added'[k] = IF k <= n THEN added[k] ELSE << WroteStep, check >>[k - n]
    BY <1>1, <1>2, <2>1, ConcatProperties
  <2>3. \A k \in 1..n : added[k].tool = "explainer"
    BY <1>1, <1>2, Zenon DEF WritingInv, Drafting
  <2>4. ASSUME NEW k \in 1..(n + 2)
        PROVE  added'[k].tool =
                 IF k = n + 2 THEN "grounding_validator" ELSE "explainer"
    <3>1. CASE k \in 1..n
      BY <1>2, <2>2, <2>3, <3>1
    <3>2. CASE k = n + 1
      <4>1. added'[k] = << WroteStep, check >>[1]
        BY <1>2, <2>2, <3>2
      <4> QED
        BY <1>2, <1>3, <3>2, <4>1
    <3>3. CASE k = n + 2
      <4>1. added'[k] = << WroteStep, check >>[2]
        BY <1>2, <2>2, <3>3
      <4> QED
        BY <1>3, <3>3, <4>1
    <3> QED
      BY <1>2, <3>1, <3>2, <3>3
  <2>5. Len(added') = Len(drafts') + 1
    BY <1>2, <1>4, <2>2
  <2>6. verdict'.retries = IF model' THEN Len(prompts') - 1 ELSE 0
    BY <1>1, <1>2, <1>5, <1>6, <1>8
  <2> QED
    BY <2>2, <2>4, <2>5, <2>6 DEF TraceTellsTheAttempts
<1> QED
  BY <1>5, <1>9, <1>10, <1>11, <1>12, Zenon DEF WritingInv

\* Nothing is written yet, and everything said of what is written holds.
LEMMA WritingInit ==
    ASSUME Unanswered
    PROVE  WritingInv
<1>1. /\ turn = "write" /\ prompts = << >> /\ drafts = << >> /\ added = << >>
      /\ answer = Plain(DataOnly) /\ generated = FALSE
  BY Zenon DEF Unanswered
<1>2. Len(prompts) = 0 /\ Len(drafts) = 0 /\ Len(added) = 0
  BY <1>1
<1>3. Drafting
  BY <1>1, <1>2 DEF Drafting
<1>4. RewriteIsCorrected
  BY <1>2 DEF RewriteIsCorrected, MaxAttempts
<1> QED
  BY <1>1, <1>3, <1>4, Zenon
     DEF WritingInv, ModelWordingWasAccepted, VerdictIsAboutTheAnswer,
         TraceTellsTheAttempts, Settled

\* Every step of the writer keeps what it has written and what it says of it together.
LEMMA WritingStep ==
    ASSUME AnsweringTypeOK, WritingInv, [AnsweringNext]_avars
    PROVE  WritingInv'
<1>1. CASE FixedWording
  <2>1. /\ turn = "write" /\ ~ShouldExplain /\ turn' = "done"
        /\ UNCHANGED << given, prompts, drafts, answer, generated, added >>
    BY <1>1, Zenon DEF FixedWording
  <2>2. ~ShouldExplain' /\ sound' = sound
    BY <2>1 DEF given, ShouldExplain
  <2>3. answer' = Plain(DataOnly) /\ ~generated'
    BY <2>1, Zenon DEF WritingInv, Drafting
  <2>4. RewriteIsCorrected'
    BY <2>1, <2>2 DEF WritingInv, RewriteIsCorrected
  <2> QED
    BY <2>1, <2>2, <2>3, <2>4, Zenon
       DEF WritingInv, Drafting, ModelWordingWasAccepted,
           VerdictIsAboutTheAnswer, TraceTellsTheAttempts
<1>2. CASE NoModel
  <2>1. /\ turn = "write" /\ ~model /\ KeepDataOnly(0)
        /\ added' = << Checked(base + 1) >> /\ UNCHANGED << given, prompts, drafts >>
    BY <1>2, Zenon DEF NoModel
  <2>2. added \in Seq(TraceStep) /\ base \in Nat /\ Len(added) = 0
    <3>1. Len(drafts) = 0
      BY <2>1, Zenon DEF WritingInv, Drafting
    <3> QED
      BY <2>1, <3>1, Writing
  <2>3. base + 1 \in Nat /\ added' = Append(added, Checked(base + 1))
    BY <2>1, <2>2, EmptySeq
  <2>4. RewriteIsCorrected'
    BY <2>1 DEF given, WritingInv, RewriteIsCorrected
  <2>5. 0 = IF model THEN Len(prompts') - 1 ELSE 0
    BY <2>1
  <2> QED
    BY <2>1, <2>3, <2>4, <2>5, StandingByTheData
<1>3. CASE ModelFails
  <2>1. /\ Asking /\ turn = "write" /\ model /\ KeepDataOnly(Attempt - 1)
        /\ prompts' = Append(prompts, Correction)
        /\ added' = Append(added, Checked(base + 1)) /\ UNCHANGED << given, drafts >>
    BY <1>3, Zenon DEF ModelFails, Asking
  <2>2. base + 1 \in Nat /\ Len(prompts) \in Nat
    BY <2>1, Writing
  <2>3. RewriteIsCorrected' /\ Len(prompts') = Len(prompts) + 1
    BY <2>1, Prompting
  <2>4. Attempt - 1 = IF model THEN Len(prompts') - 1 ELSE 0
    BY <2>1, <2>2, <2>3 DEF Attempt
  <2> QED
    BY <2>1, <2>2, <2>3, <2>4, StandingByTheData
<1>4. CASE Write
  BY <1>4, Accepting, Rejecting DEF Write
<1>5. CASE FallBack
  <2>1. /\ turn = "write" /\ model /\ Attempt > MaxAttempts
        /\ KeepDataOnly(MaxAttempts - 1)
        /\ added' = Append(added, Checked(base + Len(added) + 1))
        /\ UNCHANGED << given, prompts, drafts >>
    BY <1>5, Zenon DEF FallBack
  <2>2. base + Len(added) + 1 \in Nat /\ Len(prompts) \in Nat
    BY <2>1, Writing
  <2>3. RewriteIsCorrected' /\ Len(prompts) <= MaxAttempts
    BY <2>1 DEF given, WritingInv, RewriteIsCorrected
  <2>4. MaxAttempts - 1 = IF model THEN Len(prompts') - 1 ELSE 0
    <3>1. Len(prompts) + 1 > MaxAttempts /\ Len(prompts) <= MaxAttempts
      BY <2>1, <2>3, Zenon DEF Attempt
    <3>2. Len(prompts) - 1 = MaxAttempts - 1
      BY <2>2, <3>1, AllUsed
    <3> QED
      BY <2>1, <3>2
  <2> QED
    BY <2>1, <2>2, <2>3, <2>4, StandingByTheData
<1>6. CASE UNCHANGED avars
  BY <1>6 DEF avars, given, writing, WritingInv, Drafting, ModelWordingWasAccepted,
              VerdictIsAboutTheAnswer, RewriteIsCorrected, TraceTellsTheAttempts,
              Settled, ShouldExplain
<1> QED
  BY <1>1, <1>2, <1>3, <1>4, <1>5, <1>6 DEF AnsweringNext

\* The inductive invariant of the writer: while drafts are written each was
\* rejected and the data-only answer stands; once settled, wording, verdict,
\* corrections and trace belong together.
THEOREM AnswerIsFounded == AnsweringSpec => []WritingInv
<1>1. AnsweringInit => WritingInv
  BY WritingInit, Zenon DEF AnsweringInit
<1> QED
  BY <1>1, WritingStep, AnsweringTypeCorrect, PTL DEF AnsweringSpec

\* Wording of the model is only ever shown when the validator accepted it.
THEOREM WordingWasAccepted == AnsweringSpec => []ModelWordingWasAccepted
  BY AnswerIsFounded, PTL DEF WritingInv

\* The verdict of a run is about the text the run shows.
THEOREM VerdictsAreTrue == AnsweringSpec => []VerdictIsAboutTheAnswer
  BY AnswerIsFounded, PTL DEF WritingInv

\* A second request carries the correction of the draft that was rejected.
THEOREM RewritesAreCorrected == AnsweringSpec => []RewriteIsCorrected
  BY AnswerIsFounded, PTL DEF WritingInv

\* The trace shows every draft and ends with the check of the answer.
THEOREM TraceIsComplete == AnsweringSpec => []TraceTellsTheAttempts
  BY AnswerIsFounded, PTL DEF WritingInv

=============================================================================
