--------------------------- MODULE ReadingProofs ---------------------------
(***************************************************************************)
(* What holds of the reading of every question, whatever words it has and  *)
(* whatever a model answers: nothing is planned for a question nobody      *)
(* placed in the domain, the period it states is kept, run and plan mean   *)
(* the same dates, no capacity is guessed, and what is handed over is      *)
(* what the executor was built for.                                        *)
(*                                                                         *)
(* And of the structured calls a reading is made with, for any number of   *)
(* concurrent ones and any endpoint: the mode that is remembered is the    *)
(* best one it accepts, a call that finds it remembered does not           *)
(* negotiate, and no call repeats a request but the one it repairs.        *)
(***************************************************************************)
EXTENDS UnderstandingPipeline, StructuredOutput, SequenceTheorems, TLAPS

(***************************************************************************)
(* The reading.                                                            *)
(***************************************************************************)

\* The domain's word for the question: its own vocabulary, or a model's verdict.
Placed == \/ question.signals /\ ~question.denied
          \/ llm /\ decidedBy = "llm"

ReadingTypeOK ==
    /\ question \in Question
    /\ stage \in Stage
    /\ intent \in Intent
    /\ ids \subseteq Entity

\* Until the guard has decided, nothing is read; after it, only what was placed.
GuardIsFirst ==
    /\ (stage \in {"extract", "resolve"} \/ plan # << >>) => Placed
    /\ stage \in {"guard", "extract"} => intent = "unknown" /\ plan = << >>
    /\ stage = "guard" => status = "understood"
    /\ stage = "extract" => status = "understood"
    /\ stage = "resolve" => status = "understood" /\ plan = << >>

\* The dates of a reading that is to be planned are the plan's, and both are the
\* stated ones where the question states them.
WindowIsRead ==
    (stage = "resolve" \/ plan # << >>) =>
        /\ planned \in Named \cup {Blank} /\ window = Dates(planned)
        /\ question.period = "stated" => window = "stated" /\ planned = "stated"

\* A capacity that is to be planned is not an ambiguous one, and only a model reads
\* another intent than the rules would.
NotAmbiguous ==
    (stage = "resolve" \/ plan # << >>) =>
        /\ intent = "production_capacity" =>
             question.period # Silent \/ question.metrics # {}
        /\ path # "llm" => intent = Rules

\* A finished reading is one of those the executor was built for.
Finished ==
    Done =>
        /\ status \in {"understood", "clarify", "rejected_out_of_domain"}
        /\ status # "understood" => plan = << >>
        /\ status = "understood" => /\ plan # << >> /\ plan = BuildPlan(intent, ids)
                                    /\ ~MissingRequirement(intent, ids)
        /\ status = "rejected_out_of_domain" => intent = "unknown"

ReadingInv ==
    ReadingTypeOK /\ GuardIsFirst /\ WindowIsRead /\ NotAmbiguous /\ Finished

-----------------------------------------------------------------------------
(* What the extraction makes of a reply. *)

\* Of the places in a list of eight at which something was found, one is the first.
LEMMA FirstOfEight ==
    ASSUME NEW S \in SUBSET (1..8), S # {}
    PROVE  \E j \in S : \A k \in 1..(j - 1) : k \notin S
<1>1. 1 \in S \/ 2 \in S \/ 3 \in S \/ 4 \in S \/ 5 \in S \/ 6 \in S \/ 7 \in S \/ 8 \in S
  <2>1. \A j \in 1..8 : j = 1 \/ j = 2 \/ j = 3 \/ j = 4 \/ j = 5 \/ j = 6 \/ j = 7 \/ j = 8
    OBVIOUS
  <2> QED
    BY <2>1
<1> QED
  BY <1>1

\* The rules read one of the intents, whatever patterns match.
LEMMA RulesType ==
    ASSUME question \in Question
    PROVE  Rules \in Intent
<1>1. CASE question.matches = {}
  BY <1>1 DEF Rules, Intent
<1>2. CASE question.matches # {}
  <2> DEFINE S == { j \in 1..8 : IntentOrder[j] \in question.matches }
             First(j) == /\ IntentOrder[j] \in question.matches
                         /\ \A k \in 1..(j - 1) : IntentOrder[k] \notin question.matches
  <2>1. DOMAIN IntentOrder = 1..8
    BY DEF IntentOrder
  <2>2. \A i \in Intent \ {"unknown"} : \E j \in 1..8 : IntentOrder[j] = i
    BY DEF IntentOrder, Intent
  <2>3. question.matches \subseteq Intent \ {"unknown"}
    BY DEF Question
  <2>4. S # {}
    BY <1>2, <2>2, <2>3
  <2>5. PICK j \in S : \A k \in 1..(j - 1) : k \notin S
    BY <2>4, FirstOfEight
  <2>6. j \in DOMAIN IntentOrder /\ First(j)
    BY <2>1, <2>5
  <2>7. IntentOrder[CHOOSE i \in DOMAIN IntentOrder : First(i)] \in question.matches
    BY <2>6
  <2> QED
    BY <1>2, <2>3, <2>7 DEF Rules
<1> QED
  BY <1>1, <1>2

\* The window every intent falls back to is one that has dates.
LEMMA DefaultHasDates ==
    ASSUME NEW i
    PROVE  DefaultWindow(i) \in {"today", "yesterday", "this_week"}
  BY DEF DefaultWindow

\* The rules answer in the form of a reply.
LEMMA RulesReply ==
    ASSUME question \in Question
    PROVE  ByRules \in Reply
<1>1. Rules \in Intent
  BY RulesType
<1>2. DefaultWindow(Rules) \in Label
  BY DefaultHasDates DEF Label, Named
<1>3. question.period # Silent => question.period \in Label
  BY DEF Question, Label, Named, Unresolved
<1>4. question.names \subseteq Entity
  BY DEF Question
<1>5. Ambiguous(Rules) \in BOOLEAN
  BY DEF Ambiguous
<1> HIDE DEF Label, Reply
<1>6. (IF question.period = Silent THEN DefaultWindow(Rules) ELSE question.period) \in Label
  BY <1>2, <1>3
<1> QED
  BY <1>1, <1>4, <1>5, <1>6 DEF ByRules, Reply

\* A label that cannot be resolved is repaired before it is used: what the plan is
\* handed has dates, or is empty, and a stated period is kept.
LEMMA LabelIsRepaired ==
    ASSUME question \in Question, NEW i, NEW label \in Label
    PROVE  /\ Repaired(i, WindowFor(i, label)) \in Named \cup {Blank}
           /\ question.period = "stated" => Repaired(i, WindowFor(i, label)) = "stated"
<1>1. DefaultWindow(i) \in Named
  BY DefaultHasDates DEF Named
<1>2. WindowFor(i, label) \in Label
  BY <1>1 DEF WindowFor, Label, Named, Unresolved, Question
<1>3. question.period = "stated" => WindowFor(i, label) = "stated"
  BY DEF WindowFor, Silent
<1> QED
  BY <1>1, <1>2, <1>3 DEF Repaired, Label, Unresolved, Named

\* The corrected intent is an intent.
LEMMA SettledType ==
    ASSUME NEW model \in Intent
    PROVE  Settled(model) \in Intent
  BY DEF Settled, Intent

-----------------------------------------------------------------------------
(* The invariant holds at the start and is kept. *)

\* A question that has just been put.
LEMMA ReadingInit == Init => ReadingInv
<1> SUFFICES ASSUME Init PROVE ReadingInv
  OBVIOUS
<1>1. ReadingTypeOK
  BY QuestionsAssumption DEF Init, ReadingTypeOK, Stage, Intent
<1> QED
  BY <1>1 DEF Init, ReadingInv, GuardIsFirst, WindowIsRead, NotAmbiguous, Finished, Done

\* A decision of the guard: the question goes on when it was placed, and ends
\* otherwise.
LEMMA DecideKeeps ==
    ASSUME ReadingInv, NEW inDomain \in BOOLEAN, NEW by, Decide(inDomain, by),
           inDomain => (question.signals /\ ~question.denied) \/ (llm /\ by = "llm")
    PROVE  ReadingInv'
<1>1. /\ stage = "guard" /\ decidedBy' = by
      /\ UNCHANGED << question, llm, path, intent, ids, window, planned, plan >>
      /\ intent = "unknown" /\ plan = << >> /\ status = "understood"
  BY DEF Decide, ReadingInv, GuardIsFirst
<1>2. CASE inDomain
  BY <1>1, <1>2 DEF Decide, ReadingInv, ReadingTypeOK, GuardIsFirst, Placed, WindowIsRead,
                    NotAmbiguous, Finished, Done, Stage
<1>3. CASE ~inDomain
  BY <1>1, <1>3 DEF Decide, ReadingInv, ReadingTypeOK, GuardIsFirst, Placed, WindowIsRead,
                    NotAmbiguous, Finished, Done, Stage
<1> QED
  BY <1>2, <1>3

\* What the rules read, code leaves as it is.
LEMMA RulesAreSettled == Settled(ByRules.intent) = Rules
<1>1. ByRules.intent = Rules
  BY DEF ByRules
<1>2. Settled(Rules) = Rules
  BY Zenon DEF Settled
<1> QED
  BY <1>1, <1>2

\* A reading, corrected and repaired, goes on unless it is to be asked back.
LEMMA InterpretKeeps ==
    ASSUME ReadingInv, NEW reply \in Reply, NEW by, Interpret(reply, by),
           by # "llm" => Settled(reply.intent) = Rules
    PROVE  ReadingInv'
<1> DEFINE i     == Settled(reply.intent)
           label == WindowFor(i, reply.window)
<1>1. /\ stage = "extract" /\ path' = by /\ intent' = i /\ ids' = reply.ids \cup question.names
      /\ window' = Dates(Repaired(i, label)) /\ planned' = Repaired(i, label)
      /\ UNCHANGED << question, llm, decidedBy, plan >>
      /\ intent = "unknown" /\ plan = << >> /\ status = "understood" /\ Placed
      /\ by # "llm" => i = Rules
  BY DEF Interpret, ResolveWindow, ReadingInv, GuardIsFirst
<1>2. question \in Question /\ reply.intent \in Intent /\ reply.window \in Label
      /\ reply.ids \subseteq Entity /\ question.names \subseteq Entity
  BY DEF ReadingInv, ReadingTypeOK, Reply, Question
<1>3. i \in Intent
  BY <1>2, SettledType
<1>4. /\ planned' \in Named \cup {Blank} /\ window' = Dates(planned)'
      /\ question.period = "stated" => planned' = "stated"
  BY <1>1, <1>2, LabelIsRepaired DEF Dates
<1>5. question.period = "stated" => window' = "stated"
  BY <1>1, <1>4 DEF Dates, Blank
<1>6. \/ stage' = "done" /\ status' = "clarify"
      \/ stage' = "resolve" /\ status' = status /\ ~(i # "unknown" /\ Ambiguous(i))
  BY DEF Interpret
<1> HIDE DEF i, label
<1>7. ReadingTypeOK'
  BY <1>1, <1>2, <1>3, <1>6 DEF ReadingTypeOK, Stage
<1>8. GuardIsFirst'
  BY <1>1, <1>6 DEF GuardIsFirst, Placed
<1>9. WindowIsRead'
  BY <1>1, <1>4, <1>5, <1>6 DEF WindowIsRead
<1>10. NotAmbiguous'
  <2>1. Rules' = Rules
    BY <1>1 DEF Rules
  <2> QED
    BY <1>1, <1>6, <2>1 DEF NotAmbiguous, Ambiguous
<1>11. Finished'
  BY <1>1, <1>6 DEF Finished, Done
<1> QED
  BY <1>7, <1>8, <1>9, <1>10, <1>11 DEF ReadingInv

\* A plan is built where nothing is missing, and a question without one is asked back.
LEMMA ResolveKeeps ==
    ASSUME ReadingInv, Resolve
    PROVE  ReadingInv'
<1>1. /\ stage = "resolve" /\ stage' = "done"
      /\ UNCHANGED << question, llm, decidedBy, path, intent, ids, window, planned >>
      /\ status' = IF plan' = << >> THEN "clarify" ELSE "understood"
      /\ plan' = IF MissingRequirement(intent, ids) THEN << >> ELSE BuildPlan(intent, ids)
  BY DEF Resolve
<1>2. ReadingTypeOK' /\ GuardIsFirst' /\ WindowIsRead' /\ NotAmbiguous'
  BY <1>1 DEF ReadingInv, ReadingTypeOK, GuardIsFirst, WindowIsRead, NotAmbiguous, Placed,
              Stage, Dates, Rules
<1>3. Finished'
  BY <1>1 DEF Finished, Done, MissingRequirement
<1> QED
  BY <1>2, <1>3 DEF ReadingInv

\* Every step of the reading keeps the invariant.
LEMMA ReadingStep ==
    ASSUME ReadingInv, [Next]_vars
    PROVE  ReadingInv'
<1>1. CASE Denied \/ Allowed \/ FailClosed
  BY <1>1, DecideKeeps DEF Denied, Allowed, FailClosed
<1>2. CASE Judged
  BY <1>2, DecideKeeps DEF Judged
<1>3. CASE \E reply \in Replies : ExtractByModel(reply)
  BY <1>3, RepliesAssumption, InterpretKeeps DEF ExtractByModel
<1>4. CASE ExtractByRules
  BY <1>4, RulesReply, RulesAreSettled, InterpretKeeps
     DEF ExtractByRules, ReadingInv, ReadingTypeOK
<1>5. CASE Resolve
  BY <1>5, ResolveKeeps
<1>6. CASE UNCHANGED vars
  BY <1>6 DEF vars, ReadingInv, ReadingTypeOK, GuardIsFirst, Placed, WindowIsRead,
              NotAmbiguous, Finished, Done, Dates, MissingRequirement, Rules
<1> QED
  BY <1>1, <1>2, <1>3, <1>4, <1>5, <1>6 DEF Next

\* The invariant of the reading, for every question and every model.
THEOREM ReadingInOrder == Spec => []ReadingInv
  BY ReadingInit, ReadingStep, PTL DEF Spec

\* Nothing is planned for a question that nobody placed in the domain.
THEOREM ReadingFailsClosed == Spec => []FailsClosed
<1>1. ReadingInv => FailsClosed
  BY DEF ReadingInv, GuardIsFirst, Placed, FailsClosed
<1> QED
  BY <1>1, ReadingInOrder, PTL

\* A stated period is the period of the run and of its plan.
THEOREM StatedPeriodIsKept == Spec => []StatedPeriodWins
<1>1. ReadingInv => StatedPeriodWins
  BY DEF ReadingInv, Finished, WindowIsRead, StatedPeriodWins, Done
<1> QED
  BY <1>1, ReadingInOrder, PTL

\* The dates of the run are the dates of its tools.
THEOREM DatesAgree == Spec => []RunAndPlanAgree
<1>1. ReadingInv => RunAndPlanAgree
  <2> SUFFICES ASSUME ReadingInv, NEW j \in DOMAIN plan
               PROVE  window \in Named /\ DatesOf(plan[j].tool) \in {window, AllDates}
    BY DEF RunAndPlanAgree
  <2>1. plan # << >>
    OBVIOUS
  <2>2. planned \in Named \cup {Blank} /\ window = Dates(planned)
    BY <2>1 DEF ReadingInv, WindowIsRead
  <2> QED
    BY <2>2 DEF DatesOf, Dates, Named
<1> QED
  BY <1>1, ReadingInOrder, PTL

\* No capacity is calculated for a question that names neither a period nor a metric,
\* and the rules alone never plan one that they take for a capacity question.
THEOREM NoCapacityIsGuessed == Spec => []BareQuantityIsNotCalculated
<1>1. ReadingInv => BareQuantityIsNotCalculated
  BY DEF ReadingInv, NotAmbiguous, BareQuantityIsNotCalculated
<1> QED
  BY <1>1, ReadingInOrder, PTL

\* What is handed over is a question settled without a plan, or one with the plan of
\* its template.
THEOREM HandsOverTemplates == Spec => []HandsOver
<1>1. ReadingInv => HandsOver
  <2> SUFFICES ASSUME ReadingInv, Done
               PROVE  [status |-> status, intent |-> intent, plan |-> plan] \in Handovers
    BY DEF HandsOver
  <2>1. intent \in Intent /\ ids \in SUBSET Entity
    BY DEF ReadingInv, ReadingTypeOK
  <2>2. CASE status = "understood"
    <3>1. plan = BuildPlan(intent, ids) /\ plan # << >> /\ ~MissingRequirement(intent, ids)
      BY <2>2 DEF ReadingInv, Finished
    <3>2. intent # "unknown"
      BY <3>1 DEF BuildPlan
    <3> DEFINE Built(r) == [status |-> "understood", intent |-> r[1],
                            plan |-> BuildPlan(r[1], r[2])]
               Ready == { q \in Intent \X SUBSET Entity :
                            q[1] # "unknown" /\ ~MissingRequirement(q[1], q[2]) }
    <3>3. << intent, ids >> \in Ready
      BY <2>1, <3>1, <3>2
    <3>4. Built(<< intent, ids >>) = [status |-> status, intent |-> intent, plan |-> plan]
      BY <2>2, <3>1
    <3>5. \A r \in Ready : Built(r) \in Handovers
      BY DEF Handovers
    <3> QED
      BY <3>3, <3>4, <3>5
  <2>3. CASE status = "clarify"
    BY <2>1, <2>3 DEF ReadingInv, Finished, Handovers
  <2>4. CASE status = "rejected_out_of_domain"
    BY <2>4 DEF ReadingInv, Finished, Handovers
  <2> QED
    BY <2>2, <2>3, <2>4 DEF ReadingInv, Finished
<1> QED
  BY <1>1, ReadingInOrder, PTL

-----------------------------------------------------------------------------
(***************************************************************************)
(* The structured calls.                                                   *)
(***************************************************************************)

\* The modes from the j-th on.
From(j) == SubSeq(Modes, j, Len(Modes))

CallsTypeOK ==
    /\ accepts \subseteq Mode
    /\ mode \in Mode \cup {Unset}
    /\ state \in [Calls -> State]
    /\ left \in [Calls -> Walk]
    /\ found \in [Calls -> Mode \cup {Unset}]
    /\ asked \in [Calls -> Seq(Mode)]

\* What is remembered, now or when a call began, is the best the endpoint accepts.
RememberedIsBest ==
    /\ ModeIsBest
    /\ \A c \in Calls : found[c] # Unset => found[c] = Best

\* A call that awaits a reply has sent the request for the mode it is at, and every
\* better mode is one the endpoint does not accept.
Descending(c) ==
    \E j \in 1..3 :
        /\ left[c] = From(j)
        /\ \A i \in 1..(j - 1) : Modes[i] \notin accepts
        /\ asked[c] # << >> /\ asked[c][Len(asked[c])] = Modes[j]
        /\ Len(asked[c]) <= IF state[c] = "asking" THEN j ELSE j + 1

\* A request for each mode and one to repair the last.
AffordsItself(c) == Len(asked[c]) <= Len(Modes) + 1

\* A call that has not begun has sent nothing.
IdleIsSilent == \A c \in Calls : state[c] = "idle" => asked[c] = << >>

\* Until a reply came, each request was for the next mode after the one before.
NoneRepeated(c) ==
    \A i \in 1..(Len(asked[c]) - 1) : Rank(asked[c][i + 1]) = Rank(asked[c][i]) + 1

CallsInv ==
    /\ CallsTypeOK
    /\ RememberedIsBest
    /\ SettledIsReused
    /\ WalkIsShort
    /\ IdleIsSilent
    /\ \A c \in Calls : AffordsItself(c)
    /\ \A c \in Calls : state[c] \in {"asking", "repairing"} => Descending(c)
    /\ \A c \in Calls : state[c] = "asking" => NoneRepeated(c)

-----------------------------------------------------------------------------
(* The three modes. *)

\* The modes are three, and Rank is the place of each.
LEMMA ThreeModes ==
    /\ Len(Modes) = 3 /\ DOMAIN Modes = 1..3 /\ Modes \in Seq(Mode)
    /\ \A j \in 1..3 : Modes[j] \in Mode /\ Rank(Modes[j]) = j /\ Modes[j] # Unset
    /\ \A m \in Mode : Rank(m) \in 1..3 /\ Modes[Rank(m)] = m
    /\ \A j \in 1..3 : Modes[j] = "prompt" <=> j = 3
<1>1. /\ Len(Modes) = 3 /\ DOMAIN Modes = 1..3
      /\ Modes[1] = "json_schema" /\ Modes[2] = "json_object" /\ Modes[3] = "prompt"
  BY DEF Modes
<1>2. \A j \in 1..3 : j = 1 \/ j = 2 \/ j = 3
  OBVIOUS
<1>3. \A i, j \in 1..3 : Modes[i] = Modes[j] => i = j
  BY <1>1, <1>2
<1>4. \A j \in 1..3 : Modes[j] \in Mode /\ Modes[j] # Unset
  BY <1>1, <1>2 DEF Mode, Unset
<1>5. \A m \in Mode : \E j \in 1..3 : Modes[j] = m
  BY <1>1 DEF Mode
<1>6. \A j \in 1..3 : Rank(Modes[j]) = j
  <2> SUFFICES ASSUME NEW j \in 1..3 PROVE Rank(Modes[j]) = j
    OBVIOUS
  <2>1. Rank(Modes[j]) \in 1..3 /\ Modes[Rank(Modes[j])] = Modes[j]
    BY <1>1 DEF Rank
  <2> QED
    BY <1>3, <2>1
<1>7. Modes \in Seq(Mode)
  BY <1>4, <1>1 DEF Modes
<1> QED
  BY <1>1, <1>2, <1>3, <1>4, <1>5, <1>6, <1>7

\* The walk from the j-th mode begins with it and goes on with the next.
LEMMA WalkOn ==
    ASSUME NEW j \in 1..3
    PROVE  /\ From(j) \in Walk /\ Head(From(j)) = Modes[j]
           /\ Tail(From(j)) = From(j + 1)
<1>1. Len(Modes) = 3 /\ Modes \in Seq(Mode)
  BY ThreeModes
<1>2. From(j) \in Walk
  BY <1>1 DEF From, Walk
<1>3. Head(From(j)) = Modes[j] /\ Tail(From(j)) = From(j + 1)
  BY <1>1, HeadTailOfSubSeq DEF From
<1> QED
  BY <1>2, <1>3

\* A call begins with the mode it finds, or with the first.
LEMMA WalkBegins ==
    ASSUME NEW m \in Mode \cup {Unset}
    PROVE  \E j \in 1..3 : WalkFrom(m) = From(j) /\ (IF m = Unset THEN j = 1 ELSE m = Modes[j])
<1>1. Modes \in Seq(Mode) /\ Len(Modes) = 3
  BY ThreeModes
<1>2. CASE m = Unset
  <2>1. From(1) = Modes
    BY <1>1, SubSeqFull DEF From
  <2> QED
    BY <1>2, <2>1 DEF WalkFrom
<1>3. CASE m # Unset
  <2>1. Rank(m) \in 1..3 /\ Modes[Rank(m)] = m
    BY <1>3, ThreeModes
  <2> QED
    BY <1>3, <2>1 DEF WalkFrom, From
<1> QED
  BY <1>2, <1>3

\* The best mode is the first that the endpoint replies to.
LEMMA FirstIsBest ==
    ASSUME NEW j \in 1..3, CanReply(Modes[j]),
           \A i \in 1..(j - 1) : Modes[i] \notin accepts
    PROVE  Best = Modes[j]
<1>1. \A i \in 1..(j - 1) : ~CanReply(Modes[i])
  BY ThreeModes DEF CanReply
<1>2. Modes[j] \in Mode /\ \A n \in Mode : CanReply(n) => Rank(Modes[j]) <= Rank(n)
  <2> SUFFICES ASSUME NEW n \in Mode, CanReply(n) PROVE j <= Rank(n)
    BY ThreeModes
  <2>1. Rank(n) \in 1..3 /\ Modes[Rank(n)] = n
    BY ThreeModes
  <2> QED
    BY <1>1, <2>1
<1>3. Best \in Mode /\ CanReply(Best) /\ \A n \in Mode : CanReply(n) => Rank(Best) <= Rank(n)
  BY <1>2 DEF Best
<1>4. Rank(Best) <= j /\ j <= Rank(Best)
  BY <1>2, <1>3, ThreeModes
<1>5. Rank(Best) = j /\ Modes[Rank(Best)] = Best
  BY <1>3, <1>4, ThreeModes
<1> QED
  BY <1>5

\* Nothing better than the best mode is accepted, and the best one is.
LEMMA BestType ==
    /\ Best \in Mode /\ CanReply(Best) /\ Rank(Best) \in 1..3
    /\ \A i \in 1..(Rank(Best) - 1) : Modes[i] \notin accepts
<1> DEFINE Fine(j) == CanReply(Modes[j])
<1>1. Fine(3)
  BY ThreeModes DEF CanReply
<1>2. \E j \in 1..3 : Fine(j) /\ \A i \in 1..(j - 1) : ~Fine(i)
  <2>1. CASE Fine(1)
    BY <2>1
  <2>2. CASE ~Fine(1) /\ Fine(2)
    BY <2>2
  <2>3. CASE ~Fine(1) /\ ~Fine(2)
    BY <1>1, <2>3
  <2> QED
    BY <2>1, <2>2, <2>3
<1>3. PICK j \in 1..3 : Fine(j) /\ \A i \in 1..(j - 1) : ~Fine(i)
  BY <1>2
<1>4. \A i \in 1..(j - 1) : Modes[i] \notin accepts
  BY <1>3 DEF CanReply
<1>5. Best = Modes[j]
  BY <1>3, <1>4, FirstIsBest
<1> QED
  BY <1>3, <1>4, <1>5, ThreeModes

-----------------------------------------------------------------------------
(* The invariant holds at the start and is kept. *)

\* A client that has made no call remembers nothing.
LEMMA CallsBegin == CallsInit => CallsInv
<1> SUFFICES ASSUME CallsInit PROVE CallsInv
  OBVIOUS
<1>1. CallsTypeOK
  <2>1. From(4) = << >> /\ From(4) \in Walk
    BY ThreeModes, SubSeqEmpty DEF From, Walk
  <2> QED
    BY <2>1 DEF CallsInit, CallsTypeOK, GivenMode, State
<1>2. RememberedIsBest /\ SettledIsReused
  BY DEF CallsInit, RememberedIsBest, ModeIsBest, SettledIsReused, GivenMode
<1>3. WalkIsShort
  <2> SUFFICES ASSUME NEW c \in Calls
               PROVE  LET n == Len(asked[c]) IN
                      /\ \A j \in 1..(n - 1) :
                           \/ Rank(asked[c][j + 1]) = Rank(asked[c][j]) + 1
                           \/ j = n - 1 /\ asked[c][j + 1] = asked[c][j]
                      /\ (n > 1 /\ asked[c][n] = asked[c][n - 1]) => state[c] # "asking"
    BY DEF WalkIsShort
  <2>1. Len(asked[c]) = 0
    BY EmptySeq DEF CallsInit
  <2> QED
    BY <2>1
<1>4. IdleIsSilent
  BY DEF CallsInit, IdleIsSilent
<1>5. \A c \in Calls : AffordsItself(c)
  <2> SUFFICES ASSUME NEW c \in Calls PROVE Len(asked[c]) <= Len(Modes) + 1
    BY DEF AffordsItself
  <2>1. Len(asked[c]) = 0
    BY EmptySeq DEF CallsInit
  <2>2. Len(Modes) = 3
    BY ThreeModes
  <2> QED
    BY <2>1, <2>2
<1> QED
  BY <1>1, <1>2, <1>3, <1>4, <1>5 DEF CallsInv, CallsInit

\* A step of one call leaves what is known of the others.
LEMMA OthersKeep ==
    ASSUME CallsInv, NEW c \in Calls, accepts' = accepts, CallsTypeOK', RememberedIsBest',
           \A d \in Calls : d # c => /\ state'[d] = state[d] /\ left'[d] = left[d]
                                    /\ found'[d] = found[d] /\ asked'[d] = asked[d],
           found'[c] # Unset => \A j \in DOMAIN asked'[c] : asked'[c][j] = found'[c],
           \A j \in 1..(Len(asked'[c]) - 1) :
             \/ Rank(asked'[c][j + 1]) = Rank(asked'[c][j]) + 1
             \/ j = Len(asked'[c]) - 1 /\ asked'[c][j + 1] = asked'[c][j],
           (Len(asked'[c]) > 1 /\ asked'[c][Len(asked'[c])] = asked'[c][Len(asked'[c]) - 1])
             => state'[c] # "asking",
           state'[c] \in {"asking", "repairing"} => Descending(c)',
           state'[c] = "asking" => NoneRepeated(c)',
           state'[c] # "idle", AffordsItself(c)'
    PROVE  CallsInv'
<1>1. SettledIsReused'
  BY DEF CallsInv, SettledIsReused
<1>2. WalkIsShort'
  <2> DEFINE Short(q, st) ==
               /\ \A j \in 1..(Len(q) - 1) :
                    \/ Rank(q[j + 1]) = Rank(q[j]) + 1
                    \/ j = Len(q) - 1 /\ q[j + 1] = q[j]
               /\ (Len(q) > 1 /\ q[Len(q)] = q[Len(q) - 1]) => st # "asking"
  <2>1. \A d \in Calls : Short(asked[d], state[d])
    BY DEF CallsInv, WalkIsShort
  <2>2. Short(asked'[c], state'[c])
    OBVIOUS
  <2> HIDE DEF Short
  <2>3. \A d \in Calls : Short(asked'[d], state'[d])
    BY <2>1, <2>2
  <2> QED
    BY <2>3 DEF Short, WalkIsShort
<1>3. ASSUME NEW d \in Calls, state'[d] \in {"asking", "repairing"} PROVE Descending(d)'
  BY <1>3 DEF CallsInv, Descending
<1>4. ASSUME NEW d \in Calls PROVE AffordsItself(d)'
  BY DEF CallsInv, AffordsItself
<1>5. ASSUME NEW d \in Calls, state'[d] = "asking" PROVE NoneRepeated(d)'
  BY <1>5, ZenonT(30) DEF CallsInv, NoneRepeated
<1>6. IdleIsSilent'
  BY DEF CallsInv, IdleIsSilent
<1> QED
  BY <1>1, <1>2, <1>3, <1>4, <1>5, <1>6 DEF CallsInv

\* One more request: what was asked before is as it was.
LEMMA OneMoreAsked ==
    ASSUME CallsTypeOK, NEW c \in Calls, NEW m \in Mode, Sends(c, m)
    PROVE  /\ asked' \in [Calls -> Seq(Mode)] /\ asked[c] \in Seq(Mode)
           /\ asked'[c] = Append(asked[c], m)
           /\ Len(asked[c]) \in Nat /\ Len(asked'[c]) = Len(asked[c]) + 1
           /\ DOMAIN asked'[c] = 1..(Len(asked[c]) + 1)
           /\ asked'[c] # << >> /\ asked'[c][Len(asked[c]) + 1] = m
           /\ \A i \in 1..Len(asked[c]) : asked'[c][i] = asked[c][i]
           /\ \A d \in Calls : d # c => asked'[d] = asked[d]
<1>1. asked \in [Calls -> Seq(Mode)]
  BY DEF CallsTypeOK
<1>2. asked[c] \in Seq(Mode) /\ asked' = [asked EXCEPT ![c] = Append(asked[c], m)]
  BY <1>1 DEF Sends
<1>3. Append(asked[c], m) \in Seq(Mode)
  BY <1>2, AppendProperties
<1>4. asked'[c] = Append(asked[c], m) /\ asked' \in [Calls -> Seq(Mode)]
  BY <1>1, <1>2, <1>3
<1> QED
  BY <1>1, <1>2, <1>3, <1>4, AppendProperties, LenProperties

\* What a call that awaits a reply is at.
LEMMA AtMode ==
    ASSUME CallsInv, NEW c \in Calls, state[c] \in {"asking", "repairing"}
    PROVE  \E j \in 1..3 :
              /\ left[c] = From(j) /\ Current(c) = Modes[j] /\ Current(c) \in Mode
              /\ \A i \in 1..(j - 1) : Modes[i] \notin accepts
              /\ asked[c] # << >> /\ asked[c][Len(asked[c])] = Modes[j]
              /\ Len(asked[c]) <= IF state[c] = "asking" THEN j ELSE j + 1
              /\ Tail(left[c]) = From(j + 1)
<1>1. PICK j \in 1..3 :
        /\ left[c] = From(j)
        /\ \A i \in 1..(j - 1) : Modes[i] \notin accepts
        /\ asked[c] # << >> /\ asked[c][Len(asked[c])] = Modes[j]
        /\ Len(asked[c]) <= IF state[c] = "asking" THEN j ELSE j + 1
  BY DEF CallsInv, Descending
<1>2. Head(From(j)) = Modes[j] /\ Tail(From(j)) = From(j + 1) /\ Modes[j] \in Mode
  BY WalkOn, ThreeModes
<1> QED
  BY <1>1, <1>2 DEF Current

\* A call that begins: from what it finds, or from the top.
LEMMA StartKeeps ==
    ASSUME CallsInv, NEW c \in Calls, Start(c)
    PROVE  CallsInv'
<1>1. /\ accepts' = accepts /\ mode' = mode
      /\ state' = [state EXCEPT ![c] = "asking"]
      /\ found' = [found EXCEPT ![c] = mode]
      /\ left' = [left EXCEPT ![c] = WalkFrom(mode)]
      /\ Sends(c, Head(WalkFrom(mode))) /\ state[c] = "idle"
  BY DEF Start, Moves
<1>2. mode \in Mode \cup {Unset}
  BY DEF CallsInv, CallsTypeOK
<1>3. PICK j \in 1..3 :
        WalkFrom(mode) = From(j) /\ (IF mode = Unset THEN j = 1 ELSE mode = Modes[j])
  BY <1>2, WalkBegins
<1>4. Head(WalkFrom(mode)) = Modes[j] /\ Modes[j] \in Mode /\ From(j) \in Walk
  BY <1>3, WalkOn, ThreeModes
<1>5. asked[c] = << >>
  BY <1>1 DEF CallsInv, IdleIsSilent
<1>6. /\ asked' \in [Calls -> Seq(Mode)] /\ Len(asked'[c]) = 1 /\ DOMAIN asked'[c] = 1..1
      /\ asked'[c] # << >> /\ asked'[c][1] = Modes[j]
      /\ \A d \in Calls : d # c => asked'[d] = asked[d]
  <2>1. Len(asked[c]) = 0
    BY <1>5, EmptySeq
  <2>2. Sends(c, Modes[j]) /\ Modes[j] \in Mode
    BY <1>1, <1>4
  <2>3. /\ asked' \in [Calls -> Seq(Mode)] /\ Len(asked'[c]) = Len(asked[c]) + 1
        /\ DOMAIN asked'[c] = 1..(Len(asked[c]) + 1)
        /\ asked'[c] # << >> /\ asked'[c][Len(asked[c]) + 1] = Modes[j]
        /\ \A d \in Calls : d # c => asked'[d] = asked[d]
    BY <2>2, OneMoreAsked DEF CallsInv
  <2> QED
    BY <2>1, <2>3
<1>7. CallsTypeOK'
  BY <1>1, <1>2, <1>3, <1>4, <1>6 DEF CallsInv, CallsTypeOK, State
<1>8. Best' = Best
  BY <1>1 DEF Best, CanReply
<1>9. RememberedIsBest' /\ (mode # Unset => mode = Best)
  BY <1>1, <1>8 DEF CallsInv, CallsTypeOK, RememberedIsBest, ModeIsBest
<1>10. /\ \A d \in Calls : d # c => state'[d] = state[d] /\ left'[d] = left[d]
                                   /\ found'[d] = found[d]
       /\ state'[c] = "asking" /\ left'[c] = From(j) /\ found'[c] = mode
  BY <1>1, <1>3 DEF CallsInv, CallsTypeOK
<1>11. \A i \in 1..(j - 1) : Modes[i] \notin accepts
  BY <1>3, <1>9, BestType, ThreeModes
<1>12. Descending(c)'
  BY <1>1, <1>6, <1>10, <1>11 DEF Descending
<1>13. found'[c] # Unset => \A i \in DOMAIN asked'[c] : asked'[c][i] = found'[c]
  BY <1>3, <1>6, <1>10
<1>15. AffordsItself(c)'
  BY <1>6, ThreeModes DEF AffordsItself
<1>14. NoneRepeated(c)'
  BY <1>6 DEF NoneRepeated
<1> QED
  BY <1>1, <1>6, <1>7, <1>9, <1>10, <1>12, <1>13, <1>14, <1>15, OthersKeep

\* A call whose mode is rejected had not found it remembered, and goes on with the
\* next one.
LEMMA RejectKeeps ==
    ASSUME CallsInv, NEW c \in Calls, Reject(c)
    PROVE  CallsInv'
<1>1. /\ accepts' = accepts /\ mode' = mode /\ state' = state /\ found' = found
      /\ left' = [left EXCEPT ![c] = Tail(left[c])]
      /\ Sends(c, Head(Tail(left[c])))
      /\ state[c] = "asking" /\ CanReject(Current(c))
  BY DEF Reject, CallsInv, CallsTypeOK
<1>2. PICK j \in 1..3 :
        /\ left[c] = From(j) /\ Current(c) = Modes[j]
        /\ \A i \in 1..(j - 1) : Modes[i] \notin accepts
        /\ asked[c] # << >> /\ asked[c][Len(asked[c])] = Modes[j]
        /\ Len(asked[c]) <= j
        /\ Tail(left[c]) = From(j + 1)
  BY <1>1, AtMode
<1>3. j + 1 \in 1..3 /\ Modes[j] \notin accepts /\ Modes[j] # "prompt"
  BY <1>1, <1>2, ThreeModes DEF CanReject
<1> DEFINE next == j + 1
           n    == Len(asked[c])
<1>4. Head(From(next)) = Modes[next] /\ Modes[next] \in Mode /\ From(next) \in Walk
  BY <1>3, WalkOn, ThreeModes
<1>5. /\ asked' \in [Calls -> Seq(Mode)] /\ n \in Nat /\ Len(asked'[c]) = n + 1
      /\ asked'[c] # << >> /\ asked'[c][n + 1] = Modes[next]
      /\ \A i \in 1..n : asked'[c][i] = asked[c][i]
      /\ \A d \in Calls : d # c => asked'[d] = asked[d]
      /\ asked[c] \in Seq(Mode)
  <2>1. Sends(c, Modes[next]) /\ Modes[next] \in Mode
    BY <1>1, <1>2, <1>4
  <2> QED
    BY <2>1, OneMoreAsked DEF CallsInv
<1>6. n > 0 /\ DOMAIN asked[c] = 1..n
  BY <1>2, <1>5, EmptySeq
<1>7. CallsTypeOK'
  BY <1>1, <1>2, <1>4, <1>5 DEF CallsInv, CallsTypeOK
<1>8. RememberedIsBest'
  <2>1. Best' = Best
    BY <1>1 DEF Best, CanReply
  <2> QED
    BY <1>1, <2>1 DEF CallsInv, RememberedIsBest, ModeIsBest
<1>9. found[c] = Unset
  <2> SUFFICES ASSUME found[c] # Unset PROVE FALSE
    OBVIOUS
  <2>1. found[c] = Best /\ asked[c][n] = found[c]
    BY <1>6 DEF CallsInv, RememberedIsBest, SettledIsReused
  <2> QED
    BY <1>2, <1>3, <2>1, BestType DEF CanReply
<1>10. NoneRepeated(c)'
  <2>1. \A i \in 1..(n - 1) : Rank(asked[c][i + 1]) = Rank(asked[c][i]) + 1
    BY <1>1 DEF CallsInv, NoneRepeated
  <2>2. Rank(asked[c][n]) = j /\ Rank(asked'[c][n + 1]) = j + 1
    BY <1>2, <1>3, <1>5, ThreeModes
  <2>3. ASSUME NEW i \in 1..n PROVE Rank(asked'[c][i + 1]) = Rank(asked'[c][i]) + 1
    <3>1. CASE i = n
      BY <1>5, <1>6, <2>2, <3>1
    <3>2. CASE i # n
      <4>1. i \in 1..(n - 1) /\ i + 1 \in 1..n
        BY <1>5, <3>2
      <4> QED
        BY <1>5, <2>1, <4>1
    <3> QED
      BY <3>1, <3>2
  <2> QED
    BY <1>5, <2>3 DEF NoneRepeated
<1>11. Descending(c)'
  <2>1. \A i \in 1..(next - 1) : Modes[i] \notin accepts
    BY <1>2, <1>3
  <2>2. left'[c] = From(next)
    BY <1>1, <1>2 DEF CallsInv, CallsTypeOK
  <2> QED
    BY <1>1, <1>2, <1>3, <1>5, <2>1, <2>2 DEF Descending
<1>12. \A i \in 1..(Len(asked'[c]) - 1) : Rank(asked'[c][i + 1]) = Rank(asked'[c][i]) + 1
  BY <1>10 DEF NoneRepeated
<1>13. asked'[c][Len(asked'[c])] # asked'[c][Len(asked'[c]) - 1]
  <2>1. asked'[c][n] = Modes[j] /\ asked'[c][n + 1] = Modes[j + 1]
    BY <1>2, <1>5, <1>6
  <2>2. Modes[j] # Modes[j + 1]
    BY <1>3, ThreeModes
  <2>3. Len(asked'[c]) = n + 1 /\ (n + 1) - 1 = n
    BY <1>5
  <2> QED
    BY <2>1, <2>2, <2>3
<1>14. \A d \in Calls : d # c => /\ state'[d] = state[d] /\ left'[d] = left[d]
                                /\ found'[d] = found[d] /\ asked'[d] = asked[d]
  BY <1>1, <1>5 DEF CallsInv, CallsTypeOK
<1>15. found'[c] = Unset /\ state'[c] = "asking"
  BY <1>1, <1>9
<1>16. AffordsItself(c)'
  BY <1>2, <1>5, ThreeModes DEF AffordsItself
<1> HIDE DEF n, next
<1> QED
  BY <1>1, <1>7, <1>8, <1>10, <1>11, <1>12, <1>13, <1>14, <1>15, <1>16, OthersKeep

\* A reply settles the mode: the first that is accepted, which is the best.
LEMMA ReplyIsBest ==
    ASSUME CallsInv, NEW c \in Calls, Remember(c)
    PROVE  Current(c) = Best /\ Best \in Mode /\ RememberedIsBest' /\ Best' = Best
<1>1. /\ state[c] = "asking" /\ CanReply(Current(c)) /\ mode' = Current(c)
      /\ accepts' = accepts /\ found' = found
  BY DEF Remember
<1>2. Current(c) = Best
  BY <1>1, AtMode, FirstIsBest
<1>3. Best' = Best
  BY <1>1 DEF Best, CanReply
<1> QED
  BY <1>1, <1>2, <1>3, BestType DEF CallsInv, RememberedIsBest, ModeIsBest

\* A step of one call that sends nothing and leaves its walk to nobody.
LEMMA QuietKeeps ==
    ASSUME CallsInv, NEW c \in Calls, NEW st \in {"returned", "failed"},
           state' = [state EXCEPT ![c] = st],
           UNCHANGED << accepts, left, found, asked >>,
           mode' \in Mode \cup {Unset}, RememberedIsBest'
    PROVE  CallsInv'
<1>1. CallsTypeOK'
  BY DEF CallsInv, CallsTypeOK, State
<1>2. state'[c] = st /\ \A d \in Calls : d # c => state'[d] = state[d]
  BY DEF CallsInv, CallsTypeOK
<1>3. /\ found[c] # Unset => \A j \in DOMAIN asked[c] : asked[c][j] = found[c]
      /\ \A j \in 1..(Len(asked[c]) - 1) :
           \/ Rank(asked[c][j + 1]) = Rank(asked[c][j]) + 1
           \/ j = Len(asked[c]) - 1 /\ asked[c][j + 1] = asked[c][j]
  BY DEF CallsInv, SettledIsReused, WalkIsShort
<1>4. AffordsItself(c)'
  BY DEF CallsInv, AffordsItself
<1> QED
  BY <1>1, <1>2, <1>3, <1>4, OthersKeep

\* A reply that does not validate: the mode is asked once more, by way of repair.
LEMMA MalformedKeeps ==
    ASSUME CallsInv, NEW c \in Calls, Malformed(c)
    PROVE  CallsInv'
<1>1. /\ Remember(c) /\ state[c] = "asking" /\ mode' = Current(c)
      /\ accepts' = accepts /\ left' = left /\ found' = found
      /\ state' = [state EXCEPT ![c] = "repairing"] /\ Sends(c, Current(c))
  BY DEF Malformed, Remember, Moves
<1>2. PICK j \in 1..3 :
        /\ left[c] = From(j) /\ Current(c) = Modes[j] /\ Current(c) \in Mode
        /\ \A i \in 1..(j - 1) : Modes[i] \notin accepts
        /\ asked[c] # << >> /\ asked[c][Len(asked[c])] = Modes[j]
        /\ Len(asked[c]) <= j
  BY <1>1, AtMode
<1>3. Current(c) = Best /\ RememberedIsBest'
  BY <1>1, ReplyIsBest
<1> DEFINE n == Len(asked[c])
<1>4. /\ asked' \in [Calls -> Seq(Mode)] /\ n \in Nat /\ Len(asked'[c]) = n + 1
      /\ DOMAIN asked'[c] = 1..(n + 1)
      /\ asked'[c] # << >> /\ asked'[c][n + 1] = Modes[j]
      /\ \A i \in 1..n : asked'[c][i] = asked[c][i]
      /\ \A d \in Calls : d # c => asked'[d] = asked[d]
      /\ asked[c] \in Seq(Mode)
  BY <1>1, <1>2, OneMoreAsked DEF CallsInv
<1>5. n > 0 /\ DOMAIN asked[c] = 1..n
  BY <1>2, <1>4, EmptySeq
<1>6. CallsTypeOK'
  BY <1>1, <1>2, <1>4 DEF CallsInv, CallsTypeOK, State
<1>7. /\ state'[c] = "repairing"
      /\ \A d \in Calls : d # c => state'[d] = state[d]
  BY <1>1 DEF CallsInv, CallsTypeOK
<1>8. found'[c] # Unset => \A i \in DOMAIN asked'[c] : asked'[c][i] = found'[c]
  <2> SUFFICES ASSUME found[c] # Unset, NEW i \in 1..(n + 1)
               PROVE  asked'[c][i] = found[c]
    BY <1>1, <1>4
  <2>1. found[c] = Best /\ \A k \in 1..n : asked[c][k] = found[c]
    BY <1>5 DEF CallsInv, RememberedIsBest, SettledIsReused
  <2>2. i = n + 1 \/ i \in 1..n
    BY <1>4
  <2> QED
    BY <1>2, <1>3, <1>4, <2>1, <2>2
<1>9. ASSUME NEW i \in 1..(Len(asked'[c]) - 1)
      PROVE  \/ Rank(asked'[c][i + 1]) = Rank(asked'[c][i]) + 1
             \/ i = Len(asked'[c]) - 1 /\ asked'[c][i + 1] = asked'[c][i]
  <2>1. \A k \in 1..(n - 1) : Rank(asked[c][k + 1]) = Rank(asked[c][k]) + 1
    BY <1>1 DEF CallsInv, NoneRepeated
  <2>2. i \in 1..n
    BY <1>4
  <2>3. CASE i = n
    BY <1>2, <1>4, <1>5, <2>3
  <2>4. CASE i # n
    <3>1. i \in 1..(n - 1) /\ i + 1 \in 1..n
      BY <1>4, <2>2, <2>4
    <3> QED
      BY <1>4, <2>1, <3>1
  <2> QED
    BY <2>3, <2>4
<1>10. Descending(c)'
  BY <1>1, <1>2, <1>4, <1>7 DEF Descending
<1>11. AffordsItself(c)'
  BY <1>2, <1>4, ThreeModes DEF AffordsItself
<1> QED
  BY <1>1, <1>3, <1>4, <1>6, <1>7, <1>8, <1>9, <1>10, <1>11, OthersKeep

\* Whichever call is answered next, and however, the invariant is kept.
LEMMA CallsStep ==
    ASSUME CallsInv, [CallsNext]_cvars
    PROVE  CallsInv'
<1>1. ASSUME NEW c \in Calls, Start(c) PROVE CallsInv'
  BY <1>1, StartKeeps
<1>2. ASSUME NEW c \in Calls, Answer(c) PROVE CallsInv'
  <2>1. CASE Reject(c)
    BY <2>1, RejectKeeps
  <2>2. CASE Valid(c)
    BY <2>2, ReplyIsBest, QuietKeeps DEF Valid, Remember, Moves
  <2>3. CASE Malformed(c)
    BY <2>3, MalformedKeeps
  <2>4. CASE Fail(c) \/ RepairAnswered(c) \/ Unrepaired(c)
    <3>1. PICK st \in {"returned", "failed"} : Moves(c, st)
      BY <2>4 DEF Fail, RepairAnswered, Unrepaired
    <3>2. UNCHANGED << accepts, mode, left, found, asked >>
      BY <2>4 DEF Fail, RepairAnswered, Unrepaired
    <3>3. Best' = Best
      BY <3>2 DEF Best, CanReply
    <3>4. RememberedIsBest' /\ mode' \in Mode \cup {Unset}
      BY <3>2, <3>3 DEF CallsInv, CallsTypeOK, RememberedIsBest, ModeIsBest
    <3> QED
      BY <3>1, <3>2, <3>4, QuietKeeps DEF Moves
  <2> QED
    BY <1>2, <2>1, <2>2, <2>3, <2>4 DEF Answer
<1>3. CASE UNCHANGED cvars
  <2>1. Best' = Best
    BY <1>3 DEF cvars, Best, CanReply
  <2> QED
    BY <1>3, <2>1 DEF cvars, CallsInv, CallsTypeOK, RememberedIsBest, ModeIsBest,
                      SettledIsReused, WalkIsShort, IdleIsSilent, Descending, NoneRepeated, AffordsItself
<1> QED
  BY <1>1, <1>2, <1>3 DEF CallsNext

\* The invariant of the negotiation, for any number of concurrent calls.
THEOREM CallsInOrder == CallsSpec => []CallsInv
  BY CallsBegin, CallsStep, PTL DEF CallsSpec

\* Whatever the order of the replies, what is remembered is the best mode.
THEOREM RemembersTheBest == CallsSpec => []ModeIsBest
<1>1. CallsInv => ModeIsBest
  BY DEF CallsInv, RememberedIsBest
<1> QED
  BY <1>1, CallsInOrder, PTL

\* A call that finds a mode sends nothing in another.
THEOREM NothingIsRenegotiated == CallsSpec => []SettledIsReused
<1>1. CallsInv => SettledIsReused
  BY DEF CallsInv
<1> QED
  BY <1>1, CallsInOrder, PTL

\* A call goes down the list without a gap and repeats one request at most: it costs
\* a request for each mode and one more.
THEOREM CallsAreShort ==
    CallsSpec => [](WalkIsShort /\ \A c \in Calls : Len(asked[c]) <= Len(Modes) + 1)
<1>1. CallsInv => WalkIsShort /\ \A c \in Calls : Len(asked[c]) <= Len(Modes) + 1
  BY DEF CallsInv, AffordsItself
<1> QED
  BY <1>1, CallsInOrder, PTL

=============================================================================
