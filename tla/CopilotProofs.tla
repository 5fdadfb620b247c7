---------------------------- MODULE CopilotProofs ----------------------------
(***************************************************************************)
(* What holds of the panel for any number of questions and steps: however  *)
(* the calls of stopped questions resume, one question is shown, what is   *)
(* shown of it is what its stream sent, and the panel is busy exactly      *)
(* while it is under way.                                                  *)
(***************************************************************************)
EXTENDS Copilot, TLAPS

EventKind == {"none", "accepted", "understanding", "tool_result", "answer", "error", "run"}

\* What the panel and the calls hold; the shown parts name a question or none.
PanelTypeOK ==
    /\ asked \in 0..MaxAsks
    /\ stage \in [Ask -> Stage]
    /\ aborted \subseteq Ask
    /\ controller \in 0..MaxAsks
    /\ busy \in BOOLEAN
    /\ shown \in [from : [Part -> 0..MaxAsks], steps : SUBSET (Ask \X Nat)]
    /\ forwarded \in [Ask -> Nat]
    /\ last \in [Ask -> EventKind]
    /\ open \in [Ask -> BOOLEAN]
    /\ settled \in [Ask -> BOOLEAN]

\* A call that will still be heard: it awaits something and was not stopped.
Live(k) == stage[k] \in Waiting /\ k \notin aborted

\* The one call that is heard is the one the controller belongs to, and it is the
\* call for the question asked last; while there is one, the panel is busy.
OneIsLive ==
    /\ \A k \in Ask : Live(k) <=> controller = k
    /\ controller \in {None, asked}
    /\ busy <=> controller # None

\* Nothing has happened to a question that was not asked.
NotYet ==
    \A k \in Ask : k > asked =>
        stage[k] = "unasked" /\ k \notin aborted /\ forwarded[k] = 0 /\ open[k]

\* What is shown is about the question asked last, its steps are the ones its
\* stream sent, and a stream that ended has left its run or its error.
ShownIsSent ==
    /\ \A p \in Part : shown.from[p] \in {None, asked}
    /\ IF asked = 0 THEN shown.steps = {}
       ELSE shown.steps = { <<asked, n>> : n \in 1..forwarded[asked] }
    /\ (asked # 0 /\ ~open[asked]) =>
         shown.from["run"] = asked \/ shown.from["error"] = asked

PanelInv ==
    /\ PanelTypeOK
    /\ OneIsLive
    /\ NotYet
    /\ ShownIsSent
    /\ NoSilentEnd

-----------------------------------------------------------------------------
(* The invariant holds at the start and is kept. *)

\* A panel nobody has asked anything yet shows nothing and waits for nothing.
LEMMA PanelInit == Init => PanelInv
<1> SUFFICES ASSUME Init PROVE PanelInv
  OBVIOUS
<1>1. MaxAsks \in Nat /\ 0 \in 0..MaxAsks
  BY BoundsAssumption
<1>2. PanelTypeOK
  <2>1. Empty \in [from : [Part -> 0..MaxAsks], steps : SUBSET (Ask \X Nat)]
    BY <1>1 DEF Empty, None
  <2> QED
    BY <1>1, <2>1 DEF Init, PanelTypeOK, Stage, None, EventKind
<1>3. OneIsLive
  BY <1>1 DEF Init, OneIsLive, Live, Waiting, Ask, None
<1>4. NotYet
  BY DEF Init, NotYet
<1>5. ShownIsSent /\ NoSilentEnd
  BY DEF Init, ShownIsSent, NoSilentEnd, Empty, None
<1> QED
  BY <1>2, <1>3, <1>4, <1>5 DEF PanelInv

\* The call that is heard is the one for the question asked last.
LEMMA HeardIsLast ==
    ASSUME PanelInv, NEW k \in Ask, Live(k)
    PROVE  k = asked /\ controller = k /\ asked # 0 /\ controller # None
  BY BoundsAssumption DEF PanelInv, OneIsLive, Ask, None

\* Nothing of an earlier question is left when the next one is asked.
LEMMA AskKeeps ==
    ASSUME PanelInv, AskQuestion
    PROVE  PanelInv'
<1> DEFINE q == asked + 1
<1>1. /\ ~busy /\ asked < MaxAsks /\ asked' = q /\ controller' = q /\ busy' = TRUE
      /\ shown' = Empty /\ stage' = [stage EXCEPT ![q] = "fetching"]
      /\ UNCHANGED << forwarded, last, open, settled >>
  BY DEF AskQuestion, Moves, streams
<1>2. controller = None /\ aborted' = aborted
  BY <1>1 DEF PanelInv, OneIsLive, AskQuestion, Fires
<1>3. MaxAsks \in Nat /\ asked \in Nat /\ q \in Ask /\ q # 0 /\ q > asked
  BY <1>1, BoundsAssumption DEF PanelInv, PanelTypeOK, Ask
<1>4. PanelTypeOK'
  <2>1. Empty \in [from : [Part -> 0..MaxAsks], steps : SUBSET (Ask \X Nat)]
    BY <1>3 DEF Empty, None
  <2> QED
    BY <1>1, <1>2, <1>3, <2>1 DEF PanelInv, PanelTypeOK, Stage, Waiting, Ask
<1>5. OneIsLive'
  <2>1. \A k \in Ask : ~Live(k)
    BY <1>2, <1>3 DEF PanelInv, OneIsLive, Ask, None
  <2>2. q \notin aborted /\ stage \in [Ask -> Stage]
    BY <1>3 DEF PanelInv, NotYet, PanelTypeOK
  <2>3. \A k \in Ask : Live(k)' <=> k = q
    BY <1>1, <1>2, <1>3, <2>1, <2>2 DEF Live, Waiting
  <2> QED
    BY <1>1, <1>3, <2>3 DEF OneIsLive, None
<1>6. NotYet'
  BY <1>1, <1>2, <1>3 DEF PanelInv, PanelTypeOK, NotYet, Ask
<1>7. ShownIsSent'
  <2>1. forwarded[q] = 0 /\ open[q]
    BY <1>3 DEF PanelInv, NotYet
  <2>2. { <<q, n>> : n \in 1..0 } = {}
    OBVIOUS
  <2> QED
    BY <1>1, <1>3, <2>1, <2>2 DEF ShownIsSent, Empty, None
<1>8. NoSilentEnd'
  BY <1>1, <1>3 DEF NoSilentEnd, PanelInv, PanelTypeOK
<1> QED
  BY <1>4, <1>5, <1>6, <1>7, <1>8 DEF PanelInv

\* A panel that is given back by Stop hears nobody.
LEMMA CancelKeeps ==
    ASSUME PanelInv, Cancel
    PROVE  PanelInv'
<1>1. /\ controller' = None /\ busy' = FALSE
      /\ UNCHANGED << asked, stage, shown, forwarded, last, open, settled >>
  BY DEF Cancel, streams
<1>2. controller = asked /\ asked # 0 /\ asked \in Ask /\ aborted' = aborted \cup {asked}
  BY BoundsAssumption
     DEF Cancel, Fires, PanelInv, OneIsLive, PanelTypeOK, Ask, None
<1>3. PanelTypeOK'
  <2>1. controller' \in 0..MaxAsks /\ busy' = FALSE
    BY <1>1, BoundsAssumption DEF None
  <2>2. aborted' \subseteq Ask
    BY <1>2 DEF PanelInv, PanelTypeOK
  <2> QED
    BY <1>1, <2>1, <2>2 DEF PanelInv, PanelTypeOK
<1>4. OneIsLive'
  <2>1. \A k \in Ask : ~Live(k)'
    BY <1>1, <1>2 DEF PanelInv, OneIsLive, Live
  <2> QED
    BY <1>1, <2>1 DEF OneIsLive, None, Ask
<1>5. NotYet'
  BY <1>1, <1>2 DEF PanelInv, NotYet, PanelTypeOK, Ask
<1>6. ShownIsSent' /\ NoSilentEnd'
  BY <1>1, <1>2 DEF PanelInv, ShownIsSent, NoSilentEnd
<1> QED
  BY <1>3, <1>4, <1>5, <1>6 DEF PanelInv

\* The end of a call frees the panel when it is the call that was heard, and only
\* then; what the panel shows must have been settled by then.
LEMMA FinishKeeps ==
    ASSUME PanelInv, NEW k \in Ask, stage[k] \in Waiting, Finish(k), UNCHANGED streams,
           ShownIsSent',
           shown' \in [from : [Part -> 0..MaxAsks], steps : SUBSET (Ask \X Nat)],
           (k = asked /\ k \notin aborted) =>
               shown'.from["run"] = asked \/ shown'.from["error"] = asked,
           \A p \in Part : k # asked => shown'.from[p] = shown.from[p]
    PROVE  PanelInv'
<1>1. /\ stage' = [stage EXCEPT ![k] = "ended"] /\ asked' = asked /\ aborted' = aborted
      /\ UNCHANGED << forwarded, last, open, settled >>
  BY DEF Finish, Moves, streams
<1>2. IF controller = k THEN controller' = None /\ busy' = FALSE
                        ELSE controller' = controller /\ busy' = busy
  BY DEF Finish
<1>3. k \in Nat /\ k # None
  BY BoundsAssumption DEF Ask, None
<1>4. PanelTypeOK'
  <2>1. None \in 0..MaxAsks
    BY BoundsAssumption DEF None
  <2>2. controller \in 0..MaxAsks /\ busy \in BOOLEAN
    BY DEF PanelInv, PanelTypeOK
  <2>3. controller' \in 0..MaxAsks
    BY <1>2, <2>1, <2>2
  <2>4. busy' \in BOOLEAN
    BY <1>2, <2>2, Zenon
  <2>5. stage' \in [Ask -> Stage]
    BY <1>1 DEF PanelInv, PanelTypeOK, Stage
  <2> QED
    BY <1>1, <2>3, <2>4, <2>5 DEF PanelInv, PanelTypeOK
<1>5. OneIsLive'
  <2>1. \A j \in Ask : Live(j)' <=> Live(j) /\ j # k
    BY <1>1 DEF Live, PanelInv, PanelTypeOK, Waiting
  <2>2. \A j \in Ask : Live(j) <=> controller = j
    BY DEF PanelInv, OneIsLive
  <2>3. controller \in {None, asked} /\ (busy <=> controller # None)
    BY DEF PanelInv, OneIsLive
  <2>4. \A j \in Ask : j # None
    BY BoundsAssumption DEF Ask, None
  <2> QED
    BY <1>1, <1>2, <2>1, <2>2, <2>3, <2>4 DEF OneIsLive
<1>6. NotYet'
  BY <1>1 DEF PanelInv, NotYet, PanelTypeOK, Waiting
<1>7. NoSilentEnd'
  <2>1. CASE k = asked
    BY <1>1, <2>1 DEF NoSilentEnd
  <2>2. CASE k # asked
    <3>1. asked # 0 => asked \in Ask
      BY DEF PanelInv, PanelTypeOK, Ask
    <3>2. asked # 0 => stage'[asked] = stage[asked]
      BY <1>1, <2>2, <3>1 DEF PanelInv, PanelTypeOK
    <3> QED
      BY <1>1, <2>2, <3>2 DEF NoSilentEnd, PanelInv, Part
  <2> QED
    BY <2>1, <2>2
<1> QED
  BY <1>4, <1>5, <1>6, <1>7 DEF PanelInv

\* One part of the panel replaced.
LEMMA ShowsOne ==
    ASSUME PanelInv, NEW k \in Ask, NEW part \in Part, Shows(part, k)
    PROVE  /\ shown' \in [from : [Part -> 0..MaxAsks], steps : SUBSET (Ask \X Nat)]
           /\ shown'.steps = shown.steps
           /\ shown'.from[part] = k
           /\ \A p \in Part : p # part => shown'.from[p] = shown.from[p]
<1>1. /\ shown \in [from : [Part -> 0..MaxAsks], steps : SUBSET (Ask \X Nat)]
      /\ k \in 0..MaxAsks
  BY BoundsAssumption DEF PanelInv, PanelTypeOK, Ask
<1> QED
  BY <1>1 DEF Shows

\* A call that throws says so, unless it was stopped.
LEMMA ThrownKeeps ==
    ASSUME PanelInv, NEW k \in Ask, Thrown(k)
    PROVE  PanelInv'
<1>1. stage[k] \in Waiting /\ Finish(k) /\ UNCHANGED streams
  BY DEF Thrown, Catch
<1>2. asked' = asked /\ open' = open /\ forwarded' = forwarded
  BY <1>1 DEF Finish, streams
<1>3. CASE k \in aborted
  <2>1. shown' = shown
    BY <1>3 DEF Thrown, Catch
  <2>2. ShownIsSent'
    BY <1>2, <2>1 DEF PanelInv, ShownIsSent
  <2> QED
    BY <1>1, <1>3, <2>1, <2>2, FinishKeeps DEF PanelInv, PanelTypeOK
<1>4. CASE k \notin aborted
  <2>1. Shows("error", k) /\ k = asked /\ asked # 0
    BY <1>1, <1>4, HeardIsLast DEF Thrown, Catch, Live
  <2>2. /\ shown' \in [from : [Part -> 0..MaxAsks], steps : SUBSET (Ask \X Nat)]
        /\ shown'.steps = shown.steps /\ shown'.from["error"] = k
        /\ \A p \in Part : p # "error" => shown'.from[p] = shown.from[p]
    BY <2>1, ShowsOne DEF Part
  <2>3. ShownIsSent'
    BY <1>2, <2>1, <2>2 DEF PanelInv, ShownIsSent
  <2> QED
    BY <1>1, <2>1, <2>2, <2>3, FinishKeeps
<1> QED
  BY <1>3, <1>4

\* A body that ends has left its run or its error, or belongs to a stopped question.
LEMMA EofKeeps ==
    ASSUME PanelInv, NEW k \in Ask, Eof(k)
    PROVE  PanelInv'
<1>1. stage[k] \in Waiting /\ Finish(k) /\ UNCHANGED streams /\ shown' = shown
  BY DEF Eof, Waiting
<1>2. asked' = asked /\ open' = open /\ forwarded' = forwarded
  BY <1>1 DEF Finish, streams
<1>3. ShownIsSent'
  BY <1>1, <1>2 DEF PanelInv, ShownIsSent
<1>4. (k = asked /\ k \notin aborted) =>
          shown'.from["run"] = asked \/ shown'.from["error"] = asked
  <2>1. k # 0
    BY BoundsAssumption DEF Ask
  <2> QED
    BY <1>1, <2>1 DEF Eof, PanelInv, ShownIsSent
<1> QED
  BY <1>1, <1>3, <1>4, FinishKeeps DEF PanelInv, PanelTypeOK

\* What arrives for the question that is heard changes what is shown of it.
LEMMA ArrivalKeeps ==
    ASSUME PanelInv, NEW k \in Ask, k = asked, k \notin aborted, stage[k] = "reading",
           UNCHANGED << panel, stage, settled >>,
           shown' \in [from : [Part -> 0..MaxAsks], steps : SUBSET (Ask \X Nat)],
           forwarded' \in [Ask -> Nat], last' \in [Ask -> EventKind],
           open' \in [Ask -> BOOLEAN],
           \A j \in Ask : j # k => forwarded'[j] = forwarded[j] /\ open'[j] = open[j],
           \A p \in Part : shown'.from[p] \in {None, k},
           shown'.steps = { <<k, n>> : n \in 1..forwarded'[k] },
           ~open'[k] => shown'.from["run"] = k \/ shown'.from["error"] = k
    PROVE  PanelInv'
<1>1. /\ asked' = asked /\ aborted' = aborted /\ controller' = controller /\ busy' = busy
      /\ stage' = stage /\ settled' = settled
  BY DEF panel
<1>2. PanelTypeOK'
  BY <1>1 DEF PanelInv, PanelTypeOK
<1>3. OneIsLive'
  BY <1>1 DEF PanelInv, OneIsLive, Live
<1>4. NotYet'
  BY <1>1 DEF PanelInv, NotYet
<1>5. ShownIsSent'
  <2>1. asked # 0
    BY BoundsAssumption DEF Ask
  <2> QED
    BY <1>1, <2>1 DEF ShownIsSent
<1>6. NoSilentEnd'
  BY <1>1 DEF NoSilentEnd
<1> QED
  BY <1>2, <1>3, <1>4, <1>5, <1>6 DEF PanelInv

\* The next step of the trace.
LEMMA StepKeeps ==
    ASSUME PanelInv, NEW k \in Ask, DeliverStep(k)
    PROVE  PanelInv'
<1> DEFINE m == forwarded[k] + 1
<1>1. /\ k \notin aborted /\ stage[k] = "reading" /\ open[k]
      /\ last' = [last EXCEPT ![k] = "tool_result"]
      /\ open' = [open EXCEPT ![k] = TRUE] /\ settled' = settled
      /\ forwarded' = [forwarded EXCEPT ![k] = m]
      /\ shown' = [shown EXCEPT !.steps = @ \cup {<<k, m>>}]
      /\ UNCHANGED << panel, stage >>
  BY DEF DeliverStep, Handles, Sends, StepArrives, PanelInv, PanelTypeOK
<1>2. k = asked /\ asked # 0
  BY <1>1, HeardIsLast DEF Live, Waiting
<1>3. forwarded[k] \in Nat /\ m \in Nat
  BY DEF PanelInv, PanelTypeOK
<1>4. /\ shown \in [from : [Part -> 0..MaxAsks], steps : SUBSET (Ask \X Nat)]
      /\ shown.steps = { <<k, n>> : n \in 1..forwarded[k] }
  BY <1>2 DEF PanelInv, PanelTypeOK, ShownIsSent
<1>5. /\ shown' \in [from : [Part -> 0..MaxAsks], steps : SUBSET (Ask \X Nat)]
      /\ shown'.from = shown.from /\ shown'.steps = shown.steps \cup {<<k, m>>}
  BY <1>1, <1>3, <1>4
<1>6. forwarded' \in [Ask -> Nat] /\ forwarded'[k] = m
  BY <1>1, <1>3 DEF PanelInv, PanelTypeOK
<1>7. 1..m = (1..forwarded[k]) \cup {m}
  BY <1>3
<1>8. shown'.steps = { <<k, n>> : n \in 1..forwarded'[k] }
  BY <1>4, <1>5, <1>6, <1>7
<1>9. /\ last' \in [Ask -> EventKind] /\ open' \in [Ask -> BOOLEAN] /\ open'[k]
      /\ \A j \in Ask : j # k => forwarded'[j] = forwarded[j] /\ open'[j] = open[j]
  BY <1>1 DEF PanelInv, PanelTypeOK, EventKind
<1>10. \A p \in Part : shown'.from[p] \in {None, k}
  BY <1>2, <1>5 DEF PanelInv, ShownIsSent
<1>11. UNCHANGED << panel, stage, settled >>
  BY <1>1
<1> QED
  BY <1>1, <1>2, <1>5, <1>6, <1>8, <1>9, <1>10, <1>11, ArrivalKeeps

\* Any other event of the stream.
LEMMA EventKeeps ==
    ASSUME PanelInv, NEW k \in Ask, NEW kind \in {"accepted"} \cup Part, Deliver(k, kind)
    PROVE  PanelInv'
<1>1. /\ k \notin aborted /\ stage[k] = "reading"
      /\ last' = [last EXCEPT ![k] = kind]
      /\ open' = [open EXCEPT ![k] = kind # "run"]
      /\ UNCHANGED << panel, stage, settled >> /\ forwarded' = forwarded
      /\ IF kind = "accepted" THEN shown' = shown ELSE Shows(kind, k)
  BY DEF Deliver, Handles, Sends
<1>2. k = asked /\ asked # 0
  BY <1>1, HeardIsLast DEF Live, Waiting
<1>3. /\ shown' \in [from : [Part -> 0..MaxAsks], steps : SUBSET (Ask \X Nat)]
      /\ shown'.steps = shown.steps
      /\ \A p \in Part : shown'.from[p] \in {shown.from[p], k}
      /\ kind = "run" => shown'.from["run"] = k
  <2>1. CASE kind = "accepted"
    BY <1>1, <2>1 DEF PanelInv, PanelTypeOK
  <2>2. CASE kind \in Part
    <3>1. Shows(kind, k)
      BY <1>1, <2>2 DEF Part
    <3> QED
      BY <2>2, <3>1, ShowsOne
  <2> QED
    BY <2>1, <2>2
<1>4. /\ last' \in [Ask -> EventKind] /\ open' \in [Ask -> BOOLEAN]
      /\ forwarded' \in [Ask -> Nat]
      /\ \A j \in Ask : j # k => forwarded'[j] = forwarded[j] /\ open'[j] = open[j]
      /\ open'[k] <=> kind # "run"
  BY <1>1 DEF PanelInv, PanelTypeOK, EventKind, Part
<1>5. /\ \A p \in Part : shown'.from[p] \in {None, k}
      /\ shown'.steps = { <<k, n>> : n \in 1..forwarded'[k] }
  BY <1>1, <1>2, <1>3 DEF PanelInv, ShownIsSent
<1> QED
  BY <1>1, <1>2, <1>3, <1>4, <1>5, ArrivalKeeps

\* The error a stream ends with.
LEMMA FailureKeeps ==
    ASSUME PanelInv, NEW k \in Ask, DeliverFailure(k)
    PROVE  PanelInv'
<1>1. /\ k \notin aborted /\ stage[k] = "reading"
      /\ last' = [last EXCEPT ![k] = "error"]
      /\ open' = [open EXCEPT ![k] = FALSE]
      /\ UNCHANGED << panel, stage, settled >> /\ forwarded' = forwarded
      /\ Shows("error", k)
  BY DEF DeliverFailure, Handles
<1>2. k = asked /\ asked # 0
  BY <1>1, HeardIsLast DEF Live, Waiting
<1>3. /\ shown' \in [from : [Part -> 0..MaxAsks], steps : SUBSET (Ask \X Nat)]
      /\ shown'.steps = shown.steps /\ shown'.from["error"] = k
      /\ \A p \in Part : p # "error" => shown'.from[p] = shown.from[p]
  BY <1>1, ShowsOne DEF Part
<1>4. /\ last' \in [Ask -> EventKind] /\ open' \in [Ask -> BOOLEAN]
      /\ forwarded' \in [Ask -> Nat]
      /\ \A j \in Ask : j # k => forwarded'[j] = forwarded[j] /\ open'[j] = open[j]
  BY <1>1 DEF PanelInv, PanelTypeOK, EventKind
<1>5. /\ \A p \in Part : shown'.from[p] \in {None, k}
      /\ shown'.steps = { <<k, n>> : n \in 1..forwarded'[k] }
  BY <1>1, <1>2, <1>3 DEF PanelInv, ShownIsSent
<1> QED
  BY <1>1, <1>2, <1>3, <1>4, <1>5, ArrivalKeeps

\* Headers that arrive change nothing that is shown.
LEMMA RespondKeeps ==
    ASSUME PanelInv, NEW k \in Ask, Respond(k)
    PROVE  PanelInv'
<1>1. PICK st \in {"refused", "reading"} : stage' = [stage EXCEPT ![k] = st]
  BY DEF Respond, Moves
<1>2. /\ stage[k] = "fetching" /\ shown' = shown
      /\ asked' = asked /\ aborted' = aborted /\ controller' = controller /\ busy' = busy
      /\ UNCHANGED << forwarded, last, open, settled >>
  BY DEF Respond, panel, streams
<1>3. PanelTypeOK'
  BY <1>1, <1>2 DEF PanelInv, PanelTypeOK, Stage, Waiting
<1>4. OneIsLive'
  <2>1. \A j \in Ask : Live(j)' <=> Live(j)
    BY <1>1, <1>2 DEF Live, PanelInv, PanelTypeOK, Waiting
  <2> QED
    BY <1>2, <2>1 DEF PanelInv, OneIsLive
<1>5. NotYet'
  BY <1>1, <1>2 DEF PanelInv, NotYet, PanelTypeOK
<1>6. ShownIsSent'
  BY <1>2 DEF PanelInv, ShownIsSent
<1>7. NoSilentEnd'
  <2>1. asked # 0 => asked \in Ask
    BY DEF PanelInv, PanelTypeOK, Ask
  <2> QED
    BY <1>1, <1>2, <2>1 DEF PanelInv, PanelTypeOK, NoSilentEnd
<1> QED
  BY <1>3, <1>4, <1>5, <1>6, <1>7 DEF PanelInv

\* Whatever happens next, the panel stays in order.
LEMMA PanelStep ==
    ASSUME PanelInv, [Next]_vars
    PROVE  PanelInv'
<1>1. CASE AskQuestion
  BY <1>1, AskKeeps
<1>2. CASE Cancel
  BY <1>2, CancelKeeps
<1>3. ASSUME NEW k \in Ask, Settles(k) PROVE PanelInv'
  BY <1>3, RespondKeeps, ThrownKeeps, EofKeeps, StepKeeps, FailureKeeps, EventKeeps DEF Settles
<1>4. CASE UNCHANGED vars
  BY <1>4 DEF vars, panel, streams, PanelInv, PanelTypeOK, OneIsLive, Live, NotYet,
              ShownIsSent, NoSilentEnd
<1> QED
  BY <1>1, <1>2, <1>3, <1>4 DEF Next

\* The invariant holds of every panel, for any number of questions and steps.
THEOREM PanelInOrder == Spec => []PanelInv
  BY PanelInit, PanelStep, PTL DEF Spec

\* Everything on the panel is about the question asked last.
THEOREM OneIsShown == Spec => []OneQuestionShown
<1>1. PanelInv => OneQuestionShown
  <2> SUFFICES ASSUME PanelInv PROVE OneQuestionShown
    OBVIOUS
  <2>1. \A s \in shown.steps : s[1] = asked
    BY DEF PanelInv, ShownIsSent
  <2> QED
    BY <2>1 DEF PanelInv, ShownIsSent, OneQuestionShown
<1> QED
  BY <1>1, PanelInOrder, PTL

\* The panel is busy exactly while the question it shows is under way.
THEOREM BusyIsExact == Spec => []BusyIsTheWork
<1>1. PanelInv => BusyIsTheWork
  <2> SUFFICES ASSUME PanelInv PROVE BusyIsTheWork
    OBVIOUS
  <2>1. asked # 0 => asked \in Ask
    BY DEF PanelInv, PanelTypeOK, Ask
  <2>2. busy <=> controller # None
    BY DEF PanelInv, OneIsLive
  <2>3. controller # None <=> asked # 0 /\ controller = asked
    BY DEF PanelInv, OneIsLive, None
  <2>4. asked # 0 => (controller = asked <=> stage[asked] \in Waiting /\ asked \notin aborted)
    BY <2>1 DEF PanelInv, OneIsLive, Live
  <2> QED
    BY <2>2, <2>3, <2>4, Zenon DEF BusyIsTheWork
<1> QED
  BY <1>1, PanelInOrder, PTL

\* A question that was not stopped leaves its run or its error.
THEOREM NoEndIsSilent == Spec => []NoSilentEnd
<1>1. PanelInv => NoSilentEnd
  BY DEF PanelInv
<1> QED
  BY <1>1, PanelInOrder, PTL

\* With the run, every step its stream sent is shown.
THEOREM PanelShowsTheStream == Spec => []PanelIsTheStream
<1>1. PanelInv => PanelIsTheStream
  <2> SUFFICES ASSUME PanelInv, shown.from["run"] # None
               PROVE  shown.steps = { <<asked, n>> : n \in 1..forwarded[asked] }
    BY DEF PanelIsTheStream
  <2>1. asked # 0
    BY DEF PanelInv, ShownIsSent, Part, None
  <2> QED
    BY <2>1 DEF PanelInv, ShownIsSent
<1> QED
  BY <1>1, PanelInOrder, PTL

\* A call that changes what is shown is heard, so its controller is there before it
\* or the question is a new one.
LEMMA StillStep ==
    ASSUME PanelInv, [Next]_vars, controller = None, controller' = None
    PROVE  shown' = shown
<1>1. ASSUME NEW k \in Ask PROVE ~Live(k)
  BY HeardIsLast
<1>2. CASE AskQuestion
  BY <1>2, BoundsAssumption DEF AskQuestion, None, PanelInv, PanelTypeOK
<1>3. CASE Cancel \/ UNCHANGED vars
  BY <1>3 DEF Cancel, vars
<1>4. ASSUME NEW k \in Ask, Settles(k) PROVE shown' = shown
  <2>1. stage[k] = "reading" => k \in aborted
    BY <1>1 DEF Live, Waiting
  <2>2. CASE Thrown(k)
    BY <1>1, <2>2 DEF Thrown, Catch, Live
  <2>3. CASE Respond(k) \/ Eof(k)
    BY <2>3 DEF Respond, Eof
  <2>4. CASE DeliverStep(k) \/ DeliverFailure(k)
              \/ \E kind \in {"accepted"} \cup Part : Deliver(k, kind)
    BY <2>1, <2>4 DEF DeliverStep, DeliverFailure, Deliver, Handles, Sends
  <2> QED
    BY <1>4, <2>2, <2>3, <2>4 DEF Settles
<1> QED
  BY <1>2, <1>3, <1>4 DEF Next

\* A stopped panel stays as it is until the next question.
THEOREM StoppedStays == Spec => StoppedIsStill
<1>1. PanelInv /\ [Next]_vars
        => [(controller = None /\ controller' = None) => shown' = shown]_vars
  BY StillStep
<1> QED
  BY <1>1, PanelInOrder, PTL DEF Spec, StoppedIsStill

-----------------------------------------------------------------------------
(* The stream of each question.                                             *)

\* Every step of the panel is, for each question, a step of the stream that was
\* promised to its reader, or none.
LEMMA StreamStep ==
    ASSUME PanelInv, [Next]_vars, NEW q \in Ask
    PROVE  [Stream(q)!StreamNext]_(Stream(q)!svars)
<1> USE DEF Stream!StreamNext, Stream!svars, Stream!Send, Stream!Break, Stream!Kind
<1>1. CASE AskQuestion \/ Cancel \/ UNCHANGED vars
  BY <1>1 DEF AskQuestion, Cancel, vars, streams
<1>2. ASSUME NEW k \in Ask, Settles(k)
      PROVE  Stream(q)!StreamNext \/ UNCHANGED Stream(q)!svars
  <2>1. CASE Respond(k) \/ Thrown(k) \/ Eof(k)
    BY <2>1 DEF Respond, Thrown, Eof, streams
  <2>2. ASSUME NEW kind \in Stream(q)!Kind, Sends(k, kind)
        PROVE  Stream(q)!Send(kind) \/ UNCHANGED Stream(q)!svars
    BY <2>2 DEF Sends, PanelInv, PanelTypeOK
  <2>3. CASE DeliverStep(k)
    BY <2>2, <2>3 DEF DeliverStep
  <2>4. CASE \E kind \in {"accepted"} \cup Part : Deliver(k, kind)
    BY <2>2, <2>4 DEF Deliver, Part
  <2>5. CASE DeliverFailure(k)
    BY <2>5 DEF DeliverFailure, PanelInv, PanelTypeOK
  <2> QED
    BY <1>2, <2>1, <2>3, <2>4, <2>5 DEF Settles
<1> QED
  BY <1>1, <1>2 DEF Next

\* The panel reads, for each question, a stream as EventStream promises it: what is
\* shown rests on nothing else that the service does.
THEOREM PanelReadsThePromise ==
    ASSUME NEW q \in Ask
    PROVE  Spec => Stream(q)!EventStreamSpec
<1>1. Init => Stream(q)!StreamInit
  BY DEF Init, Stream!StreamInit
<1>2. PanelInv /\ [Next]_vars => [Stream(q)!StreamNext]_(Stream(q)!svars)
  BY StreamStep
<1> QED
  BY <1>1, <1>2, PanelInOrder, PTL DEF Spec, Stream!EventStreamSpec

=============================================================================
