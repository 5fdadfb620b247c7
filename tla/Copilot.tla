------------------------------ MODULE Copilot ------------------------------
(***************************************************************************)
(* The panel that asks (frontend/components/Copilot.tsx) reading the       *)
(* event stream of each question (frontend/lib/sse.ts).  Each call of      *)
(* `ask` is an async function with an AbortController of its own; all of   *)
(* them write one React state.  A call that was stopped is still there: it *)
(* resumes when its fetch, its error body or its read settles.             *)
(*                                                                         *)
(* The stream of question k is the one EventStream promises.  It has no    *)
(* buffer here: an event under way when a question is stopped is an event  *)
(* not yet sent, since the reader ignores both.                            *)
(***************************************************************************)
EXTENDS Integers, FiniteSets

CONSTANTS
    MaxAsks,   \* bound: questions asked
    MaxSteps   \* bound: steps in the trace of one question

ASSUME BoundsAssumption == MaxAsks \in Nat \ {0} /\ MaxSteps \in Nat

VARIABLES
    asked,       \* questions asked so far
    stage,       \* stage[k]: what the call for question k awaits
    aborted,     \* questions whose AbortController has fired
    controller,  \* the question the ref's AbortController belongs to, or None
    busy,
    shown,       \* the panel: what each part of it came from
    forwarded,   \* steps each stream has sent
    last, open, settled   \* as in EventStream, for each question

panel   == << asked, aborted, controller, busy >>
streams == << forwarded, last, open, settled >>
vars    == << panel, stage, shown, streams >>

Ask == 1..MaxAsks

None == 0

Waiting == {"fetching", "refused", "reading"}

Stage == Waiting \cup {"unasked", "ended"}

Part == {"understanding", "answer", "run", "error"}

\* Which question each part of the panel is about, and the steps listed.
Empty == [from |-> [p \in Part |-> None], steps |-> {}]

Stream(k) == INSTANCE EventStream WITH
    last <- last[k], open <- open[k], settled <- settled[k]

-----------------------------------------------------------------------------
(* What the user does. *)

Moves(k, st) == stage' = [stage EXCEPT ![k] = st]

Fires(k) == aborted' = IF k = None THEN aborted ELSE aborted \cup {k}

\* Slip: the panel keeps what the last question left.
AskMerging ==
    /\ ~busy /\ asked < MaxAsks
    /\ asked' = asked + 1
    /\ Fires(controller)
    /\ controller' = asked + 1
    /\ busy' = TRUE
    /\ Moves(asked + 1, "fetching")
    /\ UNCHANGED << shown, streams >>

(* The composer and the options of a clarification are disabled while busy. *)
AskQuestion ==
    /\ ~busy /\ asked < MaxAsks
    /\ asked' = asked + 1
    /\ Fires(controller)
    /\ controller' = asked + 1
    /\ busy' = TRUE
    /\ shown' = Empty
    /\ Moves(asked + 1, "fetching")
    /\ UNCHANGED streams

\* Slip: Stop frees the panel and leaves the call running.
CancelQuietly ==
    /\ busy
    /\ controller' = None
    /\ busy' = FALSE
    /\ UNCHANGED << asked, aborted, stage, shown, streams >>

Cancel ==
    /\ busy
    /\ Fires(controller)
    /\ controller' = None
    /\ busy' = FALSE
    /\ UNCHANGED << asked, stage, shown, streams >>

-----------------------------------------------------------------------------
(* What a call does when its await settles. *)

Shows(part, k) == shown' = [shown EXCEPT !.from[part] = k]

\* Slip: the last call to end is taken for the current one.
FinishAny(k) ==
    /\ Moves(k, "ended")
    /\ controller' = None /\ busy' = FALSE
    /\ UNCHANGED << asked, aborted >>

\* Slip: the controller is cleared before it is compared for the busy flag.
FinishForgetting(k) ==
    /\ Moves(k, "ended")
    /\ controller' = IF controller = k THEN None ELSE controller
    /\ UNCHANGED << asked, aborted, busy >>

\* The finally clause: only the current question frees the panel.
Finish(k) ==
    /\ Moves(k, "ended")
    /\ IF controller = k
       THEN controller' = None /\ busy' = FALSE
       ELSE UNCHANGED << controller, busy >>
    /\ UNCHANGED << asked, aborted >>

\* Slip: an error the reader meets is left for the console.
CatchQuietly(k) == UNCHANGED shown /\ Finish(k)

(* The catch clause, after fetch, the error body or a read has thrown. *)
Catch(k) ==
    /\ IF k \in aborted THEN UNCHANGED shown ELSE Shows("error", k)
    /\ Finish(k)

(* Headers: 200 with a body to read, or a refusal whose body is read first. *)
Respond(k) ==
    /\ stage[k] = "fetching" /\ k \notin aborted
    /\ \E st \in {"refused", "reading"} : Moves(k, st)
    /\ UNCHANGED << panel, shown, streams >>

Thrown(k) ==
    /\ stage[k] \in Waiting   \* a refusal always ends here
    /\ Catch(k)
    /\ UNCHANGED streams

Sends(k, kind) ==
    /\ stage[k] = "reading" /\ open[k] /\ Stream(k)!Follows(kind)
    /\ last' = [last EXCEPT ![k] = kind]
    /\ open' = [open EXCEPT ![k] = kind # "run"]
    /\ UNCHANGED settled

\* handle() ignores what arrives after the abort.
Handles(k) == k \notin aborted

\* Slip: each step replaces the ones before it.
StepAlone(k, n) == shown' = [shown EXCEPT !.steps = {<<k, n>>}]

StepArrives(k, n) == shown' = [shown EXCEPT !.steps = @ \cup {<<k, n>>}]

DeliverStep(k) ==
    /\ Handles(k)
    /\ forwarded[k] < MaxSteps
    /\ Sends(k, "tool_result")
    /\ forwarded' = [forwarded EXCEPT ![k] = @ + 1]
    /\ StepArrives(k, forwarded[k] + 1)
    /\ UNCHANGED << panel, stage >>

Deliver(k, kind) ==
    /\ Handles(k)
    /\ Sends(k, kind)
    /\ IF kind = "accepted" THEN UNCHANGED shown ELSE Shows(kind, k)
    /\ UNCHANGED << panel, stage, forwarded >>

(* The work failed and the stream ends with that error. *)
DeliverFailure(k) ==
    /\ Handles(k)
    /\ stage[k] = "reading" /\ open[k]
    /\ last' = [last EXCEPT ![k] = "error"]
    /\ open' = [open EXCEPT ![k] = FALSE]
    /\ Shows("error", k)
    /\ UNCHANGED << panel, stage, forwarded, settled >>

(* The body is at its end, or the reader notices the abort after a chunk. *)
Eof(k) ==
    /\ stage[k] = "reading"
    /\ ~open[k] \/ k \in aborted
    /\ Finish(k)
    /\ UNCHANGED << shown, streams >>

-----------------------------------------------------------------------------

Init ==
    /\ asked = 0
    /\ stage = [k \in Ask |-> "unasked"]
    /\ aborted = {}
    /\ controller = None
    /\ busy = FALSE
    /\ shown = Empty
    /\ forwarded = [k \in Ask |-> 0]
    /\ last = [k \in Ask |-> "none"]
    /\ open = [k \in Ask |-> TRUE]
    /\ settled \in [Ask -> BOOLEAN]

Settles(k) ==
    \/ Respond(k) \/ Thrown(k) \/ Eof(k) \/ DeliverStep(k) \/ DeliverFailure(k)
    \/ \E kind \in {"accepted"} \cup Part : Deliver(k, kind)

Next == AskQuestion \/ Cancel \/ \E k \in Ask : Settles(k)

Spec == Init /\ [][Next]_vars

\* A fetch or a read is answered, ended or dropped: the stream comes to its end
\* (Pipeline, RequestEnds).  Nobody has to press Stop.
FairSpec == Spec /\ \A k \in Ask : WF_vars(Settles(k))

-----------------------------------------------------------------------------
(* Properties. *)

\* State is replaced, never merged across questions: everything on the panel is
\* about the question asked last, even while calls for earlier ones are still
\* resuming (Copilot.tsx:37-39).
OneQuestionShown ==
    /\ \A p \in Part : shown.from[p] \in {None, asked}
    /\ \A s \in shown.steps : s[1] = asked

\* The panel is busy exactly while the question it shows is under way, so what
\* `busy` disables is disabled neither too long nor too briefly.
BusyIsTheWork ==
    busy <=> asked # 0 /\ asked \notin aborted /\ stage[asked] \in Waiting

\* A question that was not stopped does not end in silence: the panel has its
\* run, or says what went wrong.
NoSilentEnd ==
    (asked # 0 /\ asked \notin aborted /\ stage[asked] = "ended") =>
        shown.from["run"] = asked \/ shown.from["error"] = asked

\* When the run is shown, so is every step its stream sent.
PanelIsTheStream ==
    shown.from["run"] # None =>
        shown.steps = { <<asked, n>> : n \in 1..forwarded[asked] }

\* A stopped panel stays as it is until the next question.
StoppedIsStill ==
    [][(controller = None /\ controller' = None) => shown' = shown]_vars

\* The panel is given back without anyone pressing Stop.
BusyEnds == busy ~> ~busy

=============================================================================
