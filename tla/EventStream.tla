----------------------------- MODULE EventStream -----------------------------
(***************************************************************************)
(* What POST /api/ask/stream promises its reader, whatever happens inside: *)
(* the events of one question, in the order the panel is built from.       *)
(* A settled question - rejected, or to be clarified - has no analysis to  *)
(* show; any other is analysed, answered, and then reported whole.         *)
(*                                                                         *)
(* The reader has understood the plan before anything of it is carried     *)
(* out, gets the wording before the run, and nothing after the run.  A     *)
(* stream may break at any point, and then says no more than that.         *)
(***************************************************************************)

VARIABLES
    last,     \* the kind of the last event sent
    open,     \* the stream has not closed
    settled   \* understanding settled the question by itself

svars == << last, open, settled >>

Kind == {"accepted", "understanding", "tool_result", "answer", "error", "run"}

StreamInit == last = "none" /\ open = TRUE /\ settled \in BOOLEAN

Follows(kind) ==
    CASE kind = "accepted"      -> last = "none"
      [] kind = "understanding" -> last = "accepted"
      [] kind = "tool_result"   -> last \in {"understanding", "tool_result"} /\ ~settled
      [] kind = "answer"        -> last \in {"understanding", "tool_result"} /\ ~settled
      [] kind = "error"         -> last = "answer"
      [] kind = "run"           -> IF settled THEN last = "understanding"
                                              ELSE last \in {"answer", "error"}

Send(kind) ==
    /\ open /\ Follows(kind)
    /\ last' = kind
    /\ open' = (kind # "run")
    /\ UNCHANGED settled

(* The reader left, or the work failed and the stream ends with that error. *)
Break ==
    /\ open /\ open' = FALSE
    /\ last' \in {last, "error"}
    /\ UNCHANGED settled

StreamNext == (\E kind \in Kind : Send(kind)) \/ Break

EventStreamSpec == StreamInit /\ [][StreamNext]_svars

=============================================================================
