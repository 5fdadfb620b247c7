-------------------------- MODULE StructuredOutput --------------------------
(***************************************************************************)
(* OpenAICompatibleLLMClient.structured (backend/app/llm/                  *)
(* openai_compatible.py): how the one client of the process finds out      *)
(* which structured-output mode its endpoint accepts, while several        *)
(* requests are in flight.  They share one field, `mode`, which a call     *)
(* reads before its first request and writes after its first reply.        *)
(*                                                                         *)
(* A call is one `structured` call: it walks down the modes until one is   *)
(* not rejected, and asks once more when the reply does not validate.      *)
(***************************************************************************)
EXTENDS Integers, Sequences

CONSTANTS
    Calls     \* the structured calls made of this client

Unset == "unset"

Modes == << "json_schema", "json_object", "prompt" >>

Mode == { Modes[j] : j \in DOMAIN Modes }

VARIABLES
    accepts,  \* the formats this endpoint supports
    mode,     \* client._mode
    state,    \* where each call is
    left,     \* left[c]: the modes c has not been refused, the next one first
    found,    \* found[c]: the client's mode when c began
    asked     \* asked[c]: the modes of the requests c has sent

cvars == << accepts, mode, state, left, found, asked >>

\* What is left of the modes, best first.
Walk == { SubSeq(Modes, j, Len(Modes)) : j \in 1..(Len(Modes) + 1) }

State == {"idle", "asking", "repairing", "returned", "failed"}

-----------------------------------------------------------------------------

Rank(m) == CHOOSE j \in DOMAIN Modes : Modes[j] = m

\* Slip: every call negotiates from the top.
WholeWalk(m) == Modes

\* STRUCTURED_MODES from the remembered mode on, or all of them.
WalkFrom(m) == IF m = Unset THEN Modes ELSE SubSeq(Modes, Rank(m), Len(Modes))

Current(c) == Head(left[c])

Sends(c, m) == asked' = [asked EXCEPT ![c] = Append(@, m)]

Moves(c, st) == state' = [state EXCEPT ![c] = st]

Start(c) ==
    /\ state[c] = "idle"
    /\ Moves(c, "asking")
    /\ found' = [found EXCEPT ![c] = mode]
    /\ left' = [left EXCEPT ![c] = WalkFrom(mode)]
    /\ Sends(c, Head(WalkFrom(mode)))
    /\ UNCHANGED << accepts, mode >>

\* Without a response_format nothing is taken for a rejection of one, so the
\* walk never runs out of modes; what an endpoint supports does not change.
CanReject(m) == m # "prompt" /\ m \notin accepts

\* Slip: the next mode is remembered before the endpoint has accepted it.
RejectRemembering(c) ==
    /\ state[c] = "asking" /\ CanReject(Current(c))
    /\ left' = [left EXCEPT ![c] = Tail(@)]
    /\ mode' = Head(Tail(left[c]))
    /\ Sends(c, Head(Tail(left[c])))
    /\ UNCHANGED << accepts, state, found >>

Reject(c) ==
    /\ state[c] = "asking" /\ CanReject(Current(c))
    /\ left' = [left EXCEPT ![c] = Tail(@)]
    /\ Sends(c, Head(Tail(left[c])))
    /\ UNCHANGED << accepts, mode, state, found >>

CanReply(m) == m \in accepts \/ m = "prompt"

(* A reply in this mode: it is remembered, whether or not it validates. *)
Remember(c) ==
    /\ state[c] = "asking" /\ CanReply(Current(c))
    /\ mode' = Current(c)
    /\ UNCHANGED << accepts, left, found >>

Valid(c) == Remember(c) /\ Moves(c, "returned") /\ UNCHANGED asked

Malformed(c) == Remember(c) /\ Moves(c, "repairing") /\ Sends(c, Current(c))

(* Unreachable, timed out, an error status, a reply without the text: LLMError. *)
Fail(c) ==
    /\ state[c] \in {"asking", "repairing"}
    /\ Moves(c, "failed")
    /\ UNCHANGED << accepts, mode, left, found, asked >>

RepairAnswered(c) ==
    /\ state[c] = "repairing"
    /\ Moves(c, "returned")
    /\ UNCHANGED << accepts, mode, left, found, asked >>

\* Slip: it is asked again for as long as the reply does not validate.
RepairAgain(c) ==
    /\ state[c] = "repairing"
    /\ Len(asked[c]) < 2 * Len(Modes)
    /\ Sends(c, Current(c))
    /\ UNCHANGED << accepts, mode, state, left, found >>

(* The corrected reply does not validate either: LLMError. *)
Unrepaired(c) ==
    /\ state[c] = "repairing"
    /\ Moves(c, "failed")
    /\ UNCHANGED << accepts, mode, left, found, asked >>

-----------------------------------------------------------------------------

\* build_llm_client passes the client no mode, whatever is pinned.
GivenMode == Unset

CallsInit ==
    /\ accepts \in SUBSET Mode
    /\ mode = GivenMode
    /\ state = [c \in Calls |-> "idle"]
    /\ left = [c \in Calls |-> << >>]
    /\ found = [c \in Calls |-> Unset]
    /\ asked = [c \in Calls |-> << >>]

Answer(c) == \/ Reject(c) \/ Valid(c) \/ Malformed(c) \/ Fail(c)
             \/ RepairAnswered(c) \/ Unrepaired(c)

CallsNext == \E c \in Calls : Start(c) \/ Answer(c)

CallsSpec == CallsInit /\ [][CallsNext]_cvars

-----------------------------------------------------------------------------
(* Properties. *)

Best == CHOOSE m \in Mode :
            /\ CanReply(m)
            /\ \A n \in Mode : CanReply(n) => Rank(m) <= Rank(n)

\* Whatever the order in which concurrent calls are answered, the mode that is
\* remembered is the best the endpoint accepts, and not one that was only tried
\* (openai_compatible.py:26, 113-128).
ModeIsBest == mode # Unset => mode = Best

\* What was negotiated is not negotiated again: a call that finds a mode makes
\* its requests in that mode and sends nothing that will be rejected
\* (test_local_llm.py, test_the_negotiated_mode_is_reused_and_not_renegotiated).
SettledIsReused ==
    \A c \in Calls : found[c] # Unset =>
        \A j \in DOMAIN asked[c] : asked[c][j] = found[c]

\* A call costs at most one request per mode and one repair: it goes down the
\* list without a gap, and only its last request may repeat a mode.
WalkIsShort ==
    \A c \in Calls :
        LET n == Len(asked[c]) IN
        /\ \A j \in 1..(n - 1) :
             \/ Rank(asked[c][j + 1]) = Rank(asked[c][j]) + 1
             \/ j = n - 1 /\ asked[c][j + 1] = asked[c][j]
        /\ (n > 1 /\ asked[c][n] = asked[c][n - 1]) => state[c] # "asking"

=============================================================================
