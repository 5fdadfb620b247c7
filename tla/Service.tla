------------------------------ MODULE Service ------------------------------
(***************************************************************************)
(* The backend process (main.py): the pools, the model client and the      *)
(* warm-up it opens and closes, and the requests it serves in between,     *)
(* each a chain of queries that take a connection one at a time (db.py)    *)
(* while midnight passes in the factory.                                   *)
(*                                                                         *)
(* Two kinds of request stand for all: a capacity question, whose queries  *)
(* are those of the entity check and of the calculation, and /api/health.  *)
(***************************************************************************)
EXTENDS Windows, Sequences, FiniteSets

CONSTANTS
    Questions,     \* requests to /api/ask
    Checks,        \* requests to /api/health
    Labels,        \* the windows that are asked about
    FirstDays,     \* days on which the process may start
    Newest,        \* the newest production record then
    MaxMidnights,  \* bound: how often midnight passes
    ToolPool,      \* db_pool_max_size
    AuditPool      \* half of it, and two at least

ASSUME PoolsAssumption == ToolPool \in Nat \ {0} /\ AuditPool \in Nat \ {0}

\* A request is to one address.
ASSUME RequestsAssumption == Questions \cap Checks = {}

ASSUME DaysAssumption == FirstDays \subseteq Int /\ Newest \subseteq Int

VARIABLES
    stage,      \* where lifespan is
    open,       \* what the process holds open
    warmup,     \* app.state.warmup_task
    today,      \* the factory's day
    midnights,
    newest,     \* the day of the newest production record
    request     \* the requests, each with what it has read

svars == << stage, open, warmup, today, midnights, newest, request >>

Request == Questions \cup Checks

Resource == {"tool pool", "audit pool", "model client", "warm-up client"}

\* Queries in order, one standing for those alike; the audit row is the last of
\* a question's.
Queries(r) ==
    IF r \in Questions THEN << "entities", "calculation", "audit" >>
    ELSE << "machine ids", "last production day" >>

NoWindow == Unresolved

Unasked(label) ==
    [at |-> "unasked", next |-> 1, label |-> label, asked |-> 0, period |-> NoWindow,
     counted |-> NoWindow, read |-> NoDay, says |-> "nothing"]

Over == {"answered", "failed"}

Served(r) == request[r].at \in {"waiting", "querying", "resumed"}

CurrentQuery(r) == Queries(r)[request[r].next]

PoolOf(query) == IF query = "audit" THEN "audit pool" ELSE "tool pool"

SizeOf(pool) == IF pool = "audit pool" THEN AuditPool ELSE ToolPool

\* The connections of a pool that are acquired.
Acquired(pool) ==
    { r \in Request : request[r].at = "querying" /\ PoolOf(CurrentQuery(r)) = pool }

-----------------------------------------------------------------------------
(* Startup, one await at a time. *)

\* create_pool asks the server who it is: when that fails the pool is left.
OpenToolPool ==
    /\ stage = "starting"
    /\ \/ stage' = "tool pool open" /\ open' = open \cup {"tool pool"}
       \/ stage' = "failed" /\ open' \in {open, open \cup {"tool pool"}}
    /\ UNCHANGED << warmup, today, midnights, newest, request >>

\* Without the audit pool the process serves, and records nothing.
OpenAuditPool ==
    /\ stage = "tool pool open"
    /\ stage' = "pools open"
    /\ open' \in {open, open \cup {"audit pool"}}
    /\ UNCHANGED << warmup, today, midnights, newest, request >>

\* A client is built and a local one probed: one that cannot be reached is given
\* up, one that answers with something that is not JSON stops the process.
ProbeModel ==
    /\ stage = "pools open"
    /\ \/ stage' = "model known" /\ open' \in {open, open \cup {"model client"}}
       \/ stage' = "failed" /\ open' = open \cup {"model client"}
    /\ UNCHANGED << warmup, today, midnights, newest, request >>

\* The warm-up is scheduled, the dataset looked at for the log, and the
\* process serves.
StartServing ==
    /\ stage = "model known"
    /\ stage' = "serving"
    /\ warmup' \in IF "model client" \in open THEN {"none", "scheduled"} ELSE {"none"}
    /\ UNCHANGED << open, today, midnights, newest, request >>

(* The warm-up runs beside the requests, with a client of its own. *)

WarmUpStarts ==
    /\ warmup = "scheduled"
    /\ warmup' = "running"
    /\ open' = open \cup {"warm-up client"}
    /\ UNCHANGED << stage, today, midnights, newest, request >>

\* Slip: the client is closed when the model answered, not when it was left.
WarmUpEndsWithoutFinally ==
    /\ warmup \in {"running", "cancelled"}
    /\ warmup' = "done"
    /\ open' = IF warmup = "running" THEN open \ {"warm-up client"} ELSE open
    /\ UNCHANGED << stage, today, midnights, newest, request >>

\* It is ready, it fails, or the cancellation reaches it: the client is closed.
WarmUpEnds ==
    /\ warmup \in {"running", "cancelled"}
    /\ warmup' = "done"
    /\ open' = open \ {"warm-up client"}
    /\ UNCHANGED << stage, today, midnights, newest, request >>

\* The server calls lifespan back when no request is left.
Stop ==
    /\ stage = "serving" /\ \A r \in Request : ~Served(r)
    /\ stage' = "closing"
    /\ warmup' = CASE warmup = "running"   -> "cancelled"
                   [] warmup = "scheduled" -> "done"   \* it never ran
                   [] OTHER                -> warmup
    /\ UNCHANGED << open, today, midnights, newest, request >>

CloseModel ==
    /\ stage = "closing"
    /\ stage' = "model closed"
    /\ open' = open \ {"model client"}
    /\ UNCHANGED << warmup, today, midnights, newest, request >>

ClosePools ==
    /\ stage = "model closed"
    /\ stage' = "pools closed"
    /\ open' = open \ {"tool pool", "audit pool"}
    /\ UNCHANGED << warmup, today, midnights, newest, request >>

\* The event loop ends after the tasks that are left have.
Exit ==
    /\ stage = "pools closed" /\ warmup \in {"none", "done"}
    /\ stage' = "exited"
    /\ UNCHANGED << open, warmup, today, midnights, newest, request >>

-----------------------------------------------------------------------------
(* The factory. *)

Midnight ==
    /\ midnights < MaxMidnights
    /\ midnights' = midnights + 1
    /\ today' = today + 1
    /\ UNCHANGED << stage, open, warmup, newest, request >>

\* `make db-seed` lays the history out up to and including yesterday.
Seed ==
    /\ stage = "serving"
    /\ newest # today - 1
    /\ newest' = today - 1
    /\ UNCHANGED << stage, open, warmup, today, midnights, request >>

-----------------------------------------------------------------------------
(* Requests. *)

Ask(r) ==
    /\ stage = "serving" /\ r \in Questions /\ request[r].at = "unasked"
    /\ request' = [request EXCEPT
         ![r].at = "waiting", ![r].asked = today, ![r].period = Resolve(request[r].label, today)]
    /\ UNCHANGED << stage, open, warmup, today, midnights, newest >>

Check(r) ==
    /\ stage = "serving" /\ r \in Checks /\ request[r].at = "unasked"
    /\ request' = [request EXCEPT ![r].at = "waiting"]
    /\ UNCHANGED << stage, open, warmup, today, midnights, newest >>

\* pool.acquire() waits as long as every connection is taken.
Acquire(r) ==
    /\ request[r].at = "waiting"
    /\ LET pool == PoolOf(CurrentQuery(r))
       IN  pool \in open /\ Cardinality(Acquired(pool)) < SizeOf(pool)
    /\ request' = [request EXCEPT ![r].at = "querying"]
    /\ UNCHANGED << stage, open, warmup, today, midnights, newest >>

\* The query is answered and its connection given back.
QueryReturns(r) ==
    /\ request[r].at = "querying"
    /\ request' = [request EXCEPT
         ![r].at = "resumed",
         ![r].read = IF CurrentQuery(r) = "last production day" THEN newest ELSE @]
    /\ UNCHANGED << stage, open, warmup, today, midnights, newest >>

\* Slip: no command_timeout.
CommandNeverTimesOut(r) == request[r].at = "querying" /\ FALSE /\ UNCHANGED svars

\* command_timeout, or an error of the server: the connection is given back, a
\* health check says degraded, a question fails, and one that only its record
\* failed for is answered all the same.
CommandFails(r) ==
    /\ request[r].at = "querying"
    /\ request' = [request EXCEPT
         ![r].at = IF r \in Checks \/ CurrentQuery(r) = "audit" THEN "answered" ELSE "failed",
         ![r].says = IF r \in Checks THEN "degraded" ELSE "unrecorded"]
    /\ UNCHANGED << stage, open, warmup, today, midnights, newest >>

\* Slip: the calculation is given the dates of the day the process started.
CountedFromStart(r) == Resolve(request[r].label, today - midnights)

\* calculate_production_capacity resolves its label once, before it reads.
Counted(r) ==
    IF CurrentQuery(r) = "entities" THEN Resolve(request[r].label, today)
    ELSE request[r].counted

\* Slip: today is read before the query is sent.
ReportedFromBefore(r) == Assess(request[r].read, today - midnights)

\* The arguments of assess are evaluated in order: the query first, then today.
Reported(r) == Assess(request[r].read, today)

\* The request goes on where it awaited: with its next query, or to its end.
\* Without an audit pool there is no row to write.
Resume(r) ==
    /\ request[r].at = "resumed"
    /\ \/ /\ request[r].next < Len(Queries(r))
          /\ Queries(r)[request[r].next + 1] = "audit" => "audit pool" \in open
          /\ request' = [request EXCEPT
               ![r].at = "waiting", ![r].next = @ + 1, ![r].counted = Counted(r)]
       \/ /\ CurrentQuery(r) = "calculation" /\ "audit pool" \notin open
          /\ request' = [request EXCEPT ![r].at = "answered", ![r].says = "unrecorded"]
       \/ /\ CurrentQuery(r) = "audit"
          /\ request' = [request EXCEPT ![r].at = "answered", ![r].says = "recorded"]
       \/ /\ CurrentQuery(r) = "last production day"
          /\ request' = [request EXCEPT ![r].at = "answered", ![r].says = Reported(r)]
    /\ UNCHANGED << stage, open, warmup, today, midnights, newest >>

-----------------------------------------------------------------------------

Init ==
    /\ stage = "starting"
    /\ open = {}
    /\ warmup = "none"
    /\ today \in FirstDays
    /\ midnights = 0
    /\ newest \in Newest
    /\ \E label \in [Questions -> Labels] :
         request = [r \in Request |->
                      Unasked(IF r \in Questions THEN label[r] ELSE Named("today"))]

Serve(r) == Ask(r) \/ Check(r) \/ Acquire(r) \/ QueryReturns(r) \/ CommandFails(r) \/ Resume(r)

Lifespan ==
    \/ OpenToolPool \/ OpenAuditPool \/ ProbeModel \/ StartServing
    \/ WarmUpStarts \/ WarmUpEnds
    \/ Stop \/ CloseModel \/ ClosePools \/ Exit

Next == Lifespan \/ Midnight \/ Seed \/ \E r \in Request : Serve(r)

Spec == Init /\ [][Next]_svars

\* A task that can run does, and a command that is not answered times out.  The
\* database owes no answer.
FairSpec ==
    /\ Spec
    /\ \A r \in Request : WF_svars(Acquire(r) \/ CommandFails(r) \/ Resume(r))

-----------------------------------------------------------------------------
(* Properties. *)

\* The weeks and days the labels mean, by the calendar and not by offsets: a week
\* label is the days of one ISO week, this_week those of the current one that have
\* not elapsed, the windows of the past end where today begins, and a range is the
\* days between its dates or an error
\* (timewindow.py:84-91, 108-172).
WindowsAreTheCalendar ==
    stage = "starting" =>
        \A day \in today..(today + 6) :
            LET week(n)    == { d \in (day - 40)..(day + 40) : d \div 7 = (day \div 7) + n }
                days(word) == Days(Resolve(Named(word), day))
            IN  /\ days("last_week") = week(-1)
                /\ days("full_week") = week(0)
                /\ days("next_week") = week(1)
                /\ days("this_week") = { d \in week(0) : d >= day }
                /\ \A past \in {"yesterday", "last_7_days", "last_30_days"} :
                     /\ days(past) \cap (days("today") \cup days("this_week")) = {}
                     /\ day - 1 \in days(past)
                /\ \A word \in Keyword :
                     Resolve(Named(word), day).days = Cardinality(days(word))
                /\ \A from, to \in week(0) :
                     Days(Resolve(Between(from, to), day)) = { d \in week(0) : from <= d /\ d <= to }

\* Capacity is counted over days that can still be worked: however often midnight
\* passes during a question about the present or the future, no day it counts had
\* elapsed when it was asked; and outside that the period it shows is the one it
\* counts (understanding.py:98, mes_tools.py:545).
NothingElapsedIsCounted ==
    \A r \in Questions :
        LET q == request[r] IN
        q.counted # NoWindow =>
            /\ q.label.word \in {"today", "tomorrow", "this_week", "next_week"} =>
                 \A d \in Days(q.counted) : d >= q.asked
            /\ (q.label.word = "range" \/ today = q.asked) => q.counted = q.period

\* A health check never calls a dataset fresh that is out of date when it says so,
\* although midnight may pass, and the data be laid out anew, between its queries
\* and its answer (routes.py:83-88, dataset.py:79-86).
FreshIsNeverStale ==
    [][\A r \in Checks :
         (request[r].says = "nothing" /\ request'[r].says = "fresh") =>
             newest' = today' - 1]_svars

\* A request that is under way ends, although every connection may be taken and the
\* database may never answer: a command that times out gives its connection back,
\* and no request waits for one while it holds another (db.py:28-36, 97-104).
EveryRequestEnds ==
    \A r \in Request : Served(r) ~> request[r].at \in Over

\* A process that was stopped has closed what it opened, whatever was missing or
\* unreachable when it started and whatever the warm-up was doing
\* (main.py:32-57, 151-159; db.py:81-88).
NothingLeftOpen == stage = "exited" => open = {}

=============================================================================
