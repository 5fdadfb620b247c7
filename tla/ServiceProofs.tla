---------------------------- MODULE ServiceProofs ----------------------------
(***************************************************************************)
(* What holds of the backend process for any requests, any pools and       *)
(* however often midnight passes: an orderly stop closes what was opened,  *)
(* and the days a question counts had not elapsed when it was asked.       *)
(***************************************************************************)
EXTENDS Service, TLAPS, FiniteSetTheorems

-----------------------------------------------------------------------------
(* The resources of the process. *)

\* What may still be open at each stage of an orderly stop.  That nothing is open
\* at the end is not inductive: it needs the order in which things are closed, and
\* that a warm-up which was left to itself has closed its client.
Closing ==
    /\ open \subseteq Resource
    /\ stage \in {"starting", "tool pool open", "pools open", "model known", "failed"} =>
         warmup = "none"
    /\ "warm-up client" \in open => warmup \in {"running", "cancelled"}
    /\ stage \in {"model closed", "pools closed", "exited"} =>
         "model client" \notin open
    /\ stage \in {"pools closed", "exited"} =>
         "tool pool" \notin open /\ "audit pool" \notin open
    /\ stage \in {"closing", "model closed", "pools closed", "exited"} =>
         warmup # "scheduled"
    /\ stage = "exited" => warmup \in {"none", "done"}

\* Every step of the lifespan closes in that order.
LEMMA LifespanCloses ==
    ASSUME Closing, Lifespan
    PROVE  Closing'
<1>1. CASE OpenToolPool
  BY <1>1 DEF OpenToolPool, Closing, Resource
<1>2. CASE OpenAuditPool
  BY <1>2 DEF OpenAuditPool, Closing, Resource
<1>3. CASE ProbeModel
  BY <1>3 DEF ProbeModel, Closing, Resource
<1>4. CASE StartServing
  <2>1. /\ stage = "model known" /\ stage' = "serving" /\ open' = open
        /\ warmup' \in {"none", "scheduled"}
    BY <1>4 DEF StartServing
  <2>2. "warm-up client" \notin open
    BY <1>4 DEF StartServing, Closing
  <2> QED
    BY <2>1, <2>2 DEF Closing
<1>5. CASE WarmUpStarts
  BY <1>5 DEF WarmUpStarts, Closing, Resource
<1>6. CASE WarmUpEnds
  BY <1>6 DEF WarmUpEnds, Closing, Resource
<1>7. CASE Stop
  <2>1. stage = "serving" /\ stage' = "closing" /\ open' = open
    BY <1>7 DEF Stop
  <2>2. /\ warmup = "running" => warmup' = "cancelled"
        /\ warmup = "scheduled" => warmup' = "done"
        /\ warmup \notin {"running", "scheduled"} => warmup' = warmup
    BY <1>7 DEF Stop
  <2> QED
    BY <2>1, <2>2 DEF Closing
<1>8. CASE CloseModel
  BY <1>8 DEF CloseModel, Closing
<1>9. CASE ClosePools
  BY <1>9 DEF ClosePools, Closing
<1>10. CASE Exit
  BY <1>10 DEF Exit, Closing
<1> QED
  BY <1>1, <1>2, <1>3, <1>4, <1>5, <1>6, <1>7, <1>8, <1>9, <1>10 DEF Lifespan

\* No request and no midnight opens or closes anything.
LEMMA OthersLeaveOpen ==
    ASSUME \/ Midnight \/ Seed \/ (\E r \in Request : Serve(r)) \/ UNCHANGED svars
    PROVE  UNCHANGED << stage, open, warmup >>
BY DEF Midnight, Seed, Serve, Ask, Check, Acquire, QueryReturns, CommandFails,
       Resume, svars

\* A process that was stopped has closed what it opened.
THEOREM StopsClean == Spec => []NothingLeftOpen
<1>1. Init => Closing
  BY DEF Init, Closing
<1>2. Closing /\ [Next]_svars => Closing'
  <2> SUFFICES ASSUME Closing, [Next]_svars PROVE Closing'
    OBVIOUS
  <2>1. CASE Lifespan
    BY <2>1, LifespanCloses
  <2>2. CASE UNCHANGED << stage, open, warmup >>
    BY <2>2 DEF Closing
  <2> QED
    BY <2>1, <2>2, OthersLeaveOpen DEF Next
<1>3. Closing => NothingLeftOpen
  <2> SUFFICES ASSUME Closing, stage = "exited" PROVE open = {}
    BY DEF NothingLeftOpen
  <2>1. \A resource \in Resource : resource \notin open
    BY DEF Closing, Resource
  <2> QED
    BY <2>1 DEF Closing
<1> QED
  BY <1>1, <1>2, <1>3, PTL DEF Spec

-----------------------------------------------------------------------------
(* The days a question counts. *)

\* A weekday is one of seven, counted from one.
LEMMA WeekdayRange ==
    ASSUME NEW day \in Int
    PROVE  IsoWeekday(day) \in 1..7
BY DEF IsoWeekday

\* A window of the present or the future begins on the day it is resolved, or later.
LEMMA NothingBefore ==
    ASSUME NEW label, NEW day \in Int,
           label.word \in {"today", "tomorrow", "this_week", "next_week"},
           NEW d \in Days(Resolve(label, day))
    PROVE  d >= day
<1>1. WeekStart(day) \in Int /\ WeekStart(day) + 7 >= day
  BY WeekdayRange DEF WeekStart
<1>2. WeekEnd(day) \in Int
  BY <1>1 DEF WeekEnd
<1> DEFINE window == Resolve(label, day)
<1>3. window.start \in Int /\ window.end \in Int /\ window.start >= day
  <2>1. CASE label.word = "today"
    <3>1. window = Window(day, day)
      BY <2>1 DEF Resolve
    <3> QED
      BY <3>1 DEF Window
  <2>2. CASE label.word = "tomorrow"
    <3>1. window = Window(day + 1, day + 1)
      BY <2>2 DEF Resolve
    <3> QED
      BY <3>1 DEF Window
  <2>3. CASE label.word = "this_week"
    <3>1. window = Window(day, WeekEnd(day))
      BY <2>3 DEF Resolve
    <3> QED
      BY <3>1, <1>2 DEF Window
  <2>4. CASE label.word = "next_week"
    <3>1. window = Window(WeekStart(day) + 7, WeekStart(day) + 13)
      BY <2>4 DEF Resolve
    <3> QED
      BY <3>1, <1>1 DEF Window
  <2> QED
    BY <2>1, <2>2, <2>3, <2>4
<1> HIDE DEF window
<1>4. d \in window.start..window.end
  BY DEF Days, window
<1> QED
  BY <1>3, <1>4

\* A question counts the window its label meant on a day since it was asked, and
\* shows the one it meant on that day.
Counting(q) ==
    /\ q.asked \in Int
    /\ q.at = "unasked" => q.counted = NoWindow
    /\ q.at # "unasked" =>
         /\ q.asked <= today
         /\ q.period = Resolve(q.label, q.asked)
         /\ q.counted # NoWindow =>
              \E day \in q.asked..today : q.counted = Resolve(q.label, day)

Field == {"at", "next", "label", "asked", "period", "counted", "read", "says"}

Calendar ==
    /\ today \in Int
    /\ DOMAIN request = Request
    /\ \A r \in Request : DOMAIN request[r] = Field
    /\ \A r \in Questions : Counting(request[r])

\* A request that moves on keeps its fields, and the other requests are left alone.
LEMMA ServingKeeps ==
    ASSUME Calendar, NEW r \in Request, Serve(r)
    PROVE  /\ today' = today /\ DOMAIN request' = Request
           /\ \A s \in Request : DOMAIN request'[s] = Field
           /\ \A s \in Request \ {r} : request'[s] = request[s]
<1>1. CASE Ask(r)
  BY <1>1 DEF Ask, Calendar
<1>2. CASE Check(r)
  BY <1>2 DEF Check, Calendar
<1>3. CASE Acquire(r)
  BY <1>3 DEF Acquire, Calendar
<1>4. CASE QueryReturns(r)
  BY <1>4 DEF QueryReturns, Calendar
<1>5. CASE CommandFails(r)
  BY <1>5 DEF CommandFails, Calendar
<1>6. CASE Resume(r)
  BY <1>6 DEF Resume, Calendar
<1> QED
  BY <1>1, <1>2, <1>3, <1>4, <1>5, <1>6 DEF Serve

\* A step of a request that is under way.
LEMMA ServingCounts ==
    ASSUME Calendar, NEW q \in Questions, NEW r \in Request, Serve(r)
    PROVE  Counting(request[q])'
<1>1. /\ today \in Int /\ today' = today /\ q \in Request /\ q \in DOMAIN request
      /\ DOMAIN request[q] = Field /\ Counting(request[q])
  BY ServingKeeps DEF Calendar, Request
<1>2. CASE r # q
  <2>1. request'[q] = request[q]
    BY <1>1, <1>2, ServingKeeps
  <2> QED
    BY <1>1, <2>1 DEF Counting
<1>3. CASE r = q /\ Ask(r)
  <2>1. /\ request'[q].at = "waiting" /\ request'[q].asked = today
        /\ request'[q].label = request[q].label
        /\ request'[q].period = Resolve(request[q].label, today)
        /\ request'[q].counted = request[q].counted
        /\ request[q].at = "unasked"
    BY <1>1, <1>3 DEF Ask, Field
  <2>2. request'[q].counted = NoWindow
    BY <1>1, <2>1 DEF Counting
  <2> QED
    BY <1>1, <2>1, <2>2 DEF Counting
<1>4. CASE r = q /\ ~Ask(r)
  <2>1. ~Check(r)
    BY <1>4, RequestsAssumption DEF Check
  <2>2. /\ request[q].at # "unasked" /\ request'[q].at # "unasked"
        /\ request'[q].asked = request[q].asked
        /\ request'[q].label = request[q].label
        /\ request'[q].period = request[q].period
        /\ \/ request'[q].counted = request[q].counted
           \/ request'[q].counted = Resolve(request[q].label, today)
    <3>1. CASE Acquire(r)
      BY <1>1, <1>4, <3>1 DEF Acquire, Field
    <3>2. CASE QueryReturns(r)
      BY <1>1, <1>4, <3>2 DEF QueryReturns, Field
    <3>3. CASE CommandFails(r)
      <4>1. request'[q].at \in {"answered", "failed"}
        BY <1>1, <1>4, <3>3 DEF CommandFails, Field
      <4> QED
        BY <1>1, <1>4, <3>3, <4>1 DEF CommandFails, Field
    <3>4. CASE Resume(r)
      <4>1. request[q].at = "resumed"
        BY <1>4, <3>4 DEF Resume
      <4>2. CASE request' = [request EXCEPT ![q].at = "waiting", ![q].next = @ + 1,
                                            ![q].counted = Counted(q)]
        <5>1. request'[q].counted = Counted(q)
          BY <1>1, <4>2 DEF Field
        <5>2. Counted(q) \in {request[q].counted, Resolve(request[q].label, today)}
          BY DEF Counted
        <5> QED
          BY <1>1, <4>1, <4>2, <5>1, <5>2 DEF Field
      <4>3. CASE \E word : request' = [request EXCEPT ![q].at = "answered", ![q].says = word]
        BY <1>1, <4>1, <4>3 DEF Field
      <4> QED
        BY <1>4, <3>4, <4>2, <4>3 DEF Resume
    <3> QED
      BY <1>4, <2>1, <3>1, <3>2, <3>3, <3>4 DEF Serve
  <2>3. /\ request[q].asked \in Int /\ request[q].asked <= today
        /\ request[q].period = Resolve(request[q].label, request[q].asked)
        /\ request[q].counted # NoWindow =>
             \E day \in request[q].asked..today :
                request[q].counted = Resolve(request[q].label, day)
    BY <1>1, <2>2 DEF Counting
  <2>4. today \in request[q].asked..today
    BY <1>1, <2>3
  <2>5. request'[q].counted # NoWindow =>
          \E day \in request[q].asked..today :
             request'[q].counted = Resolve(request[q].label, day)
    BY <2>2, <2>3, <2>4
  <2> QED
    BY <1>1, <2>2, <2>3, <2>5 DEF Counting
<1> QED
  BY <1>2, <1>3, <1>4

\* Midnight only adds to the days on which a window may have been counted.
LEMMA CalendarStep ==
    ASSUME Calendar, [Next]_svars
    PROVE  Calendar'
<1>1. CASE \E r \in Request : Serve(r)
  <2>1. PICK r \in Request : Serve(r)
    BY <1>1
  <2>2. /\ today' = today /\ DOMAIN request' = Request
        /\ \A s \in Request : DOMAIN request'[s] = Field
    BY <2>1, ServingKeeps
  <2>3. \A q \in Questions : Counting(request[q])'
    BY <2>1, ServingCounts
  <2>4. today' \in Int
    BY <2>2 DEF Calendar
  <2> QED
    BY <2>2, <2>3, <2>4 DEF Calendar
<1>2. CASE Midnight
  <2>1. today \in Int /\ today' = today + 1 /\ request' = request
    BY <1>2 DEF Midnight, Calendar
  <2>2. ASSUME NEW q \in Questions PROVE Counting(request[q])'
    <3>1. Counting(request[q]) /\ request'[q] = request[q]
      BY <2>1 DEF Calendar
    <3>2. \A day \in request[q].asked..today : day \in request[q].asked..today'
      BY <2>1, <3>1 DEF Counting
    <3>3. request[q].asked <= today => request[q].asked <= today'
      BY <2>1, <3>1 DEF Counting
    <3> QED
      BY <3>1, <3>2, <3>3 DEF Counting
  <2> QED
    BY <2>1, <2>2 DEF Calendar
<1>3. CASE UNCHANGED << today, request >>
  BY <1>3 DEF Calendar, Counting
<1>4. Lifespan \/ Seed \/ UNCHANGED svars => UNCHANGED << today, request >>
  BY DEF Lifespan, OpenToolPool, OpenAuditPool, ProbeModel, StartServing,
         WarmUpStarts, WarmUpEnds, Stop, CloseModel, ClosePools, Exit, Seed, svars
<1> QED
  BY <1>1, <1>2, <1>3, <1>4 DEF Next

\* Each question has counted the window of a day since it was asked.
THEOREM CountsItsDays == Spec => []Calendar
<1>1. Init => Calendar
  <2> SUFFICES ASSUME Init PROVE Calendar
    OBVIOUS
  <2>1. today \in Int
    BY DaysAssumption DEF Init
  <2>2. PICK label \in [Questions -> Labels] :
          request = [r \in Request |->
                       Unasked(IF r \in Questions THEN label[r] ELSE Named("today"))]
    BY DEF Init
  <2>3. ASSUME NEW q \in Questions PROVE Counting(request[q])
    <3>1. q \in Request
      BY DEF Request
    <3>2. /\ request[q].at = "unasked" /\ request[q].asked = 0
          /\ request[q].counted = NoWindow
      BY <2>2, <3>1 DEF Unasked
    <3> QED
      BY <3>2 DEF Counting
  <2>4. DOMAIN request = Request /\ \A r \in Request : DOMAIN request[r] = Field
    BY <2>2 DEF Unasked, Field
  <2> QED
    BY <2>1, <2>3, <2>4 DEF Calendar
<1> QED
  BY <1>1, CalendarStep, PTL DEF Spec

\* However often midnight passes during a question, it counts no day that had
\* elapsed when it was asked.
THEOREM ElapsedDaysAreNotCounted == Spec => []NothingElapsedIsCounted
<1>1. Calendar => NothingElapsedIsCounted
  <2> SUFFICES ASSUME Calendar, NEW r \in Questions, request[r].counted # NoWindow
               PROVE  /\ request[r].label.word \in {"today", "tomorrow", "this_week", "next_week"} =>
                           \A d \in Days(request[r].counted) : d >= request[r].asked
                      /\ (request[r].label.word = "range" \/ today = request[r].asked) =>
                           request[r].counted = request[r].period
    BY DEF NothingElapsedIsCounted
  <2> DEFINE q == request[r]
  <2>1. q.at # "unasked" /\ q.asked \in Int /\ today \in Int
    BY DEF Calendar, Counting
  <2>2. PICK day \in q.asked..today : q.counted = Resolve(q.label, day)
    BY <2>1 DEF Calendar, Counting
  <2>3. q.period = Resolve(q.label, q.asked)
    BY <2>1 DEF Calendar, Counting
  <2> HIDE DEF q
  <2>4. day \in Int /\ q.asked <= day /\ day <= today
    BY <2>1, <2>2
  <2>5. ASSUME q.label.word \in {"today", "tomorrow", "this_week", "next_week"},
               NEW d \in Days(q.counted)
        PROVE  d >= q.asked
    <3>1. d \in Days(Resolve(q.label, day))
      BY <2>2, <2>5
    <3>2. d \in Int /\ d >= day
      BY <2>4, <2>5, <3>1, NothingBefore DEF Days
    <3> QED
      BY <2>1, <2>4, <3>2
  <2>6. CASE today = q.asked
    <3>1. day = q.asked
      BY <2>1, <2>4, <2>6
    <3> QED
      BY <2>2, <2>3, <2>5, <3>1 DEF q
  <2>7. CASE q.label.word = "range"
    <3>1. Resolve(q.label, day) = Resolve(q.label, q.asked)
      BY <2>7 DEF Resolve
    <3> QED
      BY <2>2, <2>3, <2>5, <3>1 DEF q
  <2> QED
    BY <2>5, <2>6, <2>7 DEF q
<1> QED
  BY <1>1, CountsItsDays, PTL

-----------------------------------------------------------------------------
(* The windows the labels mean. *)

\* The days of a week, by the number of the week.
LEMMA DaysOfAWeek ==
    ASSUME NEW d \in Int, NEW week \in Int
    PROVE  d \div 7 = week <=> (7 * week <= d /\ d <= 7 * week + 6)
OBVIOUS

\* A week starts on the first of its days.
LEMMA StartOfAWeek ==
    ASSUME NEW day \in Int
    PROVE  /\ day \div 7 \in Int /\ WeekStart(day) = 7 * (day \div 7)
           /\ WeekStart(day) \in Int /\ WeekStart(day) <= day /\ day <= WeekStart(day) + 6
BY DEF WeekStart, IsoWeekday

\* The days of a window are as many as it says.
LEMMA WindowCounts ==
    ASSUME NEW first \in Int, NEW last \in Int, first <= last + 1
    PROVE  Window(first, last).days = Cardinality(Days(Window(first, last)))
<1>1. Days(Window(first, last)) = first..last
  BY DEF Days, Window
<1>2. Cardinality(first..last) = IF first > last THEN 0 ELSE last - first + 1
  BY FS_Interval
<1>3. Cardinality(first..last) = last - first + 1
  BY <1>2
<1> QED
  BY <1>1, <1>3 DEF Window

\* What each label is resolved to.
LEMMA Labelled ==
    ASSUME NEW day
    PROVE  /\ Resolve(Named("today"), day) = Window(day, day)
           /\ Resolve(Named("tomorrow"), day) = Window(day + 1, day + 1)
           /\ Resolve(Named("yesterday"), day) = Window(day - 1, day - 1)
           /\ Resolve(Named("this_week"), day) = Window(day, WeekStart(day) + 6)
           /\ Resolve(Named("full_week"), day) = Window(WeekStart(day), WeekStart(day) + 6)
           /\ Resolve(Named("next_week"), day)
                = Window(WeekStart(day) + 7, WeekStart(day) + 13)
           /\ Resolve(Named("last_week"), day)
                = Window(WeekStart(day) - 7, WeekStart(day) - 1)
           /\ Resolve(Named("last_7_days"), day) = Window(day - 7, day - 1)
           /\ Resolve(Named("last_30_days"), day) = Window(day - 30, day - 1)
BY DEF Resolve, Named, WeekEnd

\* On any day whatever, the labels mean what the calendar says.
LEMMA CalendarOfADay ==
    ASSUME NEW day \in Int
    PROVE  LET week(n)    == { d \in (day - 40)..(day + 40) : d \div 7 = (day \div 7) + n }
               days(word) == Days(Resolve(Named(word), day))
           IN  /\ days("last_week") = week(-1)
               /\ days("full_week") = week(0)
               /\ days("next_week") = week(1)
               /\ days("this_week") = { d \in week(0) : d >= day }
               /\ \A past \in {"yesterday", "last_7_days", "last_30_days"} :
                    /\ days(past) \cap (days("today") \cup days("this_week")) = {}
                    /\ day - 1 \in days(past)
               /\ \A word \in Keyword :
                    Resolve(Named(word), day).days = Cardinality(days(word))
               /\ \A from, to \in week(0) :
                    Days(Resolve(Between(from, to), day)) = { d \in week(0) : from <= d /\ d <= to }
<1> DEFINE week(n)    == { d \in (day - 40)..(day + 40) : d \div 7 = (day \div 7) + n }
           days(word) == Days(Resolve(Named(word), day))
           start      == WeekStart(day)
<1>1. /\ day \div 7 \in Int /\ start = 7 * (day \div 7) /\ start \in Int
      /\ start <= day /\ day <= start + 6
  BY StartOfAWeek
<1>2. \A first, last : Days(Window(first, last)) = first..last
  BY DEF Days, Window
<1>3. /\ days("today") = day..day /\ days("tomorrow") = (day + 1)..(day + 1)
      /\ days("yesterday") = (day - 1)..(day - 1)
      /\ days("this_week") = day..(start + 6) /\ days("full_week") = start..(start + 6)
      /\ days("next_week") = (start + 7)..(start + 13)
      /\ days("last_week") = (start - 7)..(start - 1)
      /\ days("last_7_days") = (day - 7)..(day - 1)
      /\ days("last_30_days") = (day - 30)..(day - 1)
  BY <1>2, Labelled
<1>4. ASSUME NEW n \in {-1, 0, 1}
      PROVE  week(n) = (start + 7 * n)..(start + 7 * n + 6)
  <2>1. \A d \in Int : d \div 7 = (day \div 7) + n <=> start + 7 * n <= d /\ d <= start + 7 * n + 6
    <3> SUFFICES ASSUME NEW d \in Int
                 PROVE  d \div 7 = (day \div 7) + n
                          <=> start + 7 * n <= d /\ d <= start + 7 * n + 6
      OBVIOUS
    <3> DEFINE k == (day \div 7) + n
    <3>1. k \in Int /\ 7 * k = start + 7 * n
      BY <1>1
    <3>2. d \div 7 = k <=> 7 * k <= d /\ d <= 7 * k + 6
      BY <3>1, DaysOfAWeek
    <3> QED
      BY <3>1, <3>2
  <2>2. ASSUME NEW d \in Int, start + 7 * n <= d, d <= start + 7 * n + 6
        PROVE  d \in (day - 40)..(day + 40)
    BY <1>1, <2>2
  <2>3. start + 7 * n \in Int
    BY <1>1
  <2> QED
    BY <2>1, <2>2, <2>3
<1>5. /\ days("last_week") = week(-1) /\ days("full_week") = week(0) /\ days("next_week") = week(1)
  <2>1. week(-1) = (start - 7)..(start - 1)
    BY <1>1, <1>4
  <2>2. week(0) = start..(start + 6)
    BY <1>1, <1>4
  <2>3. week(1) = (start + 7)..(start + 13)
    BY <1>1, <1>4
  <2> QED
    BY <1>3, <2>1, <2>2, <2>3
<1>6. week(0) = start..(start + 6)
  BY <1>3, <1>5
<1> HIDE DEF week, days, start
<1>7. days("this_week") = { d \in week(0) : d >= day }
  BY <1>1, <1>3, <1>6
<1>8. ASSUME NEW past \in {"yesterday", "last_7_days", "last_30_days"}
      PROVE  /\ days(past) \cap (days("today") \cup days("this_week")) = {}
             /\ day - 1 \in days(past)
  <2>1. \A d \in days("today") \cup days("this_week") : d \in Int /\ d >= day
    BY <1>1, <1>3
  <2>2. days(past) \subseteq (day - 30)..(day - 1) /\ day - 1 \in days(past)
    BY <1>3
  <2>3. \A d \in days(past) : d \in Int /\ d < day
    BY <2>2
  <2> QED
    BY <2>1, <2>2, <2>3
<1>9. ASSUME NEW word \in Keyword
      PROVE  Resolve(Named(word), day).days = Cardinality(days(word))
  <2>1. \E first, last \in Int :
            first <= last + 1 /\ Resolve(Named(word), day) = Window(first, last)
    <3>1. start = WeekStart(day)
      BY DEF start
    <3>2. ASSUME NEW first \in Int, NEW last \in Int, first <= last + 1,
                 Resolve(Named(word), day) = Window(first, last)
          PROVE  \E f, l \in Int :
                     f <= l + 1 /\ Resolve(Named(word), day) = Window(f, l)
      BY <3>2
    <3> QED
      BY <1>1, <3>1, <3>2, Labelled DEF Keyword
  <2>2. PICK first, last \in Int :
            first <= last + 1 /\ Resolve(Named(word), day) = Window(first, last)
    BY <2>1
  <2> QED
    BY <2>2, WindowCounts DEF days
<1>10. ASSUME NEW from \in week(0), NEW to \in week(0)
       PROVE  Days(Resolve(Between(from, to), day)) = { d \in week(0) : from <= d /\ d <= to }
  <2>1. from \in Int /\ to \in Int /\ start <= from /\ to <= start + 6
    BY <1>1, <1>6
  <2>2. CASE to < from
    <3>1. Resolve(Between(from, to), day) = Window(0, -1)
      BY <2>2 DEF Resolve, Between, Unresolved
    <3>2. Days(Resolve(Between(from, to), day)) = 0..(-1)
      BY <1>2, <3>1
    <3> QED
      BY <1>1, <1>6, <2>1, <2>2, <3>2
  <2>3. CASE from <= to
    <3>1. Resolve(Between(from, to), day) = Window(from, to)
      BY <2>1, <2>3 DEF Resolve, Between
    <3>2. Days(Resolve(Between(from, to), day)) = from..to
      BY <1>2, <3>1
    <3> QED
      BY <1>1, <1>6, <2>1, <2>3, <3>2
  <2> QED
    BY <2>1, <2>2, <2>3
<1> QED
  BY <1>5, <1>7, <1>8, <1>9, <1>10 DEF week, days

\* The labels mean what the calendar says, on whatever day the process starts.
THEOREM LabelsAreTheCalendar == Spec => []WindowsAreTheCalendar
<1>1. today \in Int => WindowsAreTheCalendar
  <2> SUFFICES ASSUME today \in Int PROVE WindowsAreTheCalendar
    OBVIOUS
  <2>1. \A day \in today..(today + 6) : day \in Int
    OBVIOUS
  <2> QED
    BY <2>1, CalendarOfADay DEF WindowsAreTheCalendar
<1>2. Calendar => today \in Int
  BY DEF Calendar
<1> QED
  BY <1>1, <1>2, CountsItsDays, PTL

-----------------------------------------------------------------------------
(* What a health check says of the dataset. *)

\* The history is laid out up to yesterday and never taken back, so what a check has
\* read of it is at most what it holds now.
Behindhand ==
    /\ newest \in Int /\ newest < today
    /\ \A r \in Checks : request[r].read = NoDay
                           \/ (request[r].read \in Int /\ request[r].read <= newest)

\* Reading, laying out anew and midnight keep it.
LEMMA BehindhandStep ==
    ASSUME Calendar, Behindhand, [Next]_svars
    PROVE  Behindhand'
<1>1. today \in Int /\ newest \in Int /\ newest < today
  BY DEF Calendar, Behindhand
<1>2. CASE \E r \in Request : Serve(r)
  <2>1. PICK r \in Request : Serve(r)
    BY <1>2
  <2>2. /\ today' = today /\ DOMAIN request' = Request
        /\ \A s \in Request \ {r} : request'[s] = request[s]
    BY <2>1, ServingKeeps
  <2>3. newest' = newest
    BY <2>1 DEF Serve, Ask, Check, Acquire, QueryReturns, CommandFails, Resume
  <2>4. r \in Request /\ DOMAIN request = Request /\ DOMAIN request[r] = Field
    BY DEF Calendar
  <2>5. request'[r].read \in {request[r].read, newest}
    <3>1. CASE Ask(r) \/ Check(r) \/ Acquire(r) \/ CommandFails(r)
      BY <2>4, <3>1 DEF Ask, Check, Acquire, CommandFails, Field
    <3>2. CASE Resume(r)
      <4>1. \/ request' = [request EXCEPT ![r].at = "waiting", ![r].next = @ + 1,
                                         ![r].counted = Counted(r)]
            \/ \E says : request' = [request EXCEPT ![r].at = "answered", ![r].says = says]
        BY <3>2 DEF Resume
      <4> QED
        BY <2>4, <4>1 DEF Field
    <3>3. CASE QueryReturns(r)
      BY <2>4, <3>3 DEF QueryReturns, Field
    <3> QED
      BY <2>1, <3>1, <3>2, <3>3 DEF Serve
  <2>6. ASSUME NEW s \in Checks
        PROVE  request'[s].read = NoDay
                 \/ (request'[s].read \in Int /\ request'[s].read <= newest)
    <3>1. s \in Request
      BY DEF Request
    <3>2. request'[s].read \in {request[s].read, newest}
      BY <2>2, <2>5, <3>1
    <3> QED
      BY <1>1, <3>2 DEF Behindhand
  <2> QED
    BY <1>1, <2>2, <2>3, <2>6 DEF Behindhand
<1>3. CASE Midnight
  <2>1. today' = today + 1 /\ newest' = newest /\ request' = request
    BY <1>3 DEF Midnight
  <2> QED
    BY <1>1, <2>1 DEF Behindhand
<1>4. CASE Seed
  <2>1. newest' = today - 1 /\ today' = today /\ request' = request
    BY <1>4 DEF Seed
  <2>2. newest <= newest' /\ newest' \in Int /\ newest' < today'
    BY <1>1, <2>1
  <2> QED
    BY <1>1, <2>1, <2>2 DEF Behindhand
<1>5. CASE UNCHANGED << today, newest, request >>
  BY <1>5 DEF Behindhand
<1>6. Lifespan \/ UNCHANGED svars => UNCHANGED << today, newest, request >>
  BY DEF Lifespan, OpenToolPool, OpenAuditPool, ProbeModel, StartServing,
         WarmUpStarts, WarmUpEnds, Stop, CloseModel, ClosePools, Exit, svars
<1> QED
  BY <1>2, <1>3, <1>4, <1>5, <1>6 DEF Next

\* Only the last answer of a check says that the dataset is fresh, and it says it of a
\* day that is yesterday when it says it.
LEMMA SayingFresh ==
    ASSUME Calendar, Behindhand, [Next]_svars, NEW c \in Checks,
           request[c].says = "nothing", request'[c].says = "fresh"
    PROVE  newest' = today' - 1
<1>1. today \in Int /\ newest \in Int /\ newest < today
  BY DEF Calendar, Behindhand
<1>2. c \in Request /\ DOMAIN request = Request /\ DOMAIN request[c] = Field
  BY DEF Calendar, Request
<1>3. request'[c] # request[c]
  OBVIOUS
<1>4. PICK r \in Request : Serve(r)
  BY <1>3 DEF Next, Lifespan, OpenToolPool, OpenAuditPool, ProbeModel, StartServing,
              WarmUpStarts, WarmUpEnds, Stop, CloseModel, ClosePools, Exit, svars,
              Midnight, Seed
<1>5. r = c
  <2>1. \A s \in Request \ {r} : request'[s] = request[s]
    BY <1>4, ServingKeeps
  <2> QED
    BY <1>2, <1>3, <2>1
<1>6. Resume(c)
  <2>1. ~(Ask(c) \/ Check(c) \/ Acquire(c) \/ QueryReturns(c))
    BY <1>2 DEF Ask, Check, Acquire, QueryReturns, Field
  <2>2. ~CommandFails(c)
    BY <1>2 DEF CommandFails, Field
  <2> QED
    BY <1>4, <1>5, <2>1, <2>2 DEF Serve
<1>7. Reported(c) = "fresh"
  BY <1>2, <1>6, ZenonT(30) DEF Resume, Field
<1>8. request[c].read # NoDay /\ request[c].read = today - 1
  <2>1. \/ request[c].read = NoDay
        \/ request[c].read \in Int
    BY DEF Behindhand
  <2>2. NoDay \in Int
    BY DEF NoDay
  <2> QED
    BY <1>1, <1>7, <2>1, <2>2 DEF Reported, Assess, Fresh, Stale
<1>9. request[c].read <= newest
  BY <1>8 DEF Behindhand
<1>10. newest' = newest /\ today' = today
  BY <1>6 DEF Resume
<1> QED
  BY <1>1, <1>8, <1>9, <1>10

\* A dataset that is called fresh is, wherever midnight and a new layout fall between
\* the query and the answer: if no production is recorded for a day still to come, as
\* the seed records none.  Were there any, laying the history out anew would take it
\* back behind what a check has read.
THEOREM FreshMeansYesterday ==
    ASSUME \A n \in Newest, day \in FirstDays : n < day
    PROVE  Spec => FreshIsNeverStale
<1>1. Init => Behindhand
  <2> SUFFICES ASSUME Init PROVE Behindhand
    OBVIOUS
  <2>1. newest \in Int /\ newest < today
    BY DaysAssumption DEF Init
  <2>2. \A r \in Checks : request[r].read = NoDay
    <3>1. PICK label \in [Questions -> Labels] :
            request = [r \in Request |->
                         Unasked(IF r \in Questions THEN label[r] ELSE Named("today"))]
      BY DEF Init
    <3> QED
      BY <3>1 DEF Request, Unasked
  <2> QED
    BY <2>1, <2>2 DEF Behindhand
<1>2. Calendar /\ Behindhand /\ [Next]_svars => Behindhand'
  BY BehindhandStep
<1>3. Calendar /\ Behindhand /\ [Next]_svars =>
        [\A r \in Checks :
           (request[r].says = "nothing" /\ request'[r].says = "fresh") =>
               newest' = today' - 1]_svars
  BY SayingFresh
<1> QED
  BY <1>1, <1>2, <1>3, CountsItsDays, PTL DEF Spec, FreshIsNeverStale

=============================================================================
