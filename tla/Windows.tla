------------------------------ MODULE Windows ------------------------------
(***************************************************************************)
(* The factory's calendar (timewindow.py) and how the recorded production  *)
(* sits against it (dataset.py).  Days are numbered and day 0 is a Monday. *)
(***************************************************************************)
EXTENDS Integers

NoDay == -1   \* no production is recorded

Keyword == {"today", "tomorrow", "yesterday", "this_week", "full_week",
            "next_week", "last_week", "last_7_days", "last_30_days"}

Named(keyword) == [word |-> keyword, from |-> 0, to |-> 0]

Between(from, to) == [word |-> "range", from |-> from, to |-> to]  \* 'YYYY-MM-DD..YYYY-MM-DD'

IsoWeekday(day) == (day % 7) + 1

\* Slip: the week is taken to begin on the day six days after this one.
WeekStartOfSunday(day) == day - (IsoWeekday(day) % 7)

WeekStart(day) == day - (IsoWeekday(day) - 1)

WeekEnd(day) == WeekStart(day) + 6

Window(first, last) == [start |-> first, end |-> last, days |-> last - first + 1]

\* resolve_window of a keyword or a range: a range that ends before it starts
\* is an error.
Unresolved == Window(0, -1)

Resolve(label, today) ==
    CASE label.word = "today"        -> Window(today, today)
      [] label.word = "tomorrow"     -> Window(today + 1, today + 1)
      [] label.word = "yesterday"    -> Window(today - 1, today - 1)
      [] label.word = "this_week"    -> Window(today, WeekEnd(today))
      [] label.word = "full_week"    -> Window(WeekStart(today), WeekEnd(today))
      [] label.word = "next_week"    -> Window(WeekStart(today) + 7, WeekStart(today) + 13)
      [] label.word = "last_week"    -> Window(WeekStart(today) - 7, WeekStart(today) - 1)
      [] label.word = "last_7_days"  -> Window(today - 7, today - 1)
      [] label.word = "last_30_days" -> Window(today - 30, today - 1)
      [] label.word = "range"      ->
           IF label.to < label.from THEN Unresolved ELSE Window(label.from, label.to)

Days(window) == window.start..window.end

-----------------------------------------------------------------------------
(* dataset.assess: the newest production record against yesterday. *)

Stale(newest, today) == IF newest = NoDay THEN 0 ELSE (today - 1) - newest

Fresh(newest, today) == newest # NoDay /\ Stale(newest, today) = 0

\* What /health reports of it.
Assess(newest, today) ==
    CASE Fresh(newest, today)       -> "fresh"
      [] newest = NoDay             -> "empty"
      [] newest # NoDay /\ Stale(newest, today) > 0 -> "out of date"
      [] newest # NoDay /\ Stale(newest, today) < 0 -> "ahead"

=============================================================================
