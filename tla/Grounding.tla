------------------------------ MODULE Grounding ------------------------------
(***************************************************************************)
(* The grounding validator (agent/validator.py): may this text stand over  *)
(* this run?  A text is what the validator's patterns find in it - the     *)
(* figures with the unit beside them, the machines it names, what it says  *)
(* limits production and why - and the run is the finding it must state.   *)
(* Figures are in hundredths.                                              *)
(***************************************************************************)
EXTENDS Capacity, Condition, Shortfall

CONSTANT Structural   \* the counts any sentence may use: 0..10 in the code

\* A text that says nothing.
Silent ==
    [figures   |-> {},      \* [v, unit]: numbers, each with "parts", "hours", "shifts" or
                            \* "none" stated beside it
     totals    |-> {},      \* figures given as the amount that can be produced
     names     |-> {},      \* machines
     limits    |-> FALSE,   \* speaks of a bottleneck or a limit
     level     |-> FALSE,   \* says that nothing stands out
     blames    |-> {},      \* "machine" or "material", as what limits production
     reasons   |-> {},      \* the causes in the clause that gives a reason
     asHours   |-> FALSE,   \* output is limited to a number of hours
     denies    |-> FALSE,   \* the machine may not run
     active    |-> FALSE,   \* maintenance is active
     stops     |-> {},      \* <<rule, v>>: v is the limit of that reading
     main      |-> {},      \* kinds of factor called the main one
     rejectsOf |-> {},      \* machines said to have had all the rejects
     offsets   |-> FALSE,   \* rejects reduced the shortfall
     labels    |-> FALSE]   \* scaffolding of the fact sheet

Abs(n) == IF n < 0 THEN -n ELSE n

Hundredths(n) == 100 * n

\* TOLERANCE is 0.051.
Near(v, pool) == \E c \in pool : Abs(v - c) <= 5

Rounded(v) == { Abs(v), 10 * HalfUp(Abs(v), 10), 100 * HalfUp(Abs(v), 100) }

\* A value up to one may also be written as a percentage.
AsPercent(tenThousandths) ==
    IF Abs(tenThousandths) > 10000 THEN {}
    ELSE { 10 * HalfUp(Abs(tenThousandths), 10), 100 * HalfUp(Abs(tenThousandths), 100) }

-----------------------------------------------------------------------------
(* What a run holds.  run.found is a capacity with its constraint, the      *)
(* health of some machines, or an analysis.                                 *)

IsCapacity(run) == run.kind = "capacity"
IsHealth(run)   == run.kind = "health"
IsAnalysis(run) == run.kind = "history"

Rows(run) == { run.facts.rows[k] : k \in DOMAIN run.facts.rows }

HoursIn(run) ==
    { Hundredths(h) : h \in
        IF IsCapacity(run)
        THEN (UNION { { r.planned, r.maintenance, Whole(r) } : r \in Rows(run) })
               \cup { Shortfall(run.facts.rows, m) : m \in Eligible(run.facts.rows) }
        ELSE IF IsAnalysis(run)
        THEN { r.downtime : r \in Rows(run) } \cup { run.found.downtime }
        ELSE {} }

PartsIn(run) ==
    { Hundredths(Abs(n)) : n \in
        IF IsCapacity(run)
        THEN { run.found.machine, run.found.material, run.found.final, run.facts.stock }
               \cup { run.found.shares[m] : m \in DOMAIN run.found.shares }
        ELSE IF IsAnalysis(run)
        THEN (UNION { { r.planned, r.produced, r.rejected } : r \in Rows(run) })
               \cup { run.found.planned, run.found.produced, run.found.rejected,
                      run.found.short, run.found.produced + run.found.rejected }
               \cup { run.found.deltas[m] : m \in DOMAIN run.found.deltas }
               \cup { run.found.factors[j].impact : j \in DOMAIN run.found.factors }
        ELSE {} }

Limits(run, r) ==
    { Hundredths(n) : n \in {run.facts.limits[r].warning, run.facts.limits[r].critical} \ {Null} }

ReadingsOf(machine) == { machine.reading[r] : r \in Rules } \ {Null}

Readings(run) ==
    UNION { { Hundredths(n) : n \in ReadingsOf(run.facts.machines[m]) } :
              m \in DOMAIN run.facts.machines }

\* A breach is stored as a fraction and written as a percentage.
BreachesOf(machine, limits) ==
    UNION { AsPercent(RelativeBreach(machine, limits, r)) : r \in Assessed(machine, limits) }

Breaches(run) ==
    UNION { BreachesOf(run.facts.machines[m], run.facts.limits) : m \in DOMAIN run.facts.machines }

\* Slip: a percentage is grounded only as the fraction it is stored as.
OthersAsStored(run) ==
    IF IsCapacity(run) THEN { Hundredths(run.facts.cycle), Hundredths(run.facts.qty) }
    ELSE IF IsAnalysis(run)
    THEN { 10 * run.found.below, 10 * run.found.rate, Hundredths(run.facts.cycle) }
    ELSE (UNION { Limits(run, r) : r \in Rules }) \cup Readings(run)

\* Figures that are neither hours nor parts.
OthersIn(run) ==
    IF IsCapacity(run) THEN { Hundredths(run.facts.cycle), Hundredths(run.facts.qty) }
    ELSE IF IsAnalysis(run)
    THEN { 10 * run.found.below, 10 * run.found.rate, Hundredths(run.facts.cycle) }
    ELSE (UNION { Limits(run, r) : r \in Rules }) \cup Readings(run) \cup Breaches(run)

\* allowed_values: everything returned or computed, in any form it may take.
Allowed(run) ==
    LET held == HoursIn(run) \cup PartsIn(run) \cup OthersIn(run)
    IN  { Hundredths(n) : n \in Structural }
          \cup (UNION { Rounded(v) : v \in held })
          \cup (UNION { AsPercent(100 * v) : v \in held })

-----------------------------------------------------------------------------
(* check_key_claims: the finding must be stated. *)

NamesAMachine == {"bottleneck", "machine_health", "machine_status"}

\* Slip: any eligible machine will do for the bottleneck.
SomeMachineMissing(text, run) ==
    (IF run.headline.value = Null \/ run.intent \in NamesAMachine
        \/ Near(run.headline.value, { f.v : f \in text.figures }) THEN {} ELSE {"figure"})
    \cup (IF IsCapacity(run) /\ run.constraint.bottleneck # {} /\ text.names = {}
          THEN {"bottleneck"} ELSE {})

MissingClaims(text, run) ==
    { c \in {"figure", "machine", "verdict", "bottleneck", "binding", "no_single"} :
        \/ /\ c = "figure"
           /\ run.headline.value # Null /\ run.intent \notin NamesAMachine
           /\ ~Near(run.headline.value, { f.v : f \in text.figures })
        \/ /\ c = "machine" /\ ~(run.headline.machine \subseteq text.names)
        \/ /\ c = "verdict"
           /\ \/ run.headline.verdict = "cannot" /\ ~text.denies
              \/ run.headline.verdict = "can" /\ text.denies
        \/ /\ c = "bottleneck" /\ IsCapacity(run)
           /\ ~(run.constraint.bottleneck \subseteq text.names)
        \/ /\ c = "binding" /\ IsCapacity(run)
           /\ text.blames # {} /\ run.found.binding \notin text.blames
        \/ /\ c = "no_single" /\ IsCapacity(run)
           /\ run.constraint.bottleneck = {}
           /\ text.names # {} /\ text.limits /\ ~text.level }

-----------------------------------------------------------------------------
(* check_contradictions: true figures in false sentences. *)

WrongUnit(f, run) ==
    LET hours == UNION { Rounded(v) : v \in HoursIn(run) }
        parts == UNION { Rounded(v) : v \in PartsIn(run) }
    IN  \/ f.unit = "parts" /\ ~Near(f.v, parts) /\ Near(f.v, hours)
        \/ f.unit = "hours" /\ ~Near(f.v, hours) /\ Near(f.v, parts)
        \/ f.unit = "shifts" /\ f.v > 1000 /\ Near(f.v, hours)

\* The totals the engine computed; a machine's own share is none of them.
EngineTotals(run) ==
    { Hundredths(n) : n \in {run.found.final, run.found.machine, run.found.material} }

\* Only a bottleneck with both reasons has a smaller one.
BlamesSmaller(text, run) ==
    \E m \in run.constraint.bottleneck :
        /\ run.constraint.cause # None
        /\ Shortfall(run.facts.rows, m) > 0 /\ run.facts.rows[m].maintenance > 0
        /\ text.reasons # {} /\ run.constraint.cause \notin text.reasons

\* Counted against the machines that had any, once more than one did.
WrongRejects(text, run) ==
    LET had(m) == TotalOf(run.facts.rows, m, "rejected")
    IN  /\ Cardinality({ m \in Machines(run.facts.rows) : had(m) > 0 }) > 1
        /\ \E m \in text.rejectsOf : had(m) # run.found.rejected

\* The first of the factors that cost anything, if there are two to compare.
WrongMain(text, run) ==
    LET factors == run.found.factors
        costly  == { j \in DOMAIN factors : factors[j].impact > 0 }
    IN  /\ Cardinality(costly) >= 2
        /\ text.main \ {factors[Min(costly)].kind} # {}

WrongClaims(text, run) ==
    { c \in {"unit", "total", "as_hours", "reason", "limit", "active", "rejects",
             "offset", "main"} :
        \/ c = "unit" /\ \E f \in text.figures : WrongUnit(f, run)
        \/ c = "total" /\ IsCapacity(run) /\ ~(text.totals \subseteq EngineTotals(run))
        \/ c = "as_hours" /\ IsCapacity(run)
             /\ run.constraint.bottleneck # {} /\ text.asHours
        \/ c = "reason" /\ IsCapacity(run) /\ BlamesSmaller(text, run)
        \/ c = "limit" /\ IsHealth(run)
             /\ \E s \in text.stops : Limits(run, s[1]) # {} /\ ~Near(s[2], Limits(run, s[1]))
        \/ c = "active" /\ IsHealth(run) /\ text.active
             /\ \E m \in text.names \cap DOMAIN run.found : run.found[m].produces
        \/ c = "rejects" /\ IsAnalysis(run) /\ run.found.rejected > 0 /\ WrongRejects(text, run)
        \/ c = "offset" /\ IsAnalysis(run) /\ run.found.rejected > 0 /\ text.offsets
        \/ c = "main" /\ IsAnalysis(run) /\ WrongMain(text, run) }

-----------------------------------------------------------------------------

Unsupported(text, run) ==
    { f \in text.figures : ~Near(f.v, Allowed(run)) }

Strangers(text) == text.names \ Machine

\* validate_answer; an empty text is never grounded.
Grounded(text, run) ==
    /\ text # Silent
    /\ Unsupported(text, run) = {} /\ Strangers(text) = {}
    /\ MissingClaims(text, run) = {}
    /\ WrongClaims(text, run) = {}
    /\ ~text.labels

=============================================================================
