------------------------------ MODULE Findings ------------------------------
(***************************************************************************)
(* From facts to an answer that may be shown: the engine concludes from    *)
(* what the tools returned (agent/derive.py), the executor puts the        *)
(* finding into words nobody can object to (executor.py, _compose_answer), *)
(* a model may propose others, and the validator reads whichever is to be  *)
(* shown.  Nothing here reads the database again.                          *)
(***************************************************************************)
EXTENDS Grounding

CONSTANT Cases   \* [intent, kind, facts]: what the plan of a question gathered

\* What the columns' CHECKs and the refusals before the calculation leave, of
\* machines of the MES.  A double lies on its decimal or on one side of it.
CapacityFacts(f) ==
    /\ DOMAIN f.rows \subseteq Machine
    /\ \A m \in DOMAIN f.rows :
         /\ f.rows[m] \in [planned : Nat, maintenance : Nat, eligible : BOOLEAN]
         /\ Off(f.rows[m]) \in {-1, 0, 1}
    /\ f.cycle \in Nat \ {0} /\ f.qty \in Nat \ {0} /\ f.stock \in Nat

\* Readings of any size; limits like those the schema lays down, 70.00 and 2.50.
HealthFacts(f) ==
    /\ DOMAIN f.machines \subseteq Machine
    /\ \A m \in DOMAIN f.machines :
         f.machines[m] \in [status : STRING, serviced : BOOLEAN,
                            reading : [Rules -> Nat \cup {Null}]]
    /\ f.limits \in [Rules -> [warning  : (1..Finest) \cup {Null},
                               critical : Nat \cup {Null}]]

HistoryFacts(f) ==
    /\ IsFiniteSet(DOMAIN f.rows) /\ f.cycle \in Nat
    /\ \A k \in DOMAIN f.rows :
         f.rows[k] \in [planned : Nat, produced : Nat, rejected : Nat, downtime : Nat]

\* Attention is ranked over all machines, status and health are of one.
ASSUME CasesAssumption ==
    \A c \in Cases :
        \/ /\ c.kind = "capacity" /\ c.intent \in {"production_capacity", "bottleneck"}
           /\ CapacityFacts(c.facts)
        \/ /\ c.kind = "health" /\ c.intent \in {"machine_health", "machine_status"}
           /\ HealthFacts(c.facts)
           /\ \E m \in Machine : DOMAIN c.facts.machines = {m}
        \/ /\ c.kind = "health" /\ c.intent = "maintenance_attention"
           /\ HealthFacts(c.facts) /\ DOMAIN c.facts.machines # {}
        \/ /\ c.kind = "history" /\ c.intent = "production_analysis"
           /\ HistoryFacts(c.facts)

VARIABLES
    case,     \* the question's intent and what its tools returned
    run,      \* the run with its finding, once the engine has concluded
    text,     \* the answer under consideration
    author,   \* who wrote it: "data" or "model"
    verdict   \* what the validator said of it: "unread", "grounded", "rejected"

fvars == << case, run, text, author, verdict >>

Unconcluded == [kind |-> "nothing"]

Headline(value, machine, says) ==
    [value |-> value, machine |-> machine, verdict |-> says]

-----------------------------------------------------------------------------
(* derive.py *)

\* A bottleneck is asked for by machine, a capacity by figure.
DeriveCapacity(c) ==
    LET found == Calculate(c.facts.rows, c.facts.cycle, c.facts.qty, c.facts.stock)
        limit == Constraint(c.facts.rows, found)
    IN  [intent |-> c.intent, kind |-> c.kind, facts |-> c.facts,
         found |-> found, constraint |-> limit,
         headline |-> IF c.intent = "bottleneck"
                      THEN Headline(Null, limit.bottleneck, None)
                      ELSE Headline(Hundredths(found.final), {}, None)]

Healths(facts) ==
    [m \in DOMAIN facts.machines |-> Health(facts.machines[m], facts.limits)]

DeriveHealth(c) ==
    LET found == Healths(c.facts)
        first == Ranking(found)[1]
    IN  [intent |-> c.intent, kind |-> c.kind, facts |-> c.facts, found |-> found,
         headline |->
            CASE c.intent = "machine_status"         -> Headline(Null, {}, None)
              [] c.intent = "machine_health"         ->
                   Headline(Null, {}, IF found[first].produces THEN "can" ELSE "cannot")
              [] c.intent = "maintenance_attention"  ->
                   Headline(Null, IF found[first].breaches = 0 THEN {} ELSE {first}, None)]

DeriveAnalysis(c) ==
    LET found == Analyse(c.facts.rows, c.facts.cycle)
    IN  [intent |-> c.intent, kind |-> c.kind, facts |-> c.facts, found |-> found,
         headline |-> IF found.short > 0 THEN Headline(10 * found.below, {}, None)
                      ELSE Headline(Null, {}, None)]

Derive(c) ==
    CASE c.kind = "capacity" -> DeriveCapacity(c)
      [] c.kind = "health"   -> DeriveHealth(c)
      [] c.kind = "history"  -> DeriveAnalysis(c)

-----------------------------------------------------------------------------
(* _compose_answer: the engine's summary and the evidence behind it. *)

\* The validator reads digits: a sign before them is not part of the number.
Figure(n, unit) == [v |-> Hundredths(Abs(n)), unit |-> unit]

\* The summary names what limits; the working is the sums and the minimum.
SayCapacity(r) ==
    LET tied  == IF r.found.binding = "material" THEN {} ELSE FewestHours(r.facts.rows)
        hours == { Whole(r.facts.rows[m]) : m \in tied }
    IN  [Silent EXCEPT
           !.figures = { Figure(n, "parts") : n \in {r.found.final, r.found.machine,
                                                     r.found.material} }
                         \cup { Figure(r.found.shares[m], "none") : m \in Eligible(r.facts.rows) }
                         \cup { Figure(n, "none") : n \in {r.facts.stock, r.facts.qty} }
                         \cup { Figure(h, "hours") : h \in hours },
           !.names  = tied,
           !.limits = TRUE,
           !.level  = r.constraint.bottleneck = {},
           !.blames = IF r.found.binding = "material" THEN {"material"}
                      ELSE IF r.constraint.bottleneck = {} THEN {"machine"} ELSE {}]

\* One line per reading that was assessed, each with its warning limit.
SayHealth(r) ==
    LET m   == CHOOSE x \in DOMAIN r.found : TRUE
        row == r.facts.machines[m]
        on  == Assessed(row, r.facts.limits)
    IN  [Silent EXCEPT
           !.figures = { Figure(row.reading[k], "none") : k \in on }
                         \cup { Figure(r.facts.limits[k].warning, "none") : k \in on },
           !.names  = {m},
           !.stops  = { << k, Hundredths(r.facts.limits[k].warning) >> : k \in on },
           !.active = r.found[m].reason = "maintenance"]

\* The machine that is first, with the note on its worst breach.
SayBreach(r, m) ==
    LET row == r.facts.machines[m]
        k   == Noted(row, r.facts.limits)
    IN  [Silent EXCEPT
           !.figures = { Figure(row.reading[k], "none"),
                         Figure(r.facts.limits[k].warning, "none"),
                         Figure(Percent(RelativeBreach(row, r.facts.limits, k)), "none") },
           !.names = {m},
           !.stops = { << k, Hundredths(r.facts.limits[k].warning) >> }]

Foremost(r) == CHOOSE x \in r.headline.machine : TRUE

\* Or that no limit is breached, and which machines could not be assessed.
SayAttention(r) ==
    IF r.headline.machine = {}
    THEN [Silent EXCEPT !.names = { m \in DOMAIN r.found : ~r.found[m].assessable },
                        !.level = TRUE]
    ELSE SayBreach(r, Foremost(r))

Impacts(factors, kind) ==
    { factors[j].impact : j \in { i \in DOMAIN factors : factors[i].kind = kind } }

\* The distance from plan, the main factor, and one line per factor.
SayAnalysis(r) ==
    LET f        == r.found.factors
        downtime == Impacts(f, "downtime")
        rejects  == Impacts(f, "rejects")
    IN  [Silent EXCEPT
           !.figures = { Figure(n, "none") : n \in {r.found.produced, r.found.planned} }
             \cup { Figure(r.facts.cycle, "none") : n \in downtime \ {0} }
             \cup { Figure(r.found.produced + r.found.rejected, "none") : n \in rejects }
             \cup (IF r.found.short > 0
                   THEN {[v |-> 10 * r.found.below, unit |-> "none"]} ELSE {})
             \cup { Figure(r.found.downtime, "hours") : n \in downtime }
             \cup { Figure(n, "parts") : n \in (downtime \ {0}) \cup rejects }
             \cup { [v |-> 10 * r.found.rate, unit |-> "none"] : n \in rejects }
             \cup { Figure(n, "none") : n \in Impacts(f, "offset") },
           !.main = IF r.found.short > 0 /\ f # << >> /\ f[1].kind # "offset"
                    THEN {f[1].kind} ELSE {}]

DataOnly(r) ==
    CASE r.kind = "capacity" -> SayCapacity(r)
      [] r.intent \in {"machine_health", "machine_status"} -> SayHealth(r)
      [] r.intent = "maintenance_attention" -> SayAttention(r)
      [] r.kind = "history"  -> SayAnalysis(r)

-----------------------------------------------------------------------------
(* What a model makes of the facts: figures, names and causes that are all  *)
(* in them, put together as it pleases.                                     *)

Amounts(r) ==
    {r.found.final, r.found.machine, r.found.material}
      \cup { r.found.shares[m] : m \in DOMAIN r.found.shares }
      \cup { Whole(r.facts.rows[m]) : m \in DOMAIN r.facts.rows }

\* "n parts; the machine m limits it", with a reason or without.
NamingDraft(n, m, why) ==
    [Silent EXCEPT !.figures = {Figure(n, "parts")}, !.totals = {Hundredths(n)},
                   !.names = {m}, !.limits = TRUE, !.reasons = why]

\* "n parts; machine time, or material, limits it".
BlamingDraft(n, what) ==
    [Silent EXCEPT !.figures = {Figure(n, "parts")}, !.totals = {Hundredths(n)},
                   !.limits = TRUE, !.blames = {what}]

\* The cause a draft may give, if it gives one.
Grounds == {{}, {"shift pattern"}, {"maintenance"}}

NamingDrafts(r) ==
    { NamingDraft(n, m, why) : n \in Amounts(r), m \in DOMAIN r.facts.rows, why \in Grounds }

BlamingDrafts(r) ==
    { BlamingDraft(n, what) : n \in Amounts(r), what \in {"machine", "material"} }

\* "m may (not) run, maintenance is (not) active, the limit of k is its reading".
HealthDraft(r, m, k, no, on) ==
    [Silent EXCEPT !.names = {m}, !.denies = no, !.active = on,
                   !.stops = {<< k, Hundredths(r.facts.machines[m].reading[k]) >>}]

HealthDrafts(r) ==
    { HealthDraft(r, m, k, no, on) : m \in DOMAIN r.found, k \in Rules,
                                     no \in BOOLEAN, on \in BOOLEAN }

\* "so far below plan, mainly for one cause, and all rejects were of one machine".
AnalysisDraft(r, main, of) ==
    [Silent EXCEPT !.figures = {[v |-> 10 * r.found.below, unit |-> "none"]},
                   !.main = main, !.rejectsOf = of]

AnalysisDrafts(r) ==
    { AnalysisDraft(r, main, of) : main \in {{}, {"downtime"}, {"rejects"}},
                                   of \in {{}} \cup { {m} : m \in Machines(r.facts.rows) } }

ModelDrafts(r) ==
    CASE r.kind = "capacity" -> NamingDrafts(r) \cup BlamingDrafts(r)
      [] r.kind = "health"   -> HealthDrafts(r)
      [] r.kind = "history"  -> AnalysisDrafts(r)

-----------------------------------------------------------------------------

Init ==
    /\ case \in Cases
    /\ run = Unconcluded
    /\ text = Silent
    /\ author = "data"
    /\ verdict = "unread"

(* The walk is over: derive, then compose. *)
Conclude ==
    /\ run = Unconcluded
    /\ run' = Derive(case)
    /\ text' = DataOnly(Derive(case))
    /\ UNCHANGED << case, author, verdict >>

(* A draft takes the place of the data-only answer until it has been read. *)
Propose ==
    /\ run # Unconcluded /\ author = "data" /\ verdict = "unread"
    /\ text' \in ModelDrafts(run)
    /\ author' = "model"
    /\ UNCHANGED << case, run, verdict >>

Validate ==
    /\ run # Unconcluded /\ verdict = "unread"
    /\ verdict' = IF Grounded(text, run) THEN "grounded" ELSE "rejected"
    /\ UNCHANGED << case, run, text, author >>

Next == Conclude \/ Propose \/ Validate

Spec == Init /\ [][Next]_fvars

-----------------------------------------------------------------------------
(* Properties.  The finding does not change once it is made. *)

JustConcluded(kind) ==
    run # Unconcluded /\ author = "data" /\ verdict = "unread" /\ case.kind = kind

ExactHours(rows) == \A m \in DOMAIN rows : Off(rows[m]) = 0

TheMost(f, n) ==
    /\ Makeable(f.rows, f.cycle, f.qty, f.stock, n)
    /\ ~Makeable(f.rows, f.cycle, f.qty, f.stock, n + 1)

\* The capacity is the largest number of parts somebody could share out among
\* the eligible machines, each within its own time and all within the stock:
\* floors, sum and minimum add up to that (capacity.py:136-184).
CapacityIsTheMost ==
    (JustConcluded("capacity") /\ ExactHours(case.facts.rows)) =>
        TheMost(case.facts, run.found.final)

\* engine/capacity.py:18-21 - "Decimal, not float": the figure is that of the
\* decimal columns, whatever a double makes of their difference.
CapacityIsDecimal ==
    JustConcluded("capacity") => TheMost(case.facts, run.found.final)

\* The one machine named has strictly fewer hours than any other eligible one
\* and stock does not stop production first; none is named when several share
\* the bottom; and undoing the cause that is named gives the machine at least as
\* many hours back as undoing the other would (bottleneck.py:80-110, 130-179).
ConstraintIsRight ==
    (JustConcluded("capacity") /\ ExactHours(case.facts.rows)) =>
        LET rows   == case.facts.rows
            least  == { m \in Eligible(rows) :
                          \A o \in Eligible(rows) : Whole(rows[m]) <= Whole(rows[o]) }
            short  == run.found.material < run.found.machine
            named  == run.constraint.bottleneck
        IN  /\ named = IF ~short /\ Cardinality(least) = 1 THEN least ELSE {}
            /\ \A m \in named :
                 LET served  == WithoutMaintenance(rows, m)
                     staffed == WithFullShifts(rows, m)
                 IN  /\ run.constraint.cause = "maintenance"   => served >= staffed
                     /\ run.constraint.cause = "shift pattern" => staffed >= served
                     /\ run.constraint.cause = None =>
                          \/ rows[m].planned = 0
                          \/ served = Whole(rows[m]) /\ staffed = Whole(rows[m])

\* Worse readings never help: a machine that is stopped stays stopped when a
\* reading rises, and of two machines with every sensor read, the one that is
\* hotter and shakes more is never ranked behind (rules.py:77-167, 170-189).
WorseIsNeverBetter ==
    JustConcluded("health") =>
        LET all  == case.facts.machines
            rank == Ranking(run.found)
            worse(x, y) == \A k \in Rules :
                /\ LevelOf(all[y], case.facts.limits, k) # "not_assessable"
                /\ all[x].reading[k] > all[y].reading[k]
        IN  /\ \A x \in DOMAIN all : \A k \in Rules :
                 (~run.found[x].produces /\ all[x].reading[k] # Null) =>
                     ~Health([all[x] EXCEPT !.reading[k] = @ + 1],
                             case.facts.limits).produces
            /\ \A i, j \in DOMAIN rank : worse(rank[i], rank[j]) => i < j

\* The account of a shortfall balances: what the machines below their plan lost
\* is the net shortfall and what the others made up, neither counted twice nor
\* left out, over any days and machines (analysis.py:89-129, 183-197).
LossesReconcile ==
    (JustConcluded("history") /\ run.found.short > 0) =>
        LET deltas == run.found.deltas
            below  == { m \in DOMAIN deltas : deltas[m] < 0 }
            made   == { f.impact : f \in { run.found.factors[j] :
                          j \in { i \in DOMAIN run.found.factors :
                                   run.found.factors[i].kind = "offset" } } }
        IN  -SumOver(below, deltas)
              = run.found.short - SumOver(made, [impact \in made |-> impact])

\* A machine that may not run, and a breach the validator cannot read as a
\* percentage: the two answers its patterns object to.
MisreadByPatterns ==
    \/ run.headline.verdict = "cannot"
    \/ /\ run.intent = "maintenance_attention" /\ run.headline.machine # {}
       /\ LET machine == case.facts.machines[Foremost(run)]
              over    == RelativeBreach(machine, case.facts.limits,
                                        Noted(machine, case.facts.limits))
          IN  over > 10000 \/ (over % 100) = 50

\* The answer put together from the finding passes the check drafts are put to,
\* so that falling back to it never shows an answer marked as not grounded - but
\* for the two that MisreadByPatterns names (executor.py:393-438, validator.py:770).
DataOnlyIsAccepted ==
    (author = "data" /\ verdict # "unread" /\ ~MisreadByPatterns) => verdict = "grounded"

\* tests/test_validation.py - "The validator must not cry wolf on an answer built
\* from tool output."
NoCryingWolf == (author = "data" /\ verdict # "unread") => verdict = "grounded"

\* The amount is one the limits allow, the machine it blames has the fewest hours,
\* the reason it gives takes the most of them, and what it calls the limit is the
\* smaller of the two.
CapacityIsSo(f, intent, t) ==
    LET byMachine  == MachineCapacity(f.rows, f.cycle)
        byMaterial == MaterialCapacity(f.stock, f.qty)
    IN  /\ t.totals \subseteq
             { Hundredths(n) : n \in IF intent = "bottleneck" THEN {byMachine, byMaterial}
                                     ELSE {Min({byMachine, byMaterial})} }
        /\ \A m \in t.names :
             /\ byMachine <= byMaterial
             /\ \A o \in Eligible(f.rows) \ {m} : Hours(f.rows[m]) < Hours(f.rows[o])
             /\ (/\ f.rows[m].planned > 0 /\ f.rows[m].maintenance > 0
                 /\ Shortfall(f.rows, m) > 0) =>
                  /\ t.reasons = {"maintenance"} =>
                       WithoutMaintenance(f.rows, m) >= WithFullShifts(f.rows, m)
                  /\ t.reasons = {"shift pattern"} =>
                       WithFullShifts(f.rows, m) >= WithoutMaintenance(f.rows, m)
        /\ "machine" \in t.blames  => byMachine <= byMaterial
        /\ "material" \in t.blames => byMaterial < byMachine

\* Whether the machine may run is what the rules say of it.
HealthIsSo(f, intent, t) ==
    \A m \in t.names :
        /\ intent = "machine_health" => (t.denies <=> ~Health(f.machines[m], f.limits).produces)
        /\ t.active => ~Health(f.machines[m], f.limits).produces

\* The main cause costs no less than the other, and rejects pinned on one machine
\* were all its own.
HistoryIsSo(f, t) ==
    LET lost    == Lost(Total(f.rows, "downtime"), f.cycle)
        rejects == Total(f.rows, "rejected")
    IN  /\ (f.cycle # NoCycle /\ lost > 0 /\ rejects > 0) =>
             /\ "downtime" \in t.main => lost >= rejects
             /\ "rejects" \in t.main  => rejects >= lost
        /\ \A m \in t.rejectsOf :
             Cardinality({ o \in Machines(f.rows) : TotalOf(f.rows, o, "rejected") > 0 }) > 1 =>
                 TotalOf(f.rows, m, "rejected") = rejects

\* What an accepted draft says of the factory is so, whatever it has put together
\* from figures, names and causes that are all in the facts
\* (validator.py:414-474, 527-734).
AcceptedIsSo ==
    (author = "model" /\ verdict = "grounded") =>
        CASE case.kind = "capacity" -> CapacityIsSo(case.facts, case.intent, text)
          [] case.kind = "health"   -> HealthIsSo(case.facts, case.intent, text)
          [] case.kind = "history"  -> HistoryIsSo(case.facts, text)

=============================================================================
