------------------------------ MODULE Capacity ------------------------------
(***************************************************************************)
(* The capacity calculation: what the repository reads per machine         *)
(* (mes_repository.py, availability), how many parts it comes to           *)
(* (engine/capacity.py) and what limits them (engine/bottleneck.py).       *)
(*                                                                         *)
(* Hours, cycle times and quantities are whole numbers of the smallest     *)
(* unit their columns hold; the formulas are ratios, so the unit does not  *)
(* matter.  The hours left over need not be one: they are a difference of  *)
(* two doubles, turned into a Decimal only afterwards.                     *)
(***************************************************************************)
EXTENDS Integers, FiniteSetsExt

CONSTANTS
    Machine,          \* machines of the part's type, by their place in the MES
    Rounding(_, _)    \* where planned - maintenance lies in doubles: exactly on
                      \* the decimal difference (0), just below (-1), above (1)

ASSUME MachineAssumption == Machine \subseteq Nat /\ IsFiniteSet(Machine)

None == "none"

-----------------------------------------------------------------------------
(* Effective hours.  A row is a machine as availability() returns it, with   *)
(* `planned`, `maintenance` and `eligible`.                                 *)

\* Whole units left, never negative.
Whole(row) ==
    IF row.planned > row.maintenance THEN row.planned - row.maintenance ELSE 0

\* Where the double lies: a machine with nothing left has exactly 0.0.
Off(row) ==
    IF row.planned > row.maintenance THEN Rounding(row.planned, row.maintenance) ELSE 0

\* The hours as the code compares them: equal only when the doubles are.
Hours(row) == 3 * Whole(row) + Off(row)

-----------------------------------------------------------------------------
(* calculate_capacity, once nothing it needs is missing. *)

\* floor(hours x 60 / cycle): just below a whole number of parts is one fewer.
PartsPossible(row, cycle) ==
    IF ~row.eligible THEN 0
    ELSE IF Off(row) = -1 THEN (Whole(row) * 60 - 1) \div cycle
    ELSE (Whole(row) * 60) \div cycle

Eligible(rows) == { m \in DOMAIN rows : rows[m].eligible }

\* Slip: the machines' time is pooled before it is divided into parts.
MachineCapacityPooled(rows, cycle) ==
    (MapThenSumSet(LAMBDA m : Whole(rows[m]), Eligible(rows)) * 60) \div cycle

MachineCapacity(rows, cycle) ==
    MapThenSumSet(LAMBDA m : PartsPossible(rows[m], cycle), Eligible(rows))

MaterialCapacity(stock, qty) == stock \div qty

Calculate(rows, cycle, qty, stock) ==
    LET byMachine  == MachineCapacity(rows, cycle)
        byMaterial == MaterialCapacity(stock, qty)
    IN  [machine  |-> byMachine,
         material |-> byMaterial,
         final    |-> Min({byMachine, byMaterial}),
         binding  |-> IF byMaterial < byMachine THEN "material" ELSE "machine",
         shares   |-> [m \in DOMAIN rows |-> PartsPossible(rows[m], cycle)]]

-----------------------------------------------------------------------------
(* identify_constraint. *)

\* Hours short of the best-staffed other eligible machine, before maintenance.
Shortfall(rows, m) ==
    LET others == { rows[o].planned : o \in Eligible(rows) \ {m} }
        best   == IF others = {} THEN rows[m].planned ELSE Max(others)
    IN  IF best > rows[m].planned THEN best - rows[m].planned ELSE 0

\* The reasons are sorted by size and the sort is stable: the shift pattern,
\* listed first, wins a tie.
LargerReason(planned, shortfall, maintenance) ==
    IF planned = 0 \/ (shortfall = 0 /\ maintenance = 0) THEN None
    ELSE IF maintenance > shortfall THEN "maintenance" ELSE "shift pattern"

\* Slip: the reasons are named in the order they are looked at.
MainCauseAsFound(rows, m) ==
    IF rows[m].planned = 0 THEN None
    ELSE IF Shortfall(rows, m) > 0 THEN "shift pattern"
    ELSE IF rows[m].maintenance > 0 THEN "maintenance" ELSE None

MainCause(rows, m) ==
    LargerReason(rows[m].planned, Shortfall(rows, m), rows[m].maintenance)

FewestHours(rows) ==
    { m \in Eligible(rows) : \A o \in Eligible(rows) : Hours(rows[m]) <= Hours(rows[o]) }

\* Material outranks any machine, and machines level at the bottom are no
\* bottleneck.
Constraint(rows, capacity) ==
    IF capacity.binding = "material"
    THEN [kind |-> "material", bottleneck |-> {}, cause |-> None]
    ELSE IF Cardinality(FewestHours(rows)) # 1
    THEN [kind |-> None, bottleneck |-> {}, cause |-> None]
    ELSE LET m == CHOOSE x \in FewestHours(rows) : TRUE
         IN  [kind |-> "machine", bottleneck |-> {m}, cause |-> MainCause(rows, m)]

-----------------------------------------------------------------------------
(* What these promise, defined another way. *)

SumOver(S, f) == MapThenSumSet(LAMBDA x : f[x], S)

\* Somebody could share n parts out so that each eligible machine has the time
\* for its own and the stock suffices for all.
Makeable(rows, cycle, qty, stock, n) ==
    /\ n * qty <= stock
    /\ \E share \in [Eligible(rows) -> 0..n] :
         /\ \A m \in Eligible(rows) : share[m] * cycle <= Whole(rows[m]) * 60
         /\ SumOver(Eligible(rows), share) = n

\* Hours a machine would have if nothing of one kind were taken from it.
WithoutMaintenance(rows, m) == rows[m].planned

WithFullShifts(rows, m) ==
    Whole([rows[m] EXCEPT !.planned = @ + Shortfall(rows, m)])

=============================================================================
