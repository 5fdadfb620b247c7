----------------------------- MODULE MCFindings -----------------------------
(***************************************************************************)
(* Small factories: two or three machines, hours and parts of one digit,   *)
(* limits and readings that fall on either side of every threshold.        *)
(***************************************************************************)
EXTENDS Findings

MCMachines == 1..3

\* Whole hours are exact in doubles.
Exact(p, m) == 0

Zero == {0}

FactoryRows ==
    { [planned |-> p, maintenance |-> m, eligible |-> TRUE] :
        p \in {0, 2, 3}, m \in {0, 1, 4} }
    \cup { [planned |-> 3, maintenance |-> 0, eligible |-> FALSE] }

SmallRows == { r \in FactoryRows : r.planned # 0 /\ r.maintenance # 4 }

Lines == [1..2 -> FactoryRows] \cup [1..3 -> SmallRows]

CapacityCases ==
    { [intent |-> i, kind |-> "capacity",
       facts |-> [rows |-> rows, cycle |-> c, qty |-> 2, stock |-> s]] :
        i \in {"production_capacity", "bottleneck"},
        rows \in { l \in Lines : \E m \in DOMAIN l : l[m].eligible },
        c \in {45, 80}, s \in {0, 5, 20} }

MCLimits ==
    [temperature |-> [warning |-> 8, critical |-> 17],
     vibration   |-> [warning |-> 2, critical |-> Null]]

SensorValues == { [temperature |-> t, vibration |-> v] :
                t \in {Null, 7, 9, 10, 17}, v \in {Null, 1, 2, 3, 5} }

Machined == { [status |-> st, reading |-> r, serviced |-> on] :
                st \in {"running", "down"}, r \in SensorValues, on \in BOOLEAN }

Ready == { m \in Machined : m.status = "running" /\ ~m.serviced }

HealthCases ==
    { [intent |-> i, kind |-> "health",
       facts |-> [machines |-> << m >>, limits |-> MCLimits]] :
        i \in {"machine_health", "machine_status"}, m \in Machined }
    \cup
    { [intent |-> "maintenance_attention", kind |-> "health",
       facts |-> [machines |-> << x, y >>, limits |-> MCLimits]] :
        x \in Ready, y \in Ready }

Days == { [planned |-> 4, produced |-> p, rejected |-> r, downtime |-> d] :
            p \in {1, 4, 5}, r \in {0, 2}, d \in {0, 1} }

HistoryCases ==
    { [intent |-> "production_analysis", kind |-> "history",
       facts |-> [rows |-> rows, cycle |-> c]] :
        rows \in [{<<1, 1>>, <<1, 2>>, <<2, 1>>} -> Days], c \in {NoCycle, 20, 45} }

\* Hours in tenths, and where a double of planned - maintenance falls: 4.0 - 2.2
\* is 1.7999999999999998, 4.0 - 3.1 is 0.8999999999999999, 8.0 - 4.4 is
\* 3.5999999999999996; the others land on their decimal.
TenthRows == { [planned |-> p, maintenance |-> m, eligible |-> TRUE] :
                 p \in {40, 80}, m \in {0, 5, 22, 31, 44} }

Doubles(p, m) == IF << p, m >> \in {<<40, 22>>, <<40, 31>>, <<80, 44>>} THEN -1 ELSE 0

TenthCases ==
    { [intent |-> "production_capacity", kind |-> "capacity",
       facts |-> [rows |-> rows, cycle |-> c, qty |-> 1, stock |-> 80]] :
        rows \in [1..1 -> TenthRows] \cup [1..2 -> { r \in TenthRows : r.maintenance > 20 }],
        c \in {100, 120, 180} }

MCCases == CapacityCases \cup HealthCases \cup HistoryCases

=============================================================================
