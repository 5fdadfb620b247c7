------------------------------ MODULE Shortfall ------------------------------
(***************************************************************************)
(* Plan against actual (engine/analysis.py): how far production fell short *)
(* and which recorded cause cost the most parts.  `rows` maps each day and *)
(* machine of the window to what was recorded: parts planned, produced and *)
(* rejected, and hours of downtime.                                        *)
(***************************************************************************)
EXTENDS Sorting, Sequences, FiniteSetsExt

NoCycle == 0   \* the plan fetched no part, or its cycle time is NULL

-----------------------------------------------------------------------------

Total(rows, field) == MapThenSumSet(LAMBDA k : rows[k][field], DOMAIN rows)

Machines(rows) == { k[2] : k \in DOMAIN rows }

RowsOf(rows, m) == { k \in DOMAIN rows : k[2] = m }

TotalOf(rows, m, field) == MapThenSumSet(LAMBDA k : rows[k][field], RowsOf(rows, m))

Delta(rows, m) == TotalOf(rows, m, "produced") - TotalOf(rows, m, "planned")

\* ROUND_HALF_UP of a / b, for a and b that are not negative.
HalfUp(a, b) == (2 * a + b) \div (2 * b)

Lost(downtime, cycle) == HalfUp(downtime * 60, cycle)

\* Percentages keep one decimal: they are counted in tenths.
Tenths(part, whole) == IF whole = 0 THEN 0 ELSE HalfUp(1000 * part, whole)

Short(rows) == Total(rows, "planned") - Total(rows, "produced")

\* Slip: every day a machine ran over its plan counts, whatever it lost on others.
GainedByDay(rows) ==
    MapThenSumSet(LAMBDA k : rows[k].produced - rows[k].planned,
                  { k \in DOMAIN rows : rows[k].produced > rows[k].planned })

Gained(rows) ==
    MapThenSumSet(LAMBDA m : Delta(rows, m),
                  { m \in Machines(rows) : Delta(rows, m) > 0 })

Factor(kind, impact) == [kind |-> kind, impact |-> impact]

\* In the order they are looked for.  Without a cycle time downtime has no
\* known size, and over-production is an offset only of a shortfall.
Found(rows, cycle) ==
    (IF Total(rows, "downtime") = 0 THEN << >>
     ELSE << Factor("downtime",
                    IF cycle = NoCycle THEN 0
                    ELSE Lost(Total(rows, "downtime"), cycle)) >>)
    \o (IF Total(rows, "rejected") = 0 THEN << >>
        ELSE << Factor("rejects", Total(rows, "rejected")) >>)
    \o (IF Gained(rows) = 0 \/ Short(rows) <= 0 THEN << >>
        ELSE << Factor("offset", -Gained(rows)) >>)

Size(factor) == IF factor.impact < 0 THEN -factor.impact ELSE factor.impact

\* The largest effect first; the sort is stable.
Outweighs(found, i, j) ==
    \/ Size(found[i]) > Size(found[j])
    \/ Size(found[i]) = Size(found[j]) /\ i < j

Factors(rows, cycle) ==
    LET found == Found(rows, cycle)
        order == Sorted(DOMAIN found, LAMBDA i, j : Outweighs(found, i, j))
    IN  [j \in DOMAIN found |-> found[order[j]]]

Analyse(rows, cycle) ==
    [planned  |-> Total(rows, "planned"),
     produced |-> Total(rows, "produced"),
     rejected |-> Total(rows, "rejected"),
     downtime |-> Total(rows, "downtime"),
     short    |-> Short(rows),
     below    |-> IF Short(rows) > 0 THEN Tenths(Short(rows), Total(rows, "planned")) ELSE 0,
     rate     |-> Tenths(Total(rows, "rejected"),
                         Total(rows, "produced") + Total(rows, "rejected")),
     deltas   |-> [m \in Machines(rows) |-> Delta(rows, m)],
     factors  |-> Factors(rows, cycle)]

=============================================================================
