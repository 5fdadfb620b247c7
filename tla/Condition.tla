------------------------------ MODULE Condition ------------------------------
(***************************************************************************)
(* Machine-condition rules (engine/rules.py): may a machine go on, and     *)
(* which machine needs attention first.  Readings and limits are whole     *)
(* numbers of one unit; a breach is a fraction of the warning limit, in    *)
(* ten-thousandths, the four decimals the code keeps.  A machine has its   *)
(* `status`, a `reading` for each rule and whether maintenance is active   *)
(* on it (`serviced`); the limit of a rule is a `warning` and a            *)
(* `critical`, either of which may be Null.                                *)
(***************************************************************************)
EXTENDS Sorting, Sequences, FiniteSetsExt

Rule == << "temperature", "vibration" >>     \* HEALTH_RULES, in order

Rules == { Rule[j] : j \in DOMAIN Rule }

Null == -1   \* a NULL column; no reading and no limit is negative

-----------------------------------------------------------------------------

\* Up to this limit, in the unit of the readings, two readings never share the
\* four decimals of a breach.
Finest == 10000

\* round(a / b, 4): no limit considered here makes a tie of it.
TenThousandths(a, b) == (20000 * a + b) \div (2 * b)

Level(reading, limit) ==
    CASE reading = Null \/ limit.warning = Null -> "not_assessable"
      [] reading # Null /\ limit.warning # Null
           /\ limit.critical # Null /\ reading >= limit.critical -> "critical"
      [] reading # Null /\ limit.warning # Null
           /\ ~(limit.critical # Null /\ reading >= limit.critical)
           -> IF reading >= limit.warning THEN "warning" ELSE "normal"

LevelOf(machine, limits, r) == Level(machine.reading[r], limits[r])

Assessed(machine, limits) ==
    { r \in Rules : LevelOf(machine, limits, r) # "not_assessable" }

Breaching(machine, limits) ==
    { r \in Rules : LevelOf(machine, limits, r) \in {"warning", "critical"} }

RelativeBreach(machine, limits, r) ==
    TenThousandths(machine.reading[r] - limits[r].warning, limits[r].warning)

\* What a machine without a single assessed reading is ranked by.
Unmeasured == -10000

Worst(machine, limits) ==
    Max({Unmeasured} \cup { RelativeBreach(machine, limits, r) :
                              r \in Assessed(machine, limits) })

\* The first reason that applies decides; the last two let the machine go on.
Reason(machine, limits) ==
    CASE machine.status \in {"maintenance", "down"} -> "status"
      [] machine.status \notin {"maintenance", "down"} /\ machine.serviced
           -> "maintenance"
      [] machine.status \notin {"maintenance", "down"} /\ ~machine.serviced
           -> IF \E r \in Rules : LevelOf(machine, limits, r) = "critical"
              THEN "stop_limit"
              ELSE IF Breaching(machine, limits) # {} THEN "warned" ELSE "fine"

Health(machine, limits) ==
    [reason     |-> Reason(machine, limits),
     produces   |-> Reason(machine, limits) \in {"warned", "fine"},
     breaches   |-> Cardinality(Breaching(machine, limits)),
     assessable |-> Assessed(machine, limits) = Rules,
     worst      |-> Worst(machine, limits)]

-----------------------------------------------------------------------------
(* rank_attention. *)

\* Slip: machines with as many breaches are compared by name only.
KeyBreachesOnly(h) == << h.breaches, IF h.assessable THEN 0 ELSE 1, 0 >>

Key(h) == << h.breaches, IF h.assessable THEN 0 ELSE 1, h.worst >>

Greater(a, b) ==
    \E j \in DOMAIN a : a[j] > b[j] /\ \A i \in 1..(j - 1) : a[i] = b[i]

\* sorted(..., reverse=True) keeps the order of machines with equal keys.
Outranks(healths, x, y) ==
    \/ Greater(Key(healths[x]), Key(healths[y]))
    \/ Key(healths[x]) = Key(healths[y]) /\ x < y

Ranking(healths) == Sorted(DOMAIN healths, LAMBDA x, y : Outranks(healths, x, y))

\* The breach the attention note is about: the worst, temperature first.
Noted(machine, limits) ==
    LET over(r) == RelativeBreach(machine, limits, r)
        worst   == { r \in Breaching(machine, limits) :
                       \A q \in Breaching(machine, limits) : over(q) <= over(r) }
    IN  IF Rule[1] \in worst THEN Rule[1] ELSE Rule[2]

\* f"{breach * 100:.0f}%": a half goes to the even side.
Percent(breach) ==
    LET whole == breach \div 100
        rest  == breach % 100
    IN  IF rest > 50 \/ (rest = 50 /\ whole % 2 = 1) THEN whole + 1 ELSE whole

=============================================================================
