----------------------------- MODULE FactoryRun -----------------------------
(***************************************************************************)
(* The executor composed with the MES it reads.  Every tool answers from   *)
(* the database as it stands when the call reaches it, and the factory     *)
(* goes on working: a planner, a stock count or an operator may change a   *)
(* row between two steps of one run, and between two reads of one step:    *)
(* nothing holds a snapshot, every repository query acquires a pooled      *)
(* connection of its own (mes_repository.py).  The capacity calculation is *)
(* the tool whose outcome rests on three such reads.                       *)
(***************************************************************************)
EXTENDS Executor

CONSTANTS
    MesStates,   \* the database states considered
    MaxEdits     \* bound: how many times the database changes during a run

ASSUME MesStatesAssumption == MesStates \subseteq MesState

\* A tool may return what it makes of any rows it can read.
ASSUME RowsAssumption ==
    \A t \in Tool : { EnvelopeOf(t, m) : m \in Rows } \subseteq Envelopes[t]

VARIABLES
    mes,     \* the database now
    edits,   \* how often it has changed since the run began
    drawn,   \* the database at each row the calculation under way has read
    seen     \* seen[k]: the rows as the k-th planned call found them

allvars == << vars, mes, edits, drawn, seen >>

\* The factory changes under the run.
Edit ==
    /\ phase = "walk" /\ edits < MaxEdits
    /\ mes' \in MesStates \ {mes}
    /\ edits' = edits + 1
    /\ UNCHANGED << vars, drawn, seen >>

Calculating == Callable /\ Current.tool = "calculate_production_capacity"

(* The part's row, then the machines of its type; the stock is read last. *)
ReadRow ==
    /\ Calculating
    /\ Len(drawn) < 2 /\ (drawn = << >> => mes.part)
    /\ drawn' = Append(drawn, mes)
    /\ UNCHANGED << vars, mes, edits, seen >>

\* The rows a call that ends now has read.
View ==
    IF drawn = << >> THEN mes
    ELSE [mes EXCEPT !.part     = TRUE,
                     !.cycle    = drawn[1].cycle,
                     !.qty      = drawn[1].qty,
                     !.material = drawn[1].material,
                     !.machines = drawn[2].machines]

(* A tool answers from the rows it read; without its part the calculation    *)
(* reads no further.                                                         *)
Read ==
    /\ Calculating => Len(drawn) = 2 \/ (drawn = << >> /\ ~mes.part)
    /\ LET env == EnvelopeOf(Current.tool, View)
       IN  Callable /\ (Return(env) \/ Refuse(env))

\* Parameters and windows are checked before the first read.
Walk == \/ Settle \/ SkipUnbound \/ NotBuilt \/ Raise \/ Conclude
        \/ drawn = << >> /\ Fail

FactoryInit ==
    Init /\ mes \in MesStates /\ edits = 0 /\ drawn = << >> /\ seen = << >>

FactoryNext ==
    \/ Edit
    \/ ReadRow
    \/ /\ Read \/ Walk
       /\ drawn' = << >>
       /\ seen' = [j \in 1..Len(steps') |->
                    IF j \in DOMAIN seen THEN seen[j] ELSE View]
       /\ UNCHANGED << mes, edits >>

FactorySpec == FactoryInit /\ [][FactoryNext]_allvars

-----------------------------------------------------------------------------
(* Properties. *)

\* The k-th call looks up a column the question needs, and the factory does not know
\* it at that moment: a part's cycle time, and for a capacity what a unit consumes and
\* what is in stock of the material the part was said to be made of.
UnknownAt(k) ==
    \/ /\ Plan[k].tool = "get_part_information" /\ seen[k].part
       /\ \/ ~seen[k].cycle
          \/ ~seen[k].qty /\ understanding.intent = "production_capacity"
    \/ /\ Plan[k].tool = "get_material_inventory" /\ seen[k].stock = "uncounted"
       /\ \E j \in 1..(k - 1) : /\ Plan[j].tool = "get_part_information"
                                /\ seen[j].part /\ seen[j].material

\* A capacity or bottleneck run without a failed call in which a column it needs was
\* unknown when its plan looked for it ends in a refusal and says nothing else: the
\* column may have been filled in by the time the calculation would have read it, and
\* no binding that skips the look-up may hide it (executor.py:122-133, FR-8).
UnknownIsRefused ==
    (/\ phase = "done" /\ Understood /\ status # "error"
     /\ understanding.intent \in PartRequired
     /\ \E k \in 1..Len(Plan) : UnknownAt(k)) =>
        status = "refused_missing_data" /\ composed = "refusal"

\* Whatever changed while it ran, a run concludes only what its reads said: a
\* capacity or bottleneck finding was computed from rows each of which, when the
\* calculation read it, met its precondition of docs/02 section 5, and a field that
\* a refusal names really was unknown when the run read it.
OutcomeIsWhatWasRead ==
    /\ (composed = "finding" /\ understanding.intent \in PartRequired) =>
         \E k \in 1..Len(Plan) :
            /\ Plan[k].tool = "calculate_production_capacity"
            /\ steps[k].status = "ok"
            /\ seen[k].part /\ CapacityKnown(seen[k])
    /\ status = "refused_missing_data" =>
         \E k \in 1..Len(Plan) :
            /\ steps[k].status = "ok"
            /\ named = "parts.cycle_time_min"        => ~seen[k].cycle
            /\ named = "parts.material_qty_per_unit" => ~seen[k].qty
            /\ named = "inventory.available_quantity" => seen[k].stock = "uncounted"


=============================================================================
