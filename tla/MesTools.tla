------------------------------ MODULE MesTools ------------------------------
(***************************************************************************)
(* backend/app/tools/mes_tools.py over the virtual MES, reduced to what    *)
(* decides how a run ends: which facts the factory database holds for the  *)
(* entities a question names, and what each tool's envelope then carries.  *)
(*                                                                         *)
(* A database state says, for the part in question, whether its row exists *)
(* and which of its columns are NULL, whether its material is stocked and  *)
(* counted, whether a machine of its type exists and may run, and whether  *)
(* the machine asked about, its sensors and a production record exist.     *)
(***************************************************************************)
EXTENDS Selector

Stock    == {"counted", "uncounted", "absent"}
Machines == {"none", "ineligible", "eligible"}

\* What a call sees: rows that need not have been read at one moment.
Rows == [part     : BOOLEAN,    \* the parts row exists
         cycle    : BOOLEAN,    \* cycle_time_min is not NULL
         qty      : BOOLEAN,    \* material_qty_per_unit is not NULL
         material : BOOLEAN,    \* material_id is not NULL
         stock    : Stock,      \* the inventory row of that material
         machines : Machines,   \* machines of the required type
         machine  : BOOLEAN,    \* the machine asked about exists
         sensors  : BOOLEAN,    \* every reading is recorded
         history  : BOOLEAN]    \* production rows in the window

\* parts.material_id references inventory (db/schema.sql), so stock can be
\* absent only while no part points at it.
MesState ==
    { m \in Rows :
        /\ m.stock = "absent" => ~(m.part /\ m.material)
        /\ ~m.part => m.cycle /\ m.qty /\ m.material }  \* canonical: no row, no columns

-----------------------------------------------------------------------------
(* The envelope: `usable` says the result is ok and holds the facts the     *)
(* engine reads from it (derive.py, _find), `provides` the binding paths    *)
(* that are not null in it, `missing` its missing_fields.                   *)

Envelope == [usable : BOOLEAN, provides : SUBSET Path, missing : SUBSET Field]

Returns(usable, provides, lacking) ==
    [usable |-> usable, provides |-> provides, missing |-> lacking]

Unless(present, field) == IF present THEN {} ELSE {field}

GetPartInformation(m) ==
    IF ~m.part
    THEN Returns(FALSE, {}, {})
    ELSE Returns(TRUE,
                 {"data.part.required_machine_type"}
                   \cup (IF m.material THEN {"data.part.material_id"} ELSE {}),
                 Unless(m.cycle, "parts.cycle_time_min")
                   \cup Unless(m.qty, "parts.material_qty_per_unit"))

GetMaterialInventory(m) ==
    Returns(TRUE, {},
            IF m.stock = "uncounted" THEN {"inventory.available_quantity"} ELSE {})

GetMachineStatus(m) ==
    Returns(m.machine, {},
            IF ~m.machine \/ m.sensors THEN {}
            ELSE {"machines.temperature_c", "machines.vibration_mm_s"})

\* Hours, orders, events and totals carry no control: an empty list is data too.
GetAvailableMachines(m)   == Returns(TRUE, {}, {})
GetProductionOrders(m)    == Returns(TRUE, {}, {})
GetMaintenanceSchedule(m) == Returns(TRUE, {}, {})

\* The analysis needs a row to compare with its plan.
GetProductionHistory(m)   == Returns(m.history, {}, {})

\* engine/capacity.py, in the order its checks run: the first precondition
\* that fails decides what, if anything, is reported missing.
CapacityMissing(m) ==
    CASE ~m.cycle                               -> {"parts.cycle_time_min"}
      [] m.cycle /\ m.machines # "eligible"     -> {}
      [] m.cycle /\ m.machines = "eligible" /\ ~m.qty
                                                -> {"parts.material_qty_per_unit"}
      [] m.cycle /\ m.machines = "eligible" /\ m.qty
           /\ ~(m.material /\ m.stock = "counted")
                                                -> {"inventory.available_quantity"}
      [] OTHER                                  -> {}

CapacityKnown(m) ==
    /\ m.cycle /\ m.qty
    /\ m.material /\ m.stock = "counted"
    /\ m.machines = "eligible"

\* Slip: nothing missing is taken for everything known.
CalculateUnlessMissing(m) ==
    IF ~m.part
    THEN Returns(FALSE, {}, {})
    ELSE Returns(CapacityMissing(m) = {}, {}, CapacityMissing(m))

CalculateProductionCapacity(m) ==
    IF ~m.part
    THEN Returns(FALSE, {}, {})
    ELSE Returns(CapacityKnown(m), {}, CapacityMissing(m))

\* What a tool answers when the factory is in state m.
EnvelopeOf(tool, m) ==
    CASE tool = "get_part_information"          -> GetPartInformation(m)
      [] tool = "get_available_machines"        -> GetAvailableMachines(m)
      [] tool = "get_material_inventory"        -> GetMaterialInventory(m)
      [] tool = "get_machine_status"            -> GetMachineStatus(m)
      [] tool = "get_production_orders"         -> GetProductionOrders(m)
      [] tool = "get_maintenance_schedule"      -> GetMaintenanceSchedule(m)
      [] tool = "get_production_history"        -> GetProductionHistory(m)
      [] tool = "calculate_production_capacity" -> CalculateProductionCapacity(m)

\* Parameters without a default in the tool's parameter model.
RequiredParams(tool) ==
    IF tool \in {"get_part_information", "calculate_production_capacity"}
    THEN {"part_id"} ELSE {}

=============================================================================
