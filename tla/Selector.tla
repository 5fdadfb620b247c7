------------------------------ MODULE Selector ------------------------------
(***************************************************************************)
(* backend/app/agent/selector.py and the names it shares with schemas.py.  *)
(*                                                                         *)
(* The plan template of every intent: which MES tools run, in which order, *)
(* which argument of a call is bound to an earlier result, and which       *)
(* fields a call must come back with.  The reading of the question is      *)
(* reduced to the intent and to the kinds of entity it resolved; titles,   *)
(* reasons and the values of arguments carry no control.                   *)
(***************************************************************************)
EXTENDS Integers, Sequences, FiniteSets

Intent == {"production_capacity", "machine_status", "bottleneck",
           "production_analysis", "machine_health", "maintenance_attention",
           "production_orders", "material_inventory", "unknown"}

Tool == {"get_machine_status", "get_available_machines",
         "get_part_information", "get_production_orders",
         "get_material_inventory", "get_maintenance_schedule",
         "get_production_history", "calculate_production_capacity"}

\* Columns a tool can report in missing_fields.
Field == {"parts.cycle_time_min", "parts.material_qty_per_unit",
          "inventory.available_quantity",
          "machines.temperature_c", "machines.vibration_mm_s"}

\* Paths into an envelope that a binding follows.
Path == {"data.part.required_machine_type", "data.part.material_id"}

\* Kinds of entity a question can resolve (ResolvedEntities).
Entity == {"part", "machine", "material"}

\* Parameters the tools take.
Param == {"part_id", "machine_id", "material_id", "machine_type",
          "time_window", "include_completed", "status"}

-----------------------------------------------------------------------------
(* A planned call: arguments known now, arguments bound to earlier results, *)
(* and the fields the call must come back with.                             *)

Binding == [parameter : Param, from : Nat, path : Path]

PlannedCall == [tool     : Tool,
                args     : SUBSET Param,
                bindings : Seq(Binding),
                requires : SUBSET Field]

Call(tool, args) ==
    [tool |-> tool, args |-> args, bindings |-> << >>, requires |-> {}]

Bound(call, parameter, path) ==
    [call EXCEPT !.bindings = << [parameter |-> parameter, from |-> 1, path |-> path] >>]

Requiring(call, fields) == [call EXCEPT !.requires = fields]

\* An argument whose entity the question did not name is left out of the call
\* (selector.py: `if v is not None`).
Given(entities, entity, parameter) == IF entity \in entities THEN {parameter} ELSE {}

-----------------------------------------------------------------------------
(* The templates. *)

PartArg(e)     == Given(e, "part", "part_id")
MachineArg(e)  == Given(e, "machine", "machine_id")
MaterialArg(e) == Given(e, "material", "material_id")
Window         == {"time_window"}

\* Slip: the stock figure is fetched but not required.
CapacityPlanUnrequired(e) ==
    << Requiring(Call("get_part_information", PartArg(e)),
                 {"parts.cycle_time_min", "parts.material_qty_per_unit"}),
       Bound(Call("get_available_machines", Window),
             "machine_type", "data.part.required_machine_type"),
       Call("get_maintenance_schedule", Window),
       Bound(Call("get_material_inventory", {}), "material_id", "data.part.material_id"),
       Call("calculate_production_capacity", PartArg(e) \cup Window) >>

CapacityPlan(e) ==
    << Requiring(Call("get_part_information", PartArg(e)),
                 {"parts.cycle_time_min", "parts.material_qty_per_unit"}),
       Bound(Call("get_available_machines", Window),
             "machine_type", "data.part.required_machine_type"),
       Call("get_maintenance_schedule", Window),
       Requiring(Bound(Call("get_material_inventory", {}),
                       "material_id", "data.part.material_id"),
                 {"inventory.available_quantity"}),
       Call("calculate_production_capacity", PartArg(e) \cup Window) >>

BottleneckPlan(e) ==
    << Requiring(Call("get_part_information", PartArg(e)), {"parts.cycle_time_min"}),
       Bound(Call("get_available_machines", Window),
             "machine_type", "data.part.required_machine_type"),
       Call("get_maintenance_schedule", Window),
       Call("calculate_production_capacity", PartArg(e) \cup Window) >>

HealthPlan(e) ==
    << Call("get_machine_status", MachineArg(e)),
       Call("get_maintenance_schedule", MachineArg(e) \cup Window) >>

AnalysisPlan(e) ==
    (IF "part" \in e THEN << Call("get_part_information", PartArg(e)) >> ELSE << >>)
    \o << Call("get_production_history", PartArg(e) \cup Window),
          Call("get_production_orders", PartArg(e)),
          Call("get_maintenance_schedule", Window \cup {"include_completed"}) >>

AttentionPlan ==
    << Call("get_machine_status", {}),
       Call("get_maintenance_schedule", Window) >>

BuildPlan(intent, e) ==
    CASE intent = "production_capacity"   -> CapacityPlan(e)
      [] intent = "bottleneck"            -> BottleneckPlan(e)
      [] intent = "machine_health"        -> HealthPlan(e)
      [] intent = "machine_status"        -> << Call("get_machine_status", MachineArg(e)) >>
      [] intent = "production_analysis"   -> AnalysisPlan(e)
      [] intent = "maintenance_attention" -> AttentionPlan
      [] intent = "production_orders"     -> << Call("get_production_orders",
                                                     PartArg(e) \cup Window) >>
      [] intent = "material_inventory"    -> << Call("get_material_inventory",
                                                     MaterialArg(e)) >>
      [] OTHER                            -> << >>

\* The part that capacity and bottleneck cannot be planned without.
PartRequired == {"production_capacity", "bottleneck"}

MissingRequirement(intent, e) == intent \in PartRequired /\ "part" \notin e

\* What understanding hands over: a plan it could build, or a question that is
\* settled without one.
Handovers ==
    { [status |-> "understood", intent |-> r[1], plan |-> BuildPlan(r[1], r[2])] :
        r \in { q \in Intent \X SUBSET Entity :
                   q[1] # "unknown" /\ ~MissingRequirement(q[1], q[2]) } }
    \cup { [status |-> "clarify", intent |-> i, plan |-> << >>] : i \in Intent }
    \cup { [status |-> "rejected_out_of_domain", intent |-> "unknown", plan |-> << >>] }

=============================================================================
