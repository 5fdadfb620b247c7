---------------------------- MODULE MCFactoryRun ----------------------------
(***************************************************************************)
(* Every plan the selector can build, over a factory that changes while    *)
(* the run reads it.                                                       *)
(***************************************************************************)
EXTENDS FactoryRun

MCEnvelopes == [t \in Tool |-> { EnvelopeOf(t, m) : m \in Rows }]

\* The columns a capacity run reads vary together, and so do the others.
CapacityStates == { m \in MesState : m.machine /\ m.sensors /\ m.history }

OtherStates ==
    { m \in MesState : /\ m.part /\ m.cycle /\ m.qty /\ m.material
                       /\ m.machines = "eligible" /\ m.stock = "counted" }

FactoryStates == CapacityStates \cup OtherStates

\* Every column a plan requires is recorded, and one precondition of the calculation
\* fails: no machine of the part's type may run, or the part has no stock row.
OneUnmetStates ==
    { m \in CapacityStates : /\ m.part /\ m.cycle /\ m.qty /\ m.stock = "counted"
                             /\ m.material # (m.machines = "eligible") }

\* A registry in which one call, a plan by itself and amid others in another plan,
\* is declared and not built (registry.declare_planned).
Built == Tool \ {"get_production_orders"}

=============================================================================
