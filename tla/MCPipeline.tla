----------------------------- MODULE MCPipeline -----------------------------
(***************************************************************************)
(* Three analysed questions - one with a binding and two required fields,  *)
(* one with neither, one whose answer carries the fixed wording - and one  *)
(* that understanding settles by itself.                                   *)
(***************************************************************************)
EXTENDS Pipeline

Analysed == { << "bottleneck", {"part"} >>,
              << "machine_health", {"machine"} >>,
              << "maintenance_attention", {} >> }

MCUnderstandings ==
    { [status |-> "understood", intent |-> r[1], plan |-> BuildPlan(r[1], r[2])] :
        r \in Analysed }
    \cup { [status |-> st, intent |-> "unknown", plan |-> << >>] :
             st \in {"clarify", "rejected_out_of_domain"} }

MCEnvelopes == [t \in Tool |-> { EnvelopeOf(t, m) : m \in MesState }]

TwoDrafts == {"draft1", "draft2"}

\* One model text says the required sentence; a data-only answer does not.
MCWorded == {"draft1"}

Both == BOOLEAN

=============================================================================
