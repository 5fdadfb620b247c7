-------------------------- MODULE MCUnderstanding --------------------------
(***************************************************************************)
(* Every question over two metrics and two kinds of entity, in every       *)
(* combination of what the pattern tables can find in it, and a model that *)
(* may answer anything with a label of its own choosing.                   *)
(***************************************************************************)
EXTENDS UnderstandingPipeline

SomeEntities == SUBSET {"part", "machine"}

\* Patterns of at most two intents match; which two decides the order.
AtMostTwo == { m \in SUBSET (Intent \ {"unknown"}) : Cardinality(m) <= 2 }

\* The id of a part or of a machine is a factory signal by itself.
MCQuestions ==
    { q \in [blank : {FALSE}, signals : BOOLEAN, denied : BOOLEAN,
             period  : {"stated", "malformed", Silent},
             metrics : SUBSET {"max_capacity", "planned_production"},
             matches : AtMostTwo, names : SomeEntities] :
        q.names # {} => q.signals }
    \cup { [blank |-> TRUE, signals |-> FALSE, denied |-> FALSE, period |-> Silent,
             metrics |-> {}, matches |-> {}, names |-> {}] }

MCReplies == [intent : Intent, window : {"today", "unsupported", Blank},
              ids : SUBSET {"part"}, ambiguous : BOOLEAN]

=============================================================================
