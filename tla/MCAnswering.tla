---------------------------- MODULE MCAnswering ----------------------------
EXTENDS Answering

CONSTANT MaxBase   \* bound: steps already in the run's trace

TwoDrafts == {"draft1", "draft2"}

\* One model text says it; a data-only answer without a breach does not.
MCWorded == {"draft1"}

MCInit == base \in 0..MaxBase /\ AnsweringInit

MCSpec == MCInit /\ [][AnsweringNext]_avars

=============================================================================
