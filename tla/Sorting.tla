------------------------------- MODULE Sorting -------------------------------
(***************************************************************************)
(* Python's sorted: the elements of S, each once, every one before those   *)
(* it goes before.  `before` is a strict order that leaves no two elements *)
(* undecided; a stable sort is one by the key first and by the place the   *)
(* elements had where the keys are equal.                                  *)
(***************************************************************************)
EXTENDS Integers, FiniteSets

Sorted(S, before(_, _)) ==
    CHOOSE seq \in [1..Cardinality(S) -> S] :
        \A i, j \in 1..Cardinality(S) : i < j => before(seq[i], seq[j])

=============================================================================
