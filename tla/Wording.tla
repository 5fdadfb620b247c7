------------------------------ MODULE Wording ------------------------------
(***************************************************************************)
(* The texts one question may be answered with (answering.py): what a      *)
(* model may write, and the answer the executor composed from data alone.  *)
(***************************************************************************)

CONSTANTS
    Drafts,    \* what a model may write for one question
    DataOnly,  \* run.answer as the executor composed it
    Worded     \* texts that already say the check is not predictive

Texts == Drafts \cup {DataOnly}

ASSUME TextsAssumption == DataOnly \notin Drafts /\ Worded \subseteq Texts

=============================================================================
