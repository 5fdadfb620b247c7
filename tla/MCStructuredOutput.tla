------------------------- MODULE MCStructuredOutput -------------------------
EXTENDS StructuredOutput

CONSTANTS c1, c2, c3

ThreeCalls == {c1, c2, c3}

=============================================================================
