SPECIFICATION Spec
CONSTANTS
    Machine <- MCMachines
    Rounding <- Exact
    Structural <- Zero
    Cases <- MCCases
CHECK_DEADLOCK FALSE
INVARIANTS
    NoCryingWolf
