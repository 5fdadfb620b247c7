SPECIFICATION Spec
CONSTANTS
    Machine <- MCMachines
    Rounding <- Doubles
    Structural <- Zero
    Cases <- TenthCases
CHECK_DEADLOCK FALSE
INVARIANTS
    CapacityIsDecimal
