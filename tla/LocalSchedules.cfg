SPECIFICATION Spec
CONSTANTS
    Jobs = {j1, j2}
    Hours = {8, 9, 10}
INVARIANTS
    ClaimsWhatIsDue
CHECK_DEADLOCK FALSE
