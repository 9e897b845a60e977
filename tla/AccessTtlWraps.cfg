\* Violated: eight-bit words, a limit of six seconds.
CONSTANTS
    Half = 128
    Second = 5
    Limit = 30
    Default = 10
SPECIFICATION Spec
INVARIANT NothingAskedAboveLimit
