SPECIFICATION Spec
CONSTANTS
    NLines = 4
    LineLen = 2
    Flaky = FALSE
    Outcomes <- MCOutcomes
INVARIANTS
    KeepsTrigger
    Minimal
    AssertHolds
PROPERTY
    Terminates
