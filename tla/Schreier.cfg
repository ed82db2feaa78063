\* Small permutation groups under all sequences of calls.
SPECIFICATION Spec
CONSTANTS
    Workloads <- AllWorkloads
    Fails = 1
    MaxOrder = 24
CHECK_DEADLOCK FALSE
INVARIANTS
    ReferencesCounted
    LevelsSound
    GeneratorsKept
    AnswersSound
    ClosedIsExact
