\* All digraphs of three vertices with one or two colours, larger symmetric ones and
\* those of NautyTest, each asked twice under other names.
SPECIFICATION Spec
CONSTANTS
    Size = 3
    MaxVertices = 16
    Workloads <- AllWorkloads
    MaxPairs = 2
INVARIANTS
    Equitable
    RowsCorrect
    GroupExact
    NautyTests
PROPERTIES
    CanonizerSpec
    CallsReturn
