\* Graphs of three vertices with one label and of two vertices with two labels, diameter 4.
SPECIFICATION Spec
CONSTANTS
    K = 4
    Vertex = {0, 1, 2}
    MaxEdges = 5
    Graphs <- SmallGraphs
    ComputeLabels = TRUE
    None = none
INVARIANTS
    IdsAreClasses
    WellFormed
    BlocksUniform
