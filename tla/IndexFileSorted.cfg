\* The index may also be sorted before its cores are computed, and then saved
\* and read back: the computation of the cores may never end.
SPECIFICATION IndexSpec
CONSTANTS
    K = 3
    Vertex = {0, 1}
    Label = {0}
    Graphs <- AllGraphs
    ComputeLabels = FALSE
    None = none
    MaxReads = 2
    SortsEarly = TRUE
INVARIANT
    ComputationEnds
