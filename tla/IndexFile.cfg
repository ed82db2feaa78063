\* All graphs over two vertices with two labels, without label sequences; the
\* index is sorted only when its cores are computed.
SPECIFICATION IndexSpec
CONSTANTS
    K = 3
    Vertex = {0, 1}
    Label = {0, 1}
    Graphs <- AllGraphs
    ComputeLabels = FALSE
    None = none
    MaxReads = 2
    SortsEarly = FALSE
INVARIANTS
    FileFaithful
    QueriesExact
    ComputationEnds
