\* All digraphs of three and all graphs of four vertices, small ones with loops and
\* larger ones with much symmetry; two operations on each.
SPECIFICATION Spec
CHECK_DEADLOCK FALSE
CONSTANTS
    MaxVertices = 8
    Inc = 2
    SparseStarts <- TheSparseStarts
    DenseStarts <- TheDenseStarts
    Randoms <- TheRandoms
    Partials <- ThePartials
    MaxDoubled = 3
    Steps <- TheSteps
INVARIANTS
    FormsAgree
    ComparisonsRight
    RefinesRight
    NamesImmaterial
    CellChoices
PROPERTIES
    ImplementsDigraph
