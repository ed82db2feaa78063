\* Keys of all cores of at most three vertices and three edges.
SPECIFICATION Spec
CONSTANTS
    Label = {0, 1}
    MaxVertex = 3
    MaxEdges = 3
    Cores <- AllCores
    MaxLabelBits = 5
    MaxVertexBits = 10
INVARIANTS
    FormCanonical
    ArrayFits
    CodeDetermines
