\* Keys of one edge with label 1 or 33, which five bits do not tell apart.
SPECIFICATION Spec
CONSTANTS
    Label = {1, 33}
    MaxVertex = 2
    MaxEdges = 1
    Cores <- AllCores
    MaxLabelBits = 5
    MaxVertexBits = 10
INVARIANT CodeDetermines
