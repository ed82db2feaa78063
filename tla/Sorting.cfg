\* All arrays of at most seven elements and three values, and some longer ones.
SPECIFICATION Spec
CONSTANTS
    MaxSize = 7
    Value = {0, 1, 2}
    Inputs <- AllArrays
    MinPartition = 3
    MinMedian9 = 6
INVARIANTS
    Sorts
    StackHalves
PROPERTY Returns
