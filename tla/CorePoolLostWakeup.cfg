\* Two layers, two threads; nothing fails and the caller is not interrupted,
\* and its time limit does pass.
SPECIFICATION TimedSpec
CONSTANTS
    K = 2
    Width <- Width21
    Block <- MCBlock
    LayerOf <- MCLayerOf
    Deps <- MCDeps
    CanFail <- MCNone
    Thread = {t1, t2}
    Caller = caller
    Nobody = nobody
    NoBlock = noBlock
    Interrupts = FALSE
PROPERTY
    CountedLayerEnds
