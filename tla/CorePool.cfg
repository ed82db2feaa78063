\* Three layers, three threads; any block may fail, the caller may be
\* interrupted.
SPECIFICATION FairSpec
CONSTANTS
    K = 3
    Width <- Width211
    Block <- MCBlock
    LayerOf <- MCLayerOf
    Deps <- MCDeps
    CanFail <- MCAll
    Thread = {t1, t2, t3}
    Caller = caller
    Nobody = nobody
    NoBlock = noBlock
    Interrupts = TRUE
INVARIANTS
    TypeOK
    DepsReady
    MapComplete
    LockDiscipline
PROPERTIES
    ClosedLayersFrozen
    ImplementsLayered
    PoolTerminates
    PromptLayerEnds
