SPECIFICATION RunSpec
CONSTANTS
    S0 = S0
    S1 = S1
    S2 = S2
    S3 = S3
    T0 = T0
    T1 = T1
    T2 = T2
    T3 = T3
    R0 = R0
    R1 = R1
    R2 = R2
    R3 = R3
    Q3 = Q3
    U0 = U0
    U1 = U1
    U2 = U2
    U3 = U3
    a0 = a0
    a1 = a1
    b0 = b0
    c0 = c0
    c1 = c1
    A = A
    B = B
    C = C
    NoDef = NoDef
    Miss = Miss
    Def <- Three
    Use <- ThreeReads
    Inst <- MCInst
    Cell <- MCCell
    Array <- MCArray
    Orig <- MCOrig
    Stale <- NoneStale
    Scops <- ShortScops
INVARIANTS
    RunTypeOK
    BarrierSeesOverwrites
    PropagatedEdgesCover
    LoadsSameValueUnlessBlocked
    EdgesForwardUnlessBlocked
    ConflictsOrderedUnlessBlocked
    LoadedWritesKept
PROPERTIES
    SplitKeepsDependences
