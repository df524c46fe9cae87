SPECIFICATION ExecSpec
CONSTANTS
    S0 = S0
    S1 = S1
    S2 = S2
    S3 = S3
    T0 = T0
    T1 = T1
    T2 = T2
    T3 = T3
    R0 = R0
    R1 = R1
    R2 = R2
    R3 = R3
    Q3 = Q3
    U0 = U0
    U1 = U1
    U2 = U2
    U3 = U3
    a0 = a0
    a1 = a1
    b0 = b0
    c0 = c0
    c1 = c1
    d0 = d0
    d1 = d1
    A = A
    B = B
    C = C
    NoDef = NoDef
    Miss = Miss
    Def <- Four
    Use <- FourReads
    Inst <- MCInst
    Cell <- ExecCell
    Array <- MCArray
    Orig <- MCOrig
    Stale <- NoneStale
    Scops <- ExecScops
    Initial = Initial
    Wrong = Wrong
    Pending = Pending
INVARIANTS
    ExecTypeOK
    ReadersAttached
    OneSourceUnlessDivided
    OneCellUnlessDivided
    EdgesForwardUnlessBlocked
    LoadsSameValueUnlessBlocked
    ConflictsOrderedUnlessBlocked
    LoadedWritesKept
    LastWritesKept
    BarrierSeesOverwrites
PROPERTIES
    KeepsPromise
    Terminates
