SPECIFICATION Spec
CONSTANTS
    S0 = S0
    S1 = S1
    S2 = S2
    R0 = R0
    R2 = R2
    a0 = a0
    a1 = a1
    b0 = b0
    A = A
    B = B
    NoDef = NoDef
    Miss = Miss
    Def <- MCDef
    Use <- MCUse
    Inst <- LongInst
    Cell <- MCCell
    Array <- MCArray
    Stale <- NoneStale
    Scops <- DeadLoopScops
INVARIANTS
    WritesOrdered
CHECK_DEADLOCK FALSE
