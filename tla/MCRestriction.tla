--------------------------- MODULE MCRestriction ---------------------------
(* Three statements of two or three instances over the arrays A (two cells) and B. *)
EXTENDS DeadIterations, Sequences

CONSTANTS S0, S1, S2, R0, R2, a0, a1, b0, A, B

MCDef == {S0, S1, S2}
MCUse == {R0, R2}
MCInst == 0..1
LongInst == 0..2
MCCell == {a0, a1, b0}
MCArray == {A, B}
NoneStale(s) == {{}}

Pos == [d \in MCDef |-> CASE d = S0 -> 0 [] d = S1 -> 1 [] d = S2 -> 2]

ArrayOf(f) == IF \E i \in Inst : b0 \in f[i] THEN B ELSE A
Always(C)  == [i \in Inst |-> C]
Moving     == [i \in Inst |-> IF i = 0 THEN {a0} ELSE {a1}]
Affine     == {Always({a0}), Always({b0}), Moving}
NonAffine  == Always({a0, a1})
Accesses   == Affine \cup {NonAffine}

(* Statements one after the other, or in the same loop. *)
Straight == [d \in MCDef |-> [i \in Inst |-> Pos[d] * Cardinality(Inst) + i]]
Loop     == [d \in MCDef |-> [i \in Inst |-> i * 3 + Pos[d]]]

(* Stale nodes: in a loop of affine accesses all of them, in another loop S0 or none. *)
StaleLoops(s) ==
    IF s.time # Loop THEN {{}}
    ELSE IF s.affine = Def \cup Use THEN {Def}
    ELSE {{S0}, {}}

Scop(w0, w1, w2, r0, r2, time, live) ==
    LET cells == [n \in MCDef \cup MCUse |->
                    CASE n = S0 -> w0 [] n = S1 -> w1 [] n = S2 -> w2 [] n = R0 -> r0 [] n = R2 -> r2]
    IN  [dom     |-> [d \in MCDef |-> Inst],
         def     |-> [u \in MCUse |-> IF u = R0 THEN S0 ELSE S2],
         cells   |-> cells,
         affine  |-> {n \in MCDef \cup MCUse : cells[n] # NonAffine},
         time    |-> time,
         array   |-> [n \in MCDef \cup MCUse |-> ArrayOf(cells[n])],
         liveOut |-> live]

MCScops == {Scop(w0, w1, w2, r0, r2, t, l) :
              w0 \in {Always({a0}), Moving}, w1 \in Affine, w2 \in Accesses,
              r0 \in Affine, r2 \in {Always({a0}), Moving},
              t \in {Straight, Loop}, l \in {{A}, {B}}}

(* for (i) { S0: A[i] = b; S1: b = ..; S2: b = ..; }: S1 is dead. *)
DeadStoreScops == {Scop(Moving, Always({b0}), Always({b0}), Always({b0}), Always({}), Loop, {A})}

(* for (i) S0: a = a; for (i) S1: a = ..; for (i) S2: a = A[i < 1], a being A[0]: S1 is dead. *)
DeadLoopScops ==
    {Scop(Always({a0}), Always({a0}), Always({a0}), Always({a0}),
          [i \in Inst |-> IF i = 0 THEN {a1} ELSE {a0}], Straight, {B})}

(* S0: a = ..; S1: A[f(i)] = ..; S2: b = a: S1 may leave a alone. *)
MayWriteScops ==
    {Scop(Always({a0}), NonAffine, Always({b0}), Always({}), Always({a0}), Straight, {B})}
=============================================================================
