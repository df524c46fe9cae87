--------------------------- MODULE MCPropagation ---------------------------
(***************************************************************************)
(* Three or four statements of two instances over the arrays A (two        *)
(* cells), B and C.  Each may be split once, into a copy T; the operands   *)
(* of copies and the reload operands are the uses U.                       *)
(***************************************************************************)
EXTENDS Recomputation

CONSTANTS S0, S1, S2, S3, T0, T1, T2, T3, R0, R1, R2, R3, Q3, U0, U1, U2, U3,
          a0, a1, b0, c0, c1, A, B, C

Statements == <<S0, S1, S2, S3>>
Copies     == <<T0, T1, T2, T3>>
Three == {S0, S1, S2, T0, T1, T2}
Four  == Three \cup {S3, T3}
ThreeReads == {R0, R1, R2, U0, U1, U2, U3}
FourReads  == ThreeReads \cup {R3, Q3}

MCInst == 0..1
MCCell == {a0, a1, b0, c0, c1}
MCArray == {A, B, C}
NoneStale(s) == {{}}

Position(d) == CHOOSE n \in 1..4 : d \in {Statements[n], Copies[n]}
MCOrig == [d \in Def |-> Statements[Position(d)]]
Reader == [u \in Use |-> CASE u = R0 -> S0 [] u = R1 -> S1 [] u = R2 -> S2
                           [] u \in {R3, Q3} -> S3 [] OTHER -> NoDef]

Always(S) == [i \in MCInst |-> S]
AllA == [i \in MCInst |-> IF i = 0 THEN {a0} ELSE {a1}]
AllC == [i \in MCInst |-> IF i = 0 THEN {c0} ELSE {c1}]
OneA == Always({a0})
TwoA == Always({a1})
PrevA == [i \in MCInst |-> IF i = 0 THEN {a1} ELSE {a0}]
OneB == Always({b0})
None == Always({})
AnyA == Always({a0, a1})
AnyC == Always({c0, c1})

ArrayOf(f) == CASE \E i \in MCInst : b0 \in f[i] -> B
                [] \E i \in MCInst : c0 \in f[i] -> C
                [] OTHER -> A

(* One after the other, S3 last or second, or in the same loop; S3 after the loop, or first in it. *)
Straight == [d \in Def |-> [i \in MCInst |-> Position(d) * 2 + i]]
Loop     == [d \in Def |-> [i \in MCInst |-> i * 4 + Position(d)]]
Second   == [d \in Def |-> [i \in MCInst |-> IF Position(d) = 4 THEN 6 + i ELSE Position(d) * 4 + i]]
Late     == [d \in Def |-> [i \in MCInst |-> IF Position(d) = 4 THEN 10 + i ELSE i * 4 + Position(d)]]
First    == [d \in Def |-> [i \in MCInst |-> IF Position(d) = 4 THEN i * 5 ELSE i * 5 + Position(d)]]

(* w: the write of each statement; r: the accesses of the reads, None if there is no read. *)
Scop(w, r, time, live) ==
    LET cells == [n \in Def \cup Use |->
                    IF n \in Def THEN w[Position(n)]
                    ELSE CASE n = R0 -> r[1] [] n = R1 -> r[2] [] n = R2 -> r[3]
                           [] n = R3 -> r[4] [] n = Q3 -> r[5] [] OTHER -> None]
    IN  [dom     |-> [d \in Def |-> IF MCOrig[d] = d THEN MCInst ELSE {}],
         def     |-> [u \in Use |-> IF cells[u] = None THEN NoDef ELSE Reader[u]],
         cells   |-> cells,
         affine  |-> {n \in Def \cup Use : cells[n] \notin {AnyA, AnyC}},
         time    |-> time,
         array   |-> [n \in Def \cup Use |-> ArrayOf(cells[n])],
         liveOut |-> live]

MCScops == {Scop(<<w0, w1, w2>>, <<r0, r1, r2>>, t, l) :
              w0 \in {AllA, OneA}, w1 \in {AllA, OneA, OneB}, w2 \in {AllC, OneB, AllA},
              r0 \in {OneB, AllA}, r1 \in {AllA, OneA, OneB}, r2 \in {AllA, OneA},
              t \in {Straight, Loop}, l \in {{C}, {A, C}, {B}}}

(* S0: A[0] = A[i]; S1: A[1] = b; S2: b = A[i]: both sources of the last read are blocked. *)
TwoSourceScops ==
    {Scop(<<OneA, TwoA, OneB>>, <<AllA, OneB, AllA>>, t, {B}) : t \in {Straight, Loop}}

(* S0: C[i] = A[i]; S1: A[i] = C[i]; S2: b = A[i]: propagation makes an update of S1. *)
MovedUpdateScops ==
    {Scop(<<AllC, AllA, OneB>>, <<AllA, AllC, AllA>>, t, {A, B}) : t \in {Straight, Loop}}

ShortScops == MCScops \cup TwoSourceScops \cup MovedUpdateScops

(* for (i) { S0: A[i] = b; S1: A[i] = b; S2: b = A[0]; } *)
FullPropScops == {Scop(<<AllA, AllA, OneB>>, <<OneB, OneB, OneA>>, Loop, {A})}

(* S0: A[0] = ..; S1: A[i] = A[i]; S2: C[i] = A[i]; S3: C[i] = A[i]: a chain in A, A live. *)
ChainScops ==
    {Scop(<<OneA, AllA, AllC, AllC>>, <<None, AllA, AllA, AllA, None>>, Straight, {A, C})}

(* S0: A[0] = b; S1: A[1] = b; S2: b = ..; S3: C[i] = A[i]: both sources are blocked. *)
BlockedScops ==
    {Scop(<<OneA, TwoA, OneB, AllC>>, <<OneB, OneB, None, AllA, None>>, Straight, {B, C})}

(* S0: b = ..; S1: A[i] = b; S2: b = ..; S3: C[i] = A[i] + b: the reload of b is shared. *)
SharedScops ==
    {Scop(<<OneB, AllA, OneB, AllC>>, <<None, OneB, None, AllA, OneB>>, Straight, {B, C})}

(* S0: A[i] = b or ..; S1: A[x] or b = A[0]; S2: b = A[y]; S3: C[z] = A[i]: x, y, z unknown. *)
OpaqueScops ==
    {Scop(<<AllA, w1, OneB, w3>>, <<r0, OneA, r2, AllA, None>>, t, l) :
        r0 \in {None, OneB}, w1 \in {AnyA, OneB}, r2 \in {AnyA, OneA}, w3 \in {AllC, AnyC},
        t \in {Straight, Loop}, l \in {{B, C}, {A, C}}}

(* S0: A[i] = b; S1: C[i] = A[i]; S2: b = ..; S3: b = C[i]: b is moved twice. *)
CarriedScops ==
    {Scop(<<AllA, AllC, OneB, OneB>>, <<OneB, AllA, None, AllC, None>>, t, {B}) :
        t \in {Straight, Loop}}

(* S0: A[i] = A[i]; S1: C[i] = A[i]; S2: A[0] = ..; S3: b = A[1]: S0 overwrites what it reads. *)
UpdateScops ==
    {Scop(<<AllA, AllC, OneA, OneB>>, <<AllA, AllA, None, r3, None>>, t, l) :
        r3 \in {TwoA, OneA}, t \in {Straight, Loop}, l \in {{A, B, C}, {B, C}}}

(* S0: A[i] = ..; S1: C[i] = A[i-1]; S2: A[0] = ..; S3: A[i] = C[i], A[i-1]: S2 is dead. *)
DeadStoreScops ==
    {Scop(<<AllA, AllC, OneA, AllA>>, <<None, PrevA, None, AllC, PrevA>>, Straight, {C})}

(* S0: b = ..; S1: A[i] = b; S2: C[i] = A[0]; S3: C[i] = ..: b is read again. *)
ReusedScops ==
    {Scop(<<OneB, AllA, AllC, AllC>>, <<None, OneB, r2, r3, OneB>>, t, l) :
        <<r2, r3, t, l>> \in {<<None, OneA, Loop, {C}>>, <<OneB, AllA, Straight, {B, C}>>}}

(* for (i) { S0: A[0] = ..; S1: C[i] = A[0]; S2: A[i] = .. } S3: b = C[i], A[0]: S0 is dead. *)
DeadLoopScops == {Scop(<<OneA, AllC, AllA, OneB>>, <<None, OneA, None, AllC, OneA>>, Late, {B})}

(* for (i) { S3: A[i] = A[i], b; S0: C[i] = ..; S1: C[i] = ..; S2: b = A[i]; } *)
CrossScops ==
    {Scop(<<AllC, AllC, OneB, AllA>>, <<None, None, AllA, AllA, OneB>>, First, l) :
        l \in {{A, B, C}, {A, B}}}

(* S0: C[i] = b; S3: A[i] = A[i] + C[i]; S1: b = ..; S2: b = A[i]: S1 has to stay behind S3. *)
StaleBarrierScops ==
    {Scop(<<AllC, OneB, OneB, AllA>>, <<OneB, None, AllA, AllA, AllC>>, Second, {A, B})}

LongScops == UpdateScops \cup CarriedScops \cup ChainScops \cup BlockedScops \cup SharedScops
                \cup OpaqueScops \cup DeadStoreScops \cup ReusedScops \cup DeadLoopScops \cup CrossScops
                \cup StaleBarrierScops
=============================================================================
