---------------------------- MODULE MCExecution ----------------------------
(***************************************************************************)
(* Programs of four statements, from the Scop to the memory they leave     *)
(* behind.  The array A may have two further cells in which case two       *)
(* statements that write different halves of it are merged.                *)
(***************************************************************************)
EXTENDS Execution, MCPropagation

CONSTANTS d0, d1

ExecCell == MCCell \cup {d0, d1}
AllD == [i \in MCInst |-> IF i = 0 THEN {d0} ELSE {d1}]
OneC == Always({c0})

(* S0: b = ..; S1: A[i] = C[0]; S2: C[i] = b; S3: A[2 + i] = C[0]: S1 and S3 are merged. *)
MergedScops ==
    {[s EXCEPT !.array[S3] = A, !.array[T3] = A, !.cells[S3] = AllD, !.cells[T3] = AllD] :
        s \in {Scop(<<OneB, AllA, AllC, AllA>>, <<None, OneC, OneB, OneC, None>>, t, {A, C}) :
                  t \in {Straight, Loop}}}

ExecScops == LongScops \cup MergedScops
=============================================================================
