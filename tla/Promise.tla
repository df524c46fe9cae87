------------------------------ MODULE Promise ------------------------------
(***************************************************************************)
(* What the user of the pass is promised: a Scop that is compiled and run  *)
(* leaves each cell that is live behind it with the value that its last    *)
(* write, in the order the program is written in, stores there.            *)
(***************************************************************************)
EXTENDS DependenceInfo

CONSTANTS Scops, Initial, Pending

VARIABLES
    scop,       \* the Scop
    excused,    \* the compiler has made use of an excuse to break the promise
    result      \* the live cells afterwards

vars == <<scop, excused, result>>

LiveCells(s) == {c \in Cell : \E n \in Node : \E i \in Inst :
                    s.array[n] \in s.liveOut /\ c \in s.cells[n][i]}

LastWrites(s, c) ==
    {p \in Def \X Inst :
        /\ p[2] \in s.dom[p[1]]
        /\ c \in s.cells[p[1]][p[2]]
        /\ \A q \in Def \X Inst : q[2] \in s.dom[q[1]] /\ c \in s.cells[q[1]][q[2]] =>
              s.time[q[1]][q[2]] <= s.time[p[1]][p[2]]}

AsWritten(s) ==
    [c \in LiveCells(s) |-> IF LastWrites(s, c) = {} THEN Initial
                            ELSE CHOOSE p \in LastWrites(s, c) : TRUE]

Init ==
    /\ scop \in Scops
    /\ excused = FALSE
    /\ result = Pending

Excuse ==
    /\ result = Pending
    /\ excused' = TRUE
    /\ UNCHANGED <<scop, result>>

Answer ==
    /\ result = Pending
    /\ result' # Pending
    /\ excused' \in BOOLEAN
    /\ excused => excused'
    /\ ~ excused' => result' = AsWritten(scop)
    /\ UNCHANGED scop

Next == Excuse \/ Answer

Spec == Init /\ [][Next]_vars
=============================================================================
