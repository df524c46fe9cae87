----------------------------- MODULE Execution -----------------------------
(***************************************************************************)
(* From the Scop to the memory its code leaves behind: the pass, the dead  *)
(* code elimination that may follow it (DeadCodeElim) and the code itself, *)
(* run in any order that the schedule allows.                              *)
(***************************************************************************)
EXTENDS Rescheduling

CONSTANT Pending    \* the result while there is none

VARIABLES
    todo,   \* the instances the code has yet to run
    mem,    \* the memory
    dce     \* dead code elimination has run, or no longer can

execVars == <<codeVars, todo, mem, dce>>

ExecInit ==
    /\ CodeInit
    /\ todo = {}
    /\ mem = [c \in Cell |-> Initial]
    /\ dce = FALSE

(* What a non-affine access touches is not known here; its Scop is not run. *)
Runnable == scop.affine = Def \cup Use

(* Mutant: code is generated for what was deleted as well. *)
CompileAll ==
    /\ Runnable
    /\ Reschedule \/ KeepOriginal
    /\ todo' = {p \in Point : p[2] \in scop.dom[Orig[p[1]]]}
    /\ UNCHANGED <<mem, dce>>

Compile ==
    /\ Runnable
    /\ Reschedule \/ KeepOriginal
    /\ todo' = {p \in Point : p[2] \in code'.dom[p[1]]}
    /\ UNCHANGED <<mem, dce>>

(***************************************************************************)
(* eliminateDeadCode: of the instances only those run on which the last    *)
(* write to a cell of a live array depends; the affine hull that may add   *)
(* others is left out.  A statement that was split keeps its instances, as *)
(* its CopyDomain is not restricted.                                       *)
(***************************************************************************)
LastWriteIterations ==
    {p \in todo : /\ LiveOut(p[1])
                  /\ \A q \in todo : <<p, q>> \in code.order =>
                        Touches(p[1], p[2]) \cap Touches(q[1], q[2]) = {}}

LiveIterations ==
    LET needs == Closure(code.raw, todo)
    IN  {p \in todo : \E q \in LastWriteIterations : p = q \/ <<p, q>> \in needs}

EliminateDeadCode ==
    /\ code.stage # "pending"
    /\ ~ dce
    /\ todo' = {p \in todo : p \in LiveIterations \/ p[1] \in code.split}
    /\ dce' = TRUE
    /\ UNCHANGED <<codeVars, mem>>

Execute(p) ==
    /\ p \in todo
    /\ \A q \in todo : <<q, p>> \notin code.order
    /\ LET value == IF \A n \in code.needs[p] : mem[n[1]] = n[2] THEN <<Orig[p[1]], p[2]>> ELSE Wrong
       IN  mem' = [c \in Cell |-> IF c \in Touches(p[1], p[2]) THEN value ELSE mem[c]]
    /\ todo' = todo \ {p}
    /\ dce' = TRUE
    /\ UNCHANGED codeVars

ExecNext ==
    \/ RunNext /\ UNCHANGED <<code, todo, mem, dce>>
    \/ Compile
    \/ EliminateDeadCode
    \/ \E p \in Point : Execute(p)

(***************************************************************************)
(* The pass is called and runs to its end.                                 *)
(***************************************************************************)
ExecSpec ==
    /\ ExecInit
    /\ [][ExecNext]_execVars
    /\ WF_runVars(RunNext)

-----------------------------------------------------------------------------
LiveCells == {c \in Cell : \E n \in Node : \E i \in Inst : LiveOut(n) /\ c \in Touches(n, i)}

Result ==
    IF code.stage = "pending" \/ todo # {} THEN Pending ELSE [c \in LiveCells |-> mem[c]]

(* The code runs only instances that its domains have, and its record is well typed. *)
ExecTypeOK ==
    /\ code \in CodeRecord
    /\ todo \subseteq {p \in Point : p[2] \in code.dom[p[1]]}
    /\ mem \in [Cell -> Value]
    /\ dce \in BOOLEAN

Promised == INSTANCE Promise WITH excused <- code.excuses # {}, result <- Result

(***************************************************************************)
(* runOnScop followed by DeadCodeElim::eliminateDeadCode and any order the *)
(* new schedule allows leaves the live cells as the Scop was written,      *)
(* unless one of the excuses holds.  It relates the graph, its edges as    *)
(* dependences, the domains, the operands and the memory.                  *)
(***************************************************************************)
KeepsPromise == Promised!Spec
=============================================================================
