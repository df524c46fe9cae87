------------------------------ MODULE LiveOut ------------------------------
(***************************************************************************)
(* Is the memory behind a base pointer read after the Scop?  isLiveOut     *)
(* first collects the blocks that may run after the Scop, then searches    *)
(* the users of the pointer for one that may still read.  Both worklists   *)
(* are SmallPtrSets of pointers: which element *begin() names is arbitrary.*)
(*                                                                         *)
(* Of an instruction the model keeps what the search asks of it: its kind, *)
(* its block, and its users.  A constant expression is an address in a     *)
(* block that no block leads to.                                           *)
(***************************************************************************)

CONSTANTS
    Block,      \* basic blocks of the module
    Value,      \* users, direct and indirect, of the base pointer
    BasePtr,    \* the base pointer
    Programs    \* the programs the question is asked of

Kinds == {"address", "load", "store", "call", "free", "realloc", "return"}
Bases == {"argument", "external", "internal", "fresh", "loaded"}

(***************************************************************************)
(* base says what the base pointer is: an argument, a global (external or  *)
(* internal linkage), memory allocated in the function, or a pointer that  *)
(* was loaded.  aliases are the values that point to the same memory but   *)
(* do not use the base pointer: it was stored and loaded again.            *)
(***************************************************************************)
IsProgram(p) ==
    /\ p.base \in Bases
    /\ p.kind \in [Value -> Kinds]
    /\ p.block \in [Value -> Block]
    /\ p.users \in [Value \cup {BasePtr} -> SUBSET Value]
    /\ p.succ \in [Block -> SUBSET Block]
    /\ p.exit \in Block
    /\ p.aliases \subseteq Value

ASSUME BasePtrAssumption == BasePtr \notin Value
ASSUME ProgramsAssumption == \A p \in Programs : IsProgram(p)

VARIABLES
    ir,             \* the program
    answer,         \* what isLiveOut does, or has returned
    worklist,       \* Worklist: blocks
    succBlocks,     \* SuccBlocks
    userWorklist    \* UserWorklist

vars == <<ir, answer, worklist, succBlocks, userWorklist>>

TypeOK ==
    /\ IsProgram(ir)
    /\ answer \in {"asked", "blocks", "users", "live", "notLive"}
    /\ worklist \subseteq Block
    /\ succBlocks \subseteq Block
    /\ userWorklist \subseteq Value

Init ==
    /\ ir \in Programs
    /\ answer = "asked"
    /\ worklist = {}
    /\ succBlocks = {}
    /\ userWorklist = {}

-----------------------------------------------------------------------------
(***************************************************************************)
(* What one user of kind k says, if it is in a block after the Scop or     *)
(* not: the memory is live, nothing, or ask its users.                     *)
(***************************************************************************)
LiveKind(k, after) ==
    IF after THEN k \in {"load", "store", "call"} ELSE k \in {"call", "free", "realloc"}

(* Mutant: after the Scop, the users of an address are not asked. *)
SkippedKindAddress(k, after) == IF after THEN k # "load" ELSE k = "load"

SkippedKind(k, after) == IF after THEN k \in {"free", "realloc"} ELSE k = "load"

(* Mutant: a block is expanded whether or not it has been before. *)
VisitBlockAgain(b) ==
    /\ answer = "blocks"
    /\ b \in worklist
    /\ succBlocks' = succBlocks \cup {b}
    /\ worklist' = (worklist \ {b}) \cup ir.succ[b]
    /\ UNCHANGED <<ir, answer, userWorklist>>

Ask ==
    /\ answer = "asked"
    /\ IF ir.base \in {"argument", "external"}
       THEN answer' = "live" /\ worklist' = worklist
       ELSE answer' = "blocks" /\ worklist' = {ir.exit}
    /\ UNCHANGED <<ir, succBlocks, userWorklist>>

VisitBlock(b) ==
    /\ answer = "blocks"
    /\ b \in worklist
    /\ succBlocks' = succBlocks \cup {b}
    /\ worklist' = (worklist \ {b}) \cup (IF b \in succBlocks THEN {} ELSE ir.succ[b])
    /\ UNCHANGED <<ir, answer, userWorklist>>

(* Mutant: the users are asked before all blocks are known. *)
CollectUsersEarly ==
    /\ answer = "blocks"
    /\ succBlocks # {}
    /\ answer' = "users"
    /\ userWorklist' = ir.users[BasePtr]
    /\ UNCHANGED <<ir, worklist, succBlocks>>

(* Mutant: the pointer is put on the list in the place of its users. *)
CollectUsersSelf ==
    /\ answer = "blocks"
    /\ worklist = {}
    /\ answer' = "users"
    /\ userWorklist' = {BasePtr}
    /\ UNCHANGED <<ir, worklist, succBlocks>>

CollectUsers ==
    /\ answer = "blocks"
    /\ worklist = {}
    /\ answer' = "users"
    /\ userWorklist' = ir.users[BasePtr]
    /\ UNCHANGED <<ir, worklist, succBlocks>>

VisitUser(u) ==
    LET kind  == ir.kind[u]
        after == ir.block[u] \in succBlocks
    IN  /\ answer = "users"
        /\ u \in userWorklist
        /\ answer' = IF LiveKind(kind, after) THEN "live" ELSE answer
        /\ userWorklist' = (userWorklist \ {u}) \cup
               (IF LiveKind(kind, after) \/ SkippedKind(kind, after) THEN {} ELSE ir.users[u])
        /\ UNCHANGED <<ir, worklist, succBlocks>>

NoUserLeft ==
    /\ answer = "users"
    /\ userWorklist = {}
    /\ answer' = "notLive"
    /\ UNCHANGED <<ir, worklist, succBlocks, userWorklist>>

Next ==
    \/ Ask \/ CollectUsers \/ NoUserLeft
    \/ \E b \in Block : VisitBlock(b)
    \/ \E u \in Value : VisitUser(u)

Spec     == Init /\ [][Next]_vars
FairSpec == Spec /\ WF_vars(Next)

-----------------------------------------------------------------------------
(* The least set that contains start and with each member its next. *)
Closed(S, start, next) == start \subseteq S /\ \A x \in S : next[x] \subseteq S
Closure(start, next) ==
    {x \in DOMAIN next : \A S \in SUBSET DOMAIN next : Closed(S, start, next) => x \in S}

After(p) == Closure({p.exit}, p.succ)

LiveUse(p, u)    == LiveKind(p.kind[u], p.block[u] \in After(p))
SkippedUse(p, u) == SkippedKind(p.kind[u], p.block[u] \in After(p))
Asked(p) == [u \in Value |-> IF LiveUse(p, u) \/ SkippedUse(p, u) THEN {} ELSE p.users[u]]

FoundLive(p) ==
    \/ p.base \in {"argument", "external"}
    \/ \E u \in Closure(p.users[BasePtr], Asked(p)) : LiveUse(p, u)

(***************************************************************************)
(* The answer of isLiveOut depends on the program alone, not on the order  *)
(* in which the two pointer sets are walked, nor on the user at which the  *)
(* search returns.                                                         *)
(***************************************************************************)
AnswerDetermined ==
    /\ answer = "live" => FoundLive(ir)
    /\ answer = "notLive" => ~ FoundLive(ir)

(***************************************************************************)
(* The pointers into the memory, the instructions that read it or hand it  *)
(* to somebody who may, and those that may run once the Scop is through: a *)
(* global, and what a loaded pointer points to, outlive the function.      *)
(***************************************************************************)
Pointers(p) ==
    Closure({BasePtr} \cup p.aliases,
            [v \in Value \cup {BasePtr} |-> {u \in p.users[v] : p.kind[u] = "address"}])

Reads(p, u)     == p.kind[u] \in {"load", "call", "realloc", "return"}
RunsLater(p, u) == p.block[u] \in After(p) \/ p.base # "fresh"
ReadLater(p)    == \E v \in Pointers(p) : \E u \in p.users[v] : Reads(p, u) /\ RunsLater(p, u)

(***************************************************************************)
(* Memory allocated in the function whose pointer is not found again in    *)
(* memory, not returned and not reallocated.                               *)
(***************************************************************************)
Local(p) ==
    /\ p.base = "fresh"
    /\ p.aliases = {}
    /\ \A u \in Value : p.kind[u] \notin {"realloc", "return"}

(***************************************************************************)
(* What the expression propagation relies on: memory that is said not to   *)
(* be live after the Scop is not read after it ("Checks if a Value is Live *)
(* out after a region", LiveOutAnalyser.h).                                *)
(***************************************************************************)
NotLiveUnread == answer = "notLive" => ~ ReadLater(ir)

LocalNotLiveUnread == Local(ir) => NotLiveUnread

(***************************************************************************)
(* isLiveOut returns.  The blocks are visited once each; the users are     *)
(* not marked as visited, so it may not if they use each other.            *)
(***************************************************************************)
Returns == <>(answer \in {"live", "notLive"})

Acyclic(p) == \A S \in SUBSET Value : S # {} => \E u \in S : p.users[u] \cap S = {}

ReturnsUnlessCyclic == <>(answer \in {"live", "notLive"} \/ ~ Acyclic(ir))
=============================================================================
