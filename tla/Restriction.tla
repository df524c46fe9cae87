---------------------------- MODULE Restriction ----------------------------
(***************************************************************************)
(* Dead iteration elimination on the dependence graph: restrictStmt finds  *)
(* the instances of a statement nobody needs, setDomain removes them and   *)
(* then visits the edges of the statement, kind by kind.  The edges of a   *)
(* kind are kept in a DenseMap keyed by pointers, so the order in which    *)
(* they are visited is arbitrary: each visit is a step of its own.         *)
(***************************************************************************)
EXTENDS DependenceGraph

CONSTANTS
    Scops,    \* the Scops the pass is run on
    Stale(_)  \* for each Scop, what an earlier one may have left in MustDeleteNodes

ASSUME ScopsAssumption == \A s \in Scops : IsScop(s) /\ RunsInSequence(s) /\ OneCell(s)
ASSUME StaleAssumption == \A s \in Scops : Stale(s) \subseteq SUBSET Def

VARIABLES
    scop,   \* the Scop as the pass finds it
    g,      \* the dependence graph
    must,   \* MustDeleteNodes
    op      \* the setDomain in progress: its statement, phase and edges to visit

vars == <<scop, g, must, op>>

(* Mutant: the WAW edges are visited first. *)
PhasesWawFirst == <<"waw", "warIn", "warOps", "rawOut", "rawOps">>

Phases  == <<"warIn", "warOps", "waw", "rawOut", "rawOps">>
Idle    == [def |-> NoDef, phase |-> 0, todo |-> {}]
EdgeKey == (Def \X Use) \cup (Use \X Def) \cup (Def \X Def)

TypeOK ==
    /\ scop \in Scops
    /\ g \in Graph
    /\ must \subseteq Def
    /\ op \in [def : Def \cup {NoDef}, phase : 0..5, todo : SUBSET EdgeKey]
    /\ op.phase # 0 => op.def \in Def

(* Mutant: any group is asked for a recompute domain. *)
GroupAnyAccess(d) == d \in Def

LiveOut(d)     == scop.array[d] \in scop.liveOut
GroupAffine(d) == \A e \in Def : scop.array[e] = scop.array[d] => e \in scop.affine
NoRead(d)      == \A u \in Use : g.raw[d, u] = {}

(* clear leaves MustDeleteNodes alone: a new node may be where a freed one was. *)
Init ==
    /\ scop \in Scops
    /\ g = CreateDependenceGraph(scop)
    /\ must \in Stale(scop)
    /\ op = Idle

-----------------------------------------------------------------------------
(***************************************************************************)
(* The head of getRecomputeDomain on an edge that leaves d: the barrier is *)
(* computed, and a statement that overwrites what it reads and is itself   *)
(* overwritten will have its dead instances deleted at any price.  The     *)
(* driver asks this only of a group of affine writes.                      *)
(***************************************************************************)
CheckBarrier(d) ==
    LET asked == FillBarrier(g, d)
        self  == Barrier(g, d) # {} /\ SelfWAR(g, d) # {}
    IN  /\ op = Idle
        /\ GroupAffine(d)
        /\ ~ NoRead(d)
        /\ g' = IF self THEN FillOver(asked, d) ELSE asked
        /\ must' = IF self /\ OverwrittenSet(g, d) # {} THEN must \cup {d} ELSE must
        /\ UNCHANGED <<scop, op>>

(* Mutant: an overwritten instance is dead although it is read before. *)
NeededDomainUnread(d) == IF LiveOut(d) THEN g.dom[d] \ OverwrittenSet(g, d) ELSE UsedDomain(g, d)

(* Mutant: no array is live after the Scop. *)
NeededDomainRead(d) == UsedDomain(g, d)

(***************************************************************************)
(* What restrictStmt keeps of d: an instance some read depends on, or, if  *)
(* the array is live after the Scop, one that is not overwritten.          *)
(***************************************************************************)
NeededDomain(d) ==
    IF LiveOut(d) THEN g.dom[d] \ (OverwrittenSet(g, d) \ UsedDomain(g, d))
    ELSE UsedDomain(g, d)

KeepInstances(h, d, D) ==
    [h EXCEPT !.used[d] = IF @ = Miss THEN Miss ELSE @ \cap D,
              !.over[d] = IF @ = Miss THEN Miss ELSE @ \cap D,
              !.dom[d]  = D]

(* Mutant: the WAR edges of the operands are not visited. *)
EdgesOfNoOperandWAR(h, d, phase) ==
    CASE phase = "warIn"  -> {k \in Use \X Def : k[2] = d /\ h.war[k] # {}}
      [] phase = "warOps" -> {}
      [] phase = "waw"    -> {k \in Def \X Def : d \in {k[1], k[2]} /\ h.waw[k] # {}}
      [] phase = "rawOut" -> {k \in Def \X Use : k[1] = d /\ h.raw[k] # {}}
      [] phase = "rawOps" -> {k \in Def \X Use : k[2] \in h.ops[d] /\ h.raw[k] # {}}

(***************************************************************************)
(* The edges each phase of setDomain visits.  Every loop runs over a copy  *)
(* of the edge map made before its first visit.                            *)
(***************************************************************************)
EdgesOf(h, d, phase) ==
    CASE phase = "warIn"  -> {k \in Use \X Def : k[2] = d /\ h.war[k] # {}}
      [] phase = "warOps" -> {k \in Use \X Def : k[1] \in h.ops[d] /\ h.war[k] # {}}
      [] phase = "waw"    -> {k \in Def \X Def : d \in {k[1], k[2]} /\ h.waw[k] # {}}
      [] phase = "rawOut" -> {k \in Def \X Use : k[1] = d /\ h.raw[k] # {}}
      [] phase = "rawOps" -> {k \in Def \X Use : k[2] \in h.ops[d] /\ h.raw[k] # {}}

ShrinkWaw(h, d, k) ==
    LET D == h.dom[d]
        out == IF k[1] = d THEN ShrinkWawDomain(h, k, D) ELSE h
    IN  IF k[2] = d THEN ShrinkWawRange(out, k, D) ELSE out

Shrink(h, d, phase, k) ==
    CASE phase = "warIn"  -> ShrinkWarRange(h, k, h.dom[d])
      [] phase = "warOps" -> ShrinkWarDomain(h, k, h.dom[d])
      [] phase = "waw"    -> ShrinkWaw(h, d, k)
      [] phase = "rawOut" -> ShrinkRawDomain(h, k, h.dom[d])
      [] phase = "rawOps" -> ShrinkRawRange(h, k, h.dom[d])

RestrictStmt(d) ==
    LET force == d \in must
        asked == IF LiveOut(d) THEN FillOver(FillUsed(g, d), d) ELSE FillUsed(g, d)
        next  == KeepInstances(asked, d, NeededDomain(d))
    IN  /\ op = Idle
        /\ d \in scop.affine
        /\ force \/ (~ LiveOut(d) /\ NoRead(d))
        /\ IF g.dom[d] \subseteq NeededDomain(d)
           THEN g' = asked /\ op' = op
           ELSE /\ g' = next
                /\ op' = [def |-> d, phase |-> 1, todo |-> EdgesOf(next, d, Phases[1])]
        /\ UNCHANGED <<scop, must>>

VisitEdge ==
    /\ \E k \in op.todo :
          /\ g' = Shrink(g, op.def, Phases[op.phase], k)
          /\ op' = [op EXCEPT !.todo = @ \ {k}]
    /\ UNCHANGED <<scop, must>>

(* Mutant: the phase is not reset when a setDomain ends. *)
NextPhaseNoReset ==
    /\ op.phase # 0
    /\ op.todo = {}
    /\ op' = IF op.phase = 5 THEN [op EXCEPT !.def = NoDef]
             ELSE [op EXCEPT !.phase = @ + 1,
                             !.todo = EdgesOf(g, op.def, Phases[op.phase + 1])]
    /\ UNCHANGED <<scop, g, must>>

NextPhase ==
    /\ op.phase # 0
    /\ op.todo = {}
    /\ op' = IF op.phase = 5 THEN Idle
             ELSE [op EXCEPT !.phase = @ + 1,
                             !.todo = EdgesOf(g, op.def, Phases[op.phase + 1])]
    /\ UNCHANGED <<scop, g, must>>

Next ==
    \/ \E d \in Def : CheckBarrier(d) \/ RestrictStmt(d)
    \/ VisitEdge
    \/ NextPhase

Spec == Init /\ [][Next]_vars

-----------------------------------------------------------------------------
(***************************************************************************)
(* Cache coherence (DefNode::getUsedDomain): whatever step of whichever    *)
(* setDomain comes next, a cached used domain is exactly the set of        *)
(* instances a RAW edge of the statement starts from.                      *)
(***************************************************************************)
UsedCoherent ==
    \A d \in Def : g.used[d] # Miss => g.used[d] = RawDomain(g, d)

(***************************************************************************)
(* Cache coherence (DefNode::getOverwrittenSet): a cached overwritten set  *)
(* agrees on the domain with the WAW edges that leave the statement.       *)
(***************************************************************************)
OverCoherent ==
    \A d \in Def : g.over[d] # Miss =>
        g.over[d] \cap g.dom[d] = WawDomain(g, d) \cap g.dom[d]

(***************************************************************************)
(* Cache safety (DefNode::getBarrier): a cached barrier may hold back too  *)
(* much, but never misses a write that has to stay behind an operand.      *)
(***************************************************************************)
BarrierCovers ==
    \A d \in Def : g.barrier[d] # Miss => WarTimes(g, d) \subseteq g.barrier[d]

(***************************************************************************)
(* DefNode::verify and UseNode::verify on the edges that concern a read,   *)
(* between two setDomains: they relate only instances that still exist.    *)
(***************************************************************************)
ReadEdgesInDomains ==
    op = Idle =>
        /\ \A k \in Def \X Use : g.raw[k] \subseteq g.dom[k[1]] \X g.dom[g.def[k[2]]]
        /\ \A k \in Use \X Def : g.war[k] \subseteq g.dom[g.def[k[1]]] \X g.dom[k[2]]
=============================================================================
