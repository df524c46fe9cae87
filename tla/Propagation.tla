---------------------------- MODULE Propagation ----------------------------
(***************************************************************************)
(* The pass from runOnScop to the end of deleteDeadIterations: every group *)
(* of writes to one array is considered once; its values are recomputed at *)
(* their uses, which are split so that each copy has one source, and dead  *)
(* instances are deleted.  A setDomain on the way runs edge by edge, as in *)
(* Restriction.                                                            *)
(*                                                                         *)
(* A copy of a statement is a DefNode the Scop does not have at first.     *)
(* Which group comes first and whether it is worth the effort are          *)
(* heuristics: any answer is possible.  An assertion that fails aborts.    *)
(***************************************************************************)
EXTENDS Restriction, GraphRewrite, FiniteSetsExt, SequencesExt

CONSTANT Orig   \* the statement each DefNode is, or may become, a copy of

ASSUME OrigAssumption == Orig \in [Def -> Def] /\ \A d \in Def : Orig[Orig[d]] = Orig[d]
ASSUME CopiesAssumption ==
    \A s \in Scops : /\ \A d \in Def : s.array[d] = s.array[Orig[d]]
                     /\ \A d \in Def : s.time[d] = s.time[Orig[d]]
                     /\ \A d \in Def : Orig[d] # d => s.dom[d] = {}
                     /\ \A u \in Use : s.def[u] # NoDef => Orig[s.def[u]] = s.def[u]

VARIABLES
    run,    \* the progress of the pass, see RunRecord
    made,   \* the DefNodes that exist (DefNodeMap)
    stands  \* the reads of the program whose place an operand takes, by instance

runVars == <<scop, g, must, op, run, made, stands>>

ReadAt == Use \X Inst

(***************************************************************************)
(* todo: the nodes the current loop has yet to visit.  groups: Worklist.   *)
(* cuts: TargetDomains not cut along yet, splits: SplitsMap, nonTrgs:      *)
(* NonPropTrgs.  src, edges: the source being propagated and its edges as  *)
(* captured.  edge: the one being propagated, loads: the operands of its   *)
(* source that are still to be reloaded.  changed: something has been      *)
(* propagated.  partial: so has an edge without FullProp, one whose        *)
(* RecomputeDomain is smaller.  blocked: so has one with a blocked use, or *)
(* one that was no edge to propagate when the barriers were asked.         *)
(***************************************************************************)
NoEdge == <<NoDef, NoDef>>

RunRecord ==
    [stage   : {"create", "worklist", "cut", "split", "propagate", "reload",
                "delete", "done", "aborted"},
     todo    : SUBSET Def,
     groups  : SUBSET Array,
     cuts    : [Def -> SUBSET SUBSET Inst],
     splits  : [Def -> BoundedSeq(SUBSET Inst, Cardinality(Inst))],
     nonTrgs : SUBSET Def,
     src     : Def \cup {NoDef},
     edges   : SUBSET (Def \X Use),
     edge    : (Def \X Use) \cup {NoEdge},
     loads   : SUBSET Use,
     changed : BOOLEAN,
     partial : BOOLEAN,
     blocked : BOOLEAN]

RunTypeOK ==
    /\ g \in Graph
    /\ must \subseteq Def
    /\ op \in [def : Def \cup {NoDef}, phase : 0..5, todo : SUBSET EdgeKey]
    /\ run \in RunRecord
    /\ made \subseteq Def
    /\ stands \in [Use -> [Inst -> SUBSET ReadAt]]
    /\ run.edges # {} => run.src \in made

-----------------------------------------------------------------------------
Nodes(a)    == {d \in made : scop.array[d] = a}
OutEdges(D) == {k \in D \X Use : g.raw[k] # {}}
Sources(u)  == {d \in Def : g.raw[d, u] # {}}
FreshUses   == {u \in Use : g.def[u] = NoDef}
Subscripted(u) == \A j \in Inst : \A r \in stands[u][j] : r[1] \in scop.affine

(* The cells an operand loads. *)
Loads(r, u, j) == UNION {scop.cells[v[1]][v[2]] : v \in r[u][j]}

RunInit ==
    /\ Init
    /\ made = {d \in Def : Orig[d] = d}
    /\ stands = [u \in Use |-> [j \in Inst |-> IF g.def[u] = NoDef THEN {} ELSE {<<u, j>>}]]
    /\ run = [stage   |-> "create",
              todo    |-> made,
              groups  |-> {scop.array[d] : d \in made},
              cuts    |-> [d \in Def |-> {}],
              splits  |-> [d \in Def |-> <<>>],
              nonTrgs |-> {},
              src     |-> NoDef,
              edges   |-> {},
              edge    |-> NoEdge,
              loads   |-> {},
              changed |-> FALSE,
              partial |-> FALSE,
              blocked |-> FALSE]

Restrictable(d) == d \in scop.affine /\ (d \in must \/ (~ LiveOut(d) /\ NoRead(d)))

RestrictOnce(d) ==
    /\ op = Idle
    /\ IF Restrictable(d) THEN RestrictStmt(d) ELSE UNCHANGED vars
    /\ UNCHANGED <<made, stands>>

(* The loops over DefNodeMap of createDependenceGraph and deleteDeadIterations. *)
RestrictNode(d) ==
    /\ run.stage \in {"create", "delete"}
    /\ d \in run.todo
    /\ RestrictOnce(d)
    /\ run' = [run EXCEPT !.todo = @ \ {d}]

EndLoop ==
    /\ op = Idle
    /\ run.todo = {}
    /\ \/ run.stage = "create" /\ run' = [run EXCEPT !.stage = "worklist"]
       \/ run.stage = "delete" /\ run' = [run EXCEPT !.stage = "done"]
    /\ UNCHANGED <<scop, g, must, op, made, stands>>

-----------------------------------------------------------------------------
(***************************************************************************)
(* The targets a group a may be propagated to, and those it may not: one   *)
(* that reads through a subscript isl does not know, one whose source is   *)
(* a target of the group itself, one in an array that is not worth it.     *)
(***************************************************************************)
AffineTargets(a) == {g.def[k[2]] : k \in {e \in OutEdges(Nodes(a)) : Subscripted(e[2])}}
OpaqueTargets(a) == {g.def[k[2]] : k \in {e \in OutEdges(Nodes(a)) : ~ Subscripted(e[2])}}

InGroupTargets(a) ==
    {g.def[k[2]] : k \in {e \in OutEdges(AffineTargets(a) \cap Nodes(a)) : Subscripted(e[2])}}

NonPropTrgs(a, unworthy) ==
    OpaqueTargets(a) \cup InGroupTargets(a) \cup {t \in AffineTargets(a) : scop.array[t] \in unworthy}

PropEdges(a, nonTrgs) ==
    {k \in OutEdges(Nodes(a)) : Subscripted(k[2]) /\ g.def[k[2]] \notin nonTrgs}

NonPropSrcs(a, nonTrgs) ==
    {d \in Nodes(a) : \E k \in OutEdges({d}) : g.def[k[2]] \in nonTrgs}

(* The instances of the target an edge may be propagated to. *)
TargetDomain(k) == {p[2] : p \in {q \in g.raw[k] : q[1] \in RecomputeDomain(scop, g, k)}}

(* Mutant: what is left over is appended even if it is empty. *)
CutKeepEmpty(splits, D) ==
    LET cut     == {n \in DOMAIN splits : splits[n] \cap D # {}}
        rank(n) == Cardinality({m \in cut : m <= n})
        left(r) == UNION {splits[n] \ D : n \in {m \in cut : rank(m) = r}}
    IN  [n \in 1..(Len(splits) + Cardinality(cut)) |->
            IF n > Len(splits) THEN left(n - Len(splits))
            ELSE IF n \in cut THEN splits[n] \cap D ELSE splits[n]]

(* Mutant: what is left over is dropped. *)
CutDropLeft(splits, D) ==
    [n \in DOMAIN splits |-> IF splits[n] \cap D = {} THEN splits[n] ELSE splits[n] \cap D]

(***************************************************************************)
(* The splits of a target, cut along one more target domain D.  What is    *)
(* inside keeps the place, what is left over is appended, in the order of  *)
(* the splits.  A target domain that equals a split cuts nothing.          *)
(***************************************************************************)
Cut(splits, D) ==
    LET cut     == {n \in DOMAIN splits : splits[n] \cap D # {} /\ ~ splits[n] \subseteq D}
        rank(n) == Cardinality({m \in cut : m <= n})
        left(r) == UNION {splits[n] \ D : n \in {m \in cut : rank(m) = r}}
    IN  [n \in 1..(Len(splits) + Cardinality(cut)) |->
            IF n > Len(splits) THEN left(n - Len(splits))
            ELSE IF n \in cut THEN splits[n] \cap D ELSE splits[n]]

(* Mutant: a group that is given up stays on the worklist. *)
SkipForNow(a) ==
    /\ run' = run
    /\ UNCHANGED <<scop, g, must, op, made, stands>>

(***************************************************************************)
(* propagateEdges up to the splits.  NumPropagatedTrgs is a difference of  *)
(* unsigned sizes; it is zero only if the sizes are equal.                 *)
(***************************************************************************)
Skip(a) ==
    /\ run' = [run EXCEPT !.groups = @ \ {a}]
    /\ UNCHANGED <<scop, g, must, op, made, stands>>

Ask(K) ==
    LET D == {k[1] : k \in K}
    IN  /\ g' = AskBarriers(g, D)
        /\ must' = must \cup MustDelete(g, D)
        /\ UNCHANGED <<scop, op, made, stands>>

(* Every target is one piece at first, to be cut along the target domains of its edges. *)
Plan(a, K, nonTrgs) ==
    LET srcs == Nodes(a) \ NonPropSrcs(a, nonTrgs)
        trgs == {g.def[k[2]] : k \in K}
        along(t) == {TargetDomain(k) : k \in {e \in K : e[1] \in srcs /\ g.def[e[2]] = t}}
    IN  IF srcs # {} /\ Cardinality(trgs) # Cardinality(nonTrgs)
        THEN run' = [run EXCEPT !.stage   = "cut",
                                !.groups  = @ \ {a},
                                !.todo    = srcs,
                                !.cuts    = [t \in Def |-> along(t)],
                                !.splits  = [t \in Def |-> IF t \in trgs THEN <<g.dom[t]>> ELSE <<>>],
                                !.nonTrgs = nonTrgs]
        ELSE run' = [run EXCEPT !.groups = @ \ {a}]

PropagateEdges(a) ==
    /\ run.stage = "worklist"
    /\ op = Idle
    /\ a \in run.groups
    /\ \/ Skip(a)
       \/ /\ GroupAffine(CHOOSE d \in Nodes(a) : TRUE)
          /\ \E d \in Nodes(a) : g.dom[d] # {}
          /\ \E unworthy \in SUBSET {scop.array[t] : t \in AffineTargets(a)} :
                LET nonTrgs == NonPropTrgs(a, unworthy)
                    K       == PropEdges(a, nonTrgs)
                IN  /\ a \in scop.liveOut \/ nonTrgs = {}
                    /\ Cardinality(AffineTargets(a)) # Cardinality(nonTrgs)
                    /\ Ask(K)
                    /\ Plan(a, K, nonTrgs)

(* One target after the other; what becomes of one does not depend on another. *)
CutTarget ==
    /\ run.stage = "cut"
    /\ op = Idle
    /\ \E t \in Def : run.cuts[t] # {}
    /\ LET t == CHOOSE d \in Def : run.cuts[d] # {}
       IN  \E D \in run.cuts[t] :
              run' = [run EXCEPT !.splits[t] = Cut(@, D), !.cuts[t] = @ \ {D}]
    /\ UNCHANGED <<scop, g, must, op, made, stands>>

AllCut == run.stage = "cut" /\ op = Idle /\ \A t \in Def : run.cuts[t] = {}

(* Mutant: the group is considered once more. *)
GiveUpRetry ==
    /\ AllCut
    /\ run' = [run EXCEPT !.stage = "worklist", !.groups = @ \cup {scop.array[d] : d \in run.todo},
                          !.todo = {}, !.nonTrgs = {}, !.splits = [t \in Def |-> <<>>]]
    /\ UNCHANGED <<scop, g, must, op, made, stands>>

(* A statement that is not affine is not split, and the splits may not be worth it. *)
GiveUp ==
    /\ AllCut
    /\ run' = [run EXCEPT !.stage = "worklist", !.todo = {}, !.nonTrgs = {},
                          !.splits = [t \in Def |-> <<>>]]
    /\ UNCHANGED <<scop, g, must, op, made, stands>>

FullProp(k)  == RecomputeDomain(scop, g, k) = EdgeDomain(g.raw[k])
Unblocked(k) == RecomputeUses(scop, g, k) = g.raw[k]

StartSplits ==
    /\ AllCut
    /\ \A t \in Def \ scop.affine : Len(run.splits[t]) <= 1
    /\ run' = [run EXCEPT !.stage   = "split",
                          !.partial = @ \/ \E k \in OutEdges(run.todo) : ~ FullProp(k),
                          !.blocked = @ \/ \E k \in OutEdges(run.todo) : ~ Unblocked(k)]
    /\ UNCHANGED <<scop, g, must, op, made, stands>>

-----------------------------------------------------------------------------
(* splitUsingDefNode: t keeps the next split, a copy continues with the others. *)
Split(t) ==
    /\ run.stage = "split"
    /\ op = Idle
    /\ Len(run.splits[t]) > 1
    /\ LET s    == run.splits[t]
           c    == CHOOSE e \in Def \ made : Orig[e] = Orig[t]
           twin == CHOOSE f \in [g.ops[t] -> FreshUses] : IsInjective(f)
           h    == KeepInstances(SplitDef(g, t, c, s[2], twin), t, s[2])
       IN  /\ \E e \in Def \ made : Orig[e] = Orig[t]
           /\ \E f \in [g.ops[t] -> FreshUses] : IsInjective(f)
           /\ g' = h
           /\ op' = [def |-> t, phase |-> 1, todo |-> EdgesOf(h, t, Phases[1])]
           /\ made' = made \cup {c}
           /\ stands' = [u \in Use |-> IF \E o \in g.ops[t] : twin[o] = u
                                       THEN stands[TwinOf(twin, u)] ELSE stands[u]]
           /\ run' = [run EXCEPT
                 !.splits[t] = <<>>,
                 !.splits[c] = <<s[1]>> \o SubSeq(s, 3, Len(s)),
                 !.todo = IF \E d \in @ : scop.array[d] = scop.array[t] THEN @ \cup {c} ELSE @]
    /\ UNCHANGED <<scop, must>>

StartPropagation ==
    /\ run.stage = "split"
    /\ op = Idle
    /\ \A t \in Def : Len(run.splits[t]) <= 1
    /\ run' = [run EXCEPT !.stage = "propagate", !.splits = [t \in Def |-> <<>>]]
    /\ UNCHANGED <<scop, g, must, op, made, stands>>

PickSource(d) ==
    /\ run.stage = "propagate"
    /\ op = Idle
    /\ run.src = NoDef
    /\ d \in run.todo
    /\ run' = [run EXCEPT !.src     = d,
                          !.todo    = @ \ {d},
                          !.edges   = OutEdges({d}),
                          !.blocked = @ \/ \E k \in OutEdges({d}) : ~ Subscripted(k[2])]
    /\ UNCHANGED <<scop, g, must, op, made, stands>>

AssertionsHold(k) == g.def[k[2]] \notin run.nonTrgs /\ Sources(k[2]) = {k[1]}

(* propagateEdge begins: the read is no operand any more, and those of the source are reloaded. *)
PropagateEdge(k) ==
    /\ run.stage = "propagate"
    /\ op = Idle
    /\ k \in run.edges
    /\ AssertionsHold(k)
    /\ g' = RemoveOperand(g, k[2])
    /\ run' = [run EXCEPT !.stage = "reload", !.edge = k, !.loads = g.ops[k[1]] \ {k[2]}]
    /\ UNCHANGED <<scop, must, op, made, stands>>

(* The reads operand o of the source stands for, by instance of the target, R being the edge. *)
Needed(R, o) == [j \in Inst |-> UNION {stands[o][p[1]] : p \in {q \in R : q[2] = j}}]

EqualOperandsArray(t, need) ==
    {m \in g.ops[t] :
        /\ Subscripted(m)
        /\ \A j \in g.dom[t] :
              /\ Loads(stands, m, j) # {}
              /\ {scop.array[v[1]] : v \in stands[m][j]} = {scop.array[v[1]] : v \in need[j]}}

(* The operands of t whose access relation is the one needed. *)
EqualOperands(t, need) ==
    {m \in g.ops[t] :
        /\ Subscripted(m)
        /\ \A j \in g.dom[t] :
              /\ Loads(stands, m, j) # {}
              /\ Loads(stands, m, j) = UNION {scop.cells[v[1]][v[2]] : v \in need[j]}}

(***************************************************************************)
(* addReloadAccesses, for one operand of the source.  One of the target    *)
(* that is equal to the one needed is taken for it, if isl notices; any    *)
(* other becomes an operand of its own.  A read that is not affine is of   *)
(* the whole array, and equal to no read of a cell.                        *)
(***************************************************************************)
ReloadOperand(o) ==
    /\ run.stage = "reload"
    /\ op = Idle
    /\ o \in run.loads
    /\ FreshUses # {}
    /\ LET R    == g.raw[run.edge]
           t    == g.def[run.edge[2]]
           need == Needed(R, o)
       IN  \E n \in {CHOOSE m \in FreshUses : TRUE}
                   \cup {m \in EqualOperands(t, need) : Subscripted(o)} :
              /\ g' = AddReload(g, o, n, R, t)
              /\ stands' = [stands EXCEPT ![n] = [j \in Inst |-> @[j] \cup need[j]]]
    /\ run' = [run EXCEPT !.loads = @ \ {o}]
    /\ UNCHANGED <<scop, must, op, made>>

(* The edge that was propagated is cleared (RAW->clear). *)
FinishEdge ==
    /\ run.stage = "reload"
    /\ op = Idle
    /\ run.loads = {}
    /\ g' = ClearPropagated(g, run.edge)
    /\ stands' = [stands EXCEPT ![run.edge[2]] = [j \in Inst |-> {}]]
    /\ run' = [run EXCEPT !.stage = "propagate", !.edges = @ \ {run.edge}, !.edge = NoEdge]
    /\ UNCHANGED <<scop, must, op, made>>

Abort ==
    /\ run.stage = "propagate"
    /\ \E k \in run.edges : ~ AssertionsHold(k)
    /\ run' = [run EXCEPT !.stage = "aborted"]
    /\ UNCHANGED <<scop, g, must, op, made, stands>>

FinishSource ==
    /\ run.stage = "propagate"
    /\ run.src # NoDef
    /\ run.edges = {}
    /\ RestrictOnce(run.src)
    /\ run' = [run EXCEPT !.src = NoDef]

FinishGroup ==
    /\ run.stage = "propagate"
    /\ op = Idle
    /\ run.src = NoDef
    /\ run.todo = {}
    /\ run' = [run EXCEPT !.stage = "worklist", !.nonTrgs = {}, !.changed = TRUE]
    /\ UNCHANGED <<scop, g, must, op, made, stands>>

(* The end of propagateExpressions: dead iterations are only deleted if something changed. *)
EndWorklist ==
    /\ run.stage = "worklist"
    /\ op = Idle
    /\ run.groups = {}
    /\ run' = IF run.changed THEN [run EXCEPT !.stage = "delete", !.todo = made]
              ELSE [run EXCEPT !.stage = "done"]
    /\ UNCHANGED <<scop, g, must, op, made, stands>>

Finished ==
    /\ run.stage \in {"done", "aborted"}
    /\ op = Idle
    /\ UNCHANGED runVars

RunNext ==
    \/ \E d \in Def : RestrictNode(d) \/ Split(d) \/ PickSource(d)
    \/ \E a \in Array : PropagateEdges(a)
    \/ CutTarget \/ GiveUp \/ StartSplits
    \/ \E k \in Def \X Use : PropagateEdge(k)
    \/ \E o \in Use : ReloadOperand(o)
    \/ EndLoop \/ StartPropagation \/ Abort \/ FinishEdge \/ FinishSource \/ FinishGroup
    \/ EndWorklist
    \/ (VisitEdge \/ NextPhase) /\ UNCHANGED <<run, made, stands>>
    \/ Finished

RunSpec     == RunInit /\ [][RunNext]_runVars
FairRunSpec == RunSpec /\ WF_runVars(RunNext)
=============================================================================
