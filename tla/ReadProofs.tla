----------------------------- MODULE ReadProofs -----------------------------
(***************************************************************************)
(* Dead iteration elimination deletes no instance that a read which stays  *)
(* depends on, and leaves no edge of a read dangling: for every Scop and   *)
(* every order in which the edges are visited.                             *)
(***************************************************************************)
EXTENDS DeadIterations, RestrictionProofs

(***************************************************************************)
(* The edges of a read relate instances that exist, but for those that the *)
(* current setDomain has still to cut: it cuts the ends of the WAR edges   *)
(* in phase 1, their starts in phase 2 and the ends of the RAW edges in    *)
(* phase 5.  This is EInv; it is about the graph alone, so the propagation *)
(* relies on it too.                                                       *)
(***************************************************************************)
OpsOK == \A d \in Def : g.ops[d] = {u \in Use : g.def[u] = d}

WarTodo == op.phase = 2 => \A k \in op.todo : g.def[k[1]] = op.def

WarStops ==
    \A k \in Use \X Def : \A p \in g.war[k] :
        p[2] \in g.dom[k[2]] \/ (op.phase = 1 /\ k \in op.todo)

WarStarts ==
    \A k \in Use \X Def : \A p \in g.war[k] :
        /\ g.def[k[1]] \in Def
        /\ \/ p[1] \in g.dom[g.def[k[1]]]
           \/ op.phase = 1 /\ g.def[k[1]] = op.def
           \/ op.phase = 2 /\ k \in op.todo

RawStops ==
    \A k \in Def \X Use : \A p \in g.raw[k] :
        /\ g.def[k[2]] \in Def
        /\ \/ p[2] \in g.dom[g.def[k[2]]]
           \/ op.phase \in 1..4 /\ g.def[k[2]] = op.def
           \/ op.phase = 5 /\ k \in op.todo

GInv == IInv /\ WarTodo /\ WarStops /\ WarStarts /\ RawStops

EInv == GInv /\ OpsOK

(* What a step does to the reads: of their dependences only pairs whose reader is gone are lost. *)
ReadsStep(h, r) ==
    /\ r.def = h.def /\ r.ops = h.ops
    /\ \A d \in Def : r.dom[d] \subseteq h.dom[d]
    /\ \A k \in Def \X Use : h.def[k[2]] \in Def =>
          \A p \in h.raw[k] : p[2] \in r.dom[h.def[k[2]]] => p \in r.raw[k]

(* So every dependence that the analysis found for a read that stays is kept. *)
RawKept ==
    \A k \in Def \X Use : g.def[k[2]] \in Def =>
        \A p \in RAW(scop)[k] : p[2] \in g.dom[g.def[k[2]]] => p \in g.raw[k]

RInv == EInv /\ g.def = scop.def /\ RawKept

-----------------------------------------------------------------------------
(* The dependences of a read concern instances of the statement it is in. *)
LEMMA ReadDependences ==
    ASSUME NEW s, IsScop(s)
    PROVE  /\ \A k \in Def \X Use : \A p \in RAW(s)[k] :
                 s.def[k[2]] \in Def /\ p[2] \in s.dom[s.def[k[2]]]
           /\ \A k \in Use \X Def : \A p \in WAR(s)[k] \cup SelfEdges(s)[k] :
                 s.def[k[1]] \in Def /\ p[1] \in s.dom[s.def[k[1]]] /\ p[2] \in s.dom[k[2]]
<1>1. ASSUME NEW k \in Def \X Use, NEW p \in RAW(s)[k]
      PROVE  s.def[k[2]] \in Def /\ p[2] \in s.dom[s.def[k[2]]]
  <2>1. RAW(s)[k] = IF s.def[k[2]] \in Def THEN Flow(s, k[1], k[1], k[2], s.def[k[2]]) ELSE {}
    BY DEF RAW
  <2>2. s.def[k[2]] \in Def /\ p \in Flow(s, k[1], k[1], k[2], s.def[k[2]])
    BY <1>1, <2>1
  <2> QED BY <2>2 DEF Flow
<1>2. ASSUME NEW k \in Use \X Def, NEW p \in WAR(s)[k]
      PROVE  s.def[k[1]] \in Def /\ p[1] \in s.dom[s.def[k[1]]] /\ p[2] \in s.dom[k[2]]
  <2>1. WAR(s)[k] = IF s.def[k[1]] \in Def THEN Flow(s, k[1], s.def[k[1]], k[2], k[2]) ELSE {}
    BY DEF WAR
  <2>2. s.def[k[1]] \in Def /\ p \in Flow(s, k[1], s.def[k[1]], k[2], k[2])
    BY <1>2, <2>1
  <2> QED BY <2>2 DEF Flow
<1>3. ASSUME NEW k \in Use \X Def, NEW p \in SelfEdges(s)[k]
      PROVE  s.def[k[1]] \in Def /\ p[1] \in s.dom[s.def[k[1]]] /\ p[2] \in s.dom[k[2]]
  <2>1. s.def[k[1]] = k[2] /\ p \in {<<i, i>> : i \in {j \in s.dom[k[2]] :
                                      s.cells[k[1]][j] \cap s.cells[k[2]][j] # {}}}
    BY <1>3 DEF SelfEdges
  <2> QED BY <2>1
<1> QED BY <1>1, <1>2, <1>3

LEMMA InitReads == Init => RInv
<1> SUFFICES ASSUME Init PROVE RInv
  OBVIOUS
<1>1. IInv /\ IsScop(scop) /\ op = Idle /\ g = CreateDependenceGraph(scop)
  BY InitInv, ScopsAssumption DEF Init
<1>2. g.dom = scop.dom /\ g.raw = RAW(scop)
  BY <1>1, CreateFacts
<1>3. OpsOK /\ g.def = scop.def /\ \A k \in Use \X Def : g.war[k] = WAR(scop)[k] \cup SelfEdges(scop)[k]
  <2>1. g \in Graph /\ g.def = scop.def
        /\ \A d \in Def, u \in Use : u \in g.ops[d] <=> scop.def[u] = d
    BY <1>1, CreateFacts
  <2>2. \A d \in Def : g.ops[d] \subseteq Use
    BY <2>1 DEF Graph
  <2>3. OpsOK
    BY <2>1, <2>2 DEF OpsOK
  <2> QED BY <1>1, <2>1, <2>3, CreateFacts
<1>4. WarTodo /\ WarStops /\ WarStarts /\ RawStops
  BY <1>1, <1>2, <1>3, ReadDependences DEF WarTodo, WarStops, WarStarts, RawStops, Idle
<1>5. RawKept
  BY <1>2 DEF RawKept
<1> QED BY <1>1, <1>3, <1>4, <1>5 DEF RInv, EInv, GInv

-----------------------------------------------------------------------------
(* A step that leaves the nodes and the edges of the reads alone. *)
LEMMA ReadsUntouched ==
    ASSUME EInv, IInv', SameNodes(g, g'), g'.raw = g.raw, g'.war = g.war, op' = op
    PROVE  EInv' /\ ReadsStep(g, g')
BY DEF EInv, GInv, OpsOK, WarTodo, WarStops, WarStarts, RawStops, ReadsStep, SameNodes

LEMMA CheckBarrierReads ==
    ASSUME EInv, NEW d \in Def, CheckBarrier(d)
    PROVE  EInv' /\ ReadsStep(g, g')
<1> DEFINE asked == FillBarrier(g, d)
<1>1. g \in Graph /\ op' = op /\ scop' = scop /\ IInv'
  BY CheckBarrierInv DEF EInv, GInv, IInv, TypeOK, CheckBarrier
<1>2. asked \in Graph /\ SameNodes(g, asked) /\ asked.raw = g.raw /\ asked.war = g.war
  BY <1>1, FillBarrierFacts
<1>3. g' = asked \/ g' = FillOver(asked, d)
  BY DEF CheckBarrier
<1> HIDE DEF asked
<1>4. SameNodes(g, g') /\ g'.raw = g.raw /\ g'.war = g.war
  BY <1>2, <1>3, FillOverFacts DEF SameNodes
<1> QED BY <1>1, <1>4, ReadsUntouched

(* setDomain begins: some instances of d are gone, and its edges are about to be cut. *)
LEMMA BeginReads ==
    ASSUME EInv, IInv', NEW d \in Def, NEW D, D \subseteq g.dom[d],
           op = Idle,
           g'.dom = [g.dom EXCEPT ![d] = D], g'.def = g.def, g'.ops = g.ops,
           g'.raw = g.raw, g'.war = g.war,
           op' = [def |-> d, phase |-> 1, todo |-> {k \in Use \X Def : k[2] = d /\ g.war[k] # {}}]
    PROVE  EInv' /\ ReadsStep(g, g')
<1>1. op.phase = 0 /\ op'.phase = 1 /\ op'.def = d
      /\ op'.todo = {k \in Use \X Def : k[2] = d /\ g.war[k] # {}}
  BY DEF Idle
<1>2. g.dom \in [Def -> SUBSET Inst]
  BY DEF EInv, GInv, IInv, TypeOK, Graph
<1>3. \A e \in Def : g'.dom[e] \subseteq g.dom[e] /\ (e # d => g'.dom[e] = g.dom[e])
  BY <1>2
<1>4. OpsOK' /\ WarTodo'
  BY <1>1 DEF EInv, OpsOK, WarTodo
<1>5. WarStops'
  <2> SUFFICES ASSUME NEW k \in Use \X Def, NEW p \in g.war[k], k[2] # d
               PROVE  p[2] \in g'.dom[k[2]]
    BY <1>1 DEF WarStops
  <2>1. p[2] \in g.dom[k[2]]
    BY <1>1 DEF EInv, GInv, WarStops
  <2> QED BY <1>3, <2>1
<1>6. WarStarts'
  <2> SUFFICES ASSUME NEW k \in Use \X Def, NEW p \in g.war[k]
               PROVE  /\ g.def[k[1]] \in Def
                      /\ p[1] \in g'.dom[g.def[k[1]]] \/ g.def[k[1]] = d
    BY <1>1 DEF WarStarts
  <2>1. g.def[k[1]] \in Def /\ p[1] \in g.dom[g.def[k[1]]]
    BY <1>1 DEF EInv, GInv, WarStarts
  <2> QED BY <1>3, <2>1
<1>7. RawStops'
  <2> SUFFICES ASSUME NEW k \in Def \X Use, NEW p \in g.raw[k]
               PROVE  /\ g.def[k[2]] \in Def
                      /\ p[2] \in g'.dom[g.def[k[2]]] \/ g.def[k[2]] = d
    BY <1>1 DEF RawStops
  <2>1. g.def[k[2]] \in Def /\ p[2] \in g.dom[g.def[k[2]]]
    BY <1>1 DEF EInv, GInv, RawStops
  <2> QED BY <1>3, <2>1
<1>8. ReadsStep(g, g')
  BY <1>3 DEF ReadsStep
<1> QED BY <1>4, <1>5, <1>6, <1>7, <1>8 DEF EInv, GInv

LEMMA RestrictStmtReads ==
    ASSUME EInv, NEW d \in Def, RestrictStmt(d)
    PROVE  EInv' /\ ReadsStep(g, g')
<1> DEFINE used  == FillUsed(g, d)
           asked == IF LiveOut(d) THEN FillOver(used, d) ELSE used
           D     == NeededDomain(d)
           next  == KeepInstances(asked, d, D)
<1>1. g \in Graph /\ op = Idle /\ scop' = scop /\ IInv'
  BY RestrictStmtInv DEF EInv, GInv, IInv, TypeOK, RestrictStmt
<1>2. D \subseteq g.dom[d]
  BY NeededFacts DEF EInv, GInv
<1>3. used \in Graph /\ SameNodes(g, used) /\ used.raw = g.raw /\ used.war = g.war
  BY <1>1, FillUsedFacts
<1>4. (g' = asked /\ op' = op) \/ (g' = next /\ op' = [def |-> d, phase |-> 1,
                                                    todo |-> EdgesOf(next, d, Phases[1])])
  BY DEF RestrictStmt
<1> HIDE DEF used
<1>5. asked \in Graph /\ SameNodes(g, asked) /\ asked.raw = g.raw /\ asked.war = g.war
  BY <1>3, FillOverFacts DEF SameNodes
<1> HIDE DEF asked, D
<1>6. CASE g' = asked /\ op' = op
  BY <1>1, <1>5, <1>6, ReadsUntouched
<1>7. CASE g' = next /\ op' = [def |-> d, phase |-> 1, todo |-> EdgesOf(next, d, Phases[1])]
  <2>1. next.dom = [g.dom EXCEPT ![d] = D] /\ next.def = g.def /\ next.ops = g.ops
        /\ next.raw = g.raw /\ next.war = g.war
    BY <1>5 DEF KeepInstances, Graph, SameNodes
  <2> HIDE DEF next
  <2>2. EdgesOf(next, d, Phases[1]) = {k \in Use \X Def : k[2] = d /\ g.war[k] # {}}
    BY <2>1 DEF EdgesOf, Phases
  <2> QED BY <1>1, <1>2, <1>7, <2>1, <2>2, BeginReads
<1> QED BY <1>4, <1>6, <1>7

-----------------------------------------------------------------------------
(* A visit cuts the visited edge of a read at the end its phase is about. *)
LEMMA VisitReads ==
    ASSUME IInv, op.phase \in 1..5, NEW k \in op.todo,
           NEW r, r = Shrink(g, op.def, Phases[op.phase], k)
    PROVE  /\ op.phase = 1 => \A p \in r.war[k] : p[2] \in g.dom[op.def]
           /\ op.phase = 2 => \A p \in r.war[k] : p[1] \in g.dom[op.def]
           /\ op.phase # 5 => r.raw = g.raw
           /\ op.phase = 5 => r.raw = [g.raw EXCEPT ![k] = @ \ LostRange(@, g.dom[op.def])]
<1> DEFINE D == g.dom[op.def]
<1>1. g \in Graph /\ k \in KeysOf(g, op.def, op.phase)
  BY DEF IInv, TypeOK, TodoOK
<1>2. CASE op.phase = 1
  <2>1. k \in Use \X Def /\ r = ShrinkWarRange(g, k, D)
    BY <1>1, <1>2 DEF Shrink, Phases, KeysOf
  <2> HIDE DEF D
  <2>2. r.raw = g.raw
    BY <2>1 DEF ShrinkWarRange
  <2> QED BY <1>2, <2>2, VisitWar
<1>3. CASE op.phase = 2
  <2>1. k \in Use \X Def /\ r = ShrinkWarDomain(g, k, D)
    BY <1>1, <1>3 DEF Shrink, Phases, KeysOf
  <2> HIDE DEF D
  <2>2. r.raw = g.raw /\ r.war = [g.war EXCEPT ![k] = @ \ LostDomain(@, D)]
    BY <1>1, <2>1, ShrinkWarDomainFacts
  <2>3. r.war[k] = g.war[k] \ LostDomain(g.war[k], D)
    BY <1>1, <2>1, <2>2 DEF Graph
  <2> QED BY <1>3, <2>2, <2>3 DEF LostDomain, D
<1>4. CASE op.phase = 3
  <2> DEFINE out == IF k[1] = op.def THEN ShrinkWawDomain(g, k, D) ELSE g
  <2>1. k \in Def \X Def /\ r = IF k[2] = op.def THEN ShrinkWawRange(out, k, D) ELSE out
    BY <1>1, <1>4 DEF Shrink, ShrinkWaw, Phases, KeysOf
  <2> HIDE DEF D
  <2>2. out \in Graph /\ out.raw = g.raw
    BY <1>1, <2>1, ShrinkWawDomainFacts
  <2> HIDE DEF out
  <2> QED BY <1>4, <2>1, <2>2, ShrinkWawRangeFacts
<1>5. CASE op.phase = 4
  <2>1. k \in Def \X Use /\ k[1] = op.def /\ r = ShrinkRawDomain(g, k, D)
    BY <1>1, <1>5 DEF Shrink, Phases, KeysOf
  <2>2. k = <<k[1], k[2]>> /\ k[1] \in Def /\ k[2] \in Use
    BY <2>1, PairFacts
  <2>3. \A p \in g.raw[k] : p[1] \in D
    BY <2>1, <2>2 DEF IInv, RawStarts
  <2> QED BY <1>1, <1>5, <2>1, <2>3, ShrinkRawDomainFacts
<1>6. CASE op.phase = 5
  <2>1. k \in Def \X Use /\ r = ShrinkRawRange(g, k, D)
    BY <1>1, <1>6 DEF Shrink, Phases, KeysOf
  <2> QED BY <1>1, <1>6, <2>1, ShrinkRawRangeFacts
<1> QED BY <1>2, <1>3, <1>4, <1>5, <1>6

LEMMA VisitEdgeReads ==
    ASSUME EInv, VisitEdge
    PROVE  EInv' /\ ReadsStep(g, g')
<1>1. PICK k \in op.todo : /\ g' = Shrink(g, op.def, Phases[op.phase], k)
                           /\ op' = [op EXCEPT !.todo = @ \ {k}]
  BY DEF VisitEdge
<1>2. IInv /\ IInv' /\ StepOK(g, g') /\ scop' = scop /\ g \in Graph
  BY VisitEdgeInv DEF EInv, GInv, IInv, TypeOK, VisitEdge
<1>3. op.phase \in 1..5 /\ k \in KeysOf(g, op.def, op.phase) /\ op.def \in Def
  <2>1. op.phase \in 0..5 /\ op.phase # 0
    BY <1>2, <1>1 DEF IInv, TypeOK, TodoOK
  <2> QED BY <1>1, <1>2, <2>1 DEF IInv, TypeOK, TodoOK
<1>4. op'.def = op.def /\ op'.phase = op.phase /\ op'.todo = op.todo \ {k}
  BY <1>1, <1>2 DEF IInv, TypeOK
<1>5. SameNodes(g, g') /\ \A e \in Use \X Def : g'.war[e] \subseteq g.war[e]
  <2>1. VisitOK(g')
    <3>1. CASE op.phase \in {1, 2}
      BY <1>1, <1>2, <3>1, VisitWar
    <3>2. CASE op.phase = 3
      BY <1>1, <1>2, <3>2, VisitWaw
    <3>3. CASE op.phase \in {4, 5}
      BY <1>1, <1>2, <3>3, VisitRaw
    <3> QED BY <1>3, <3>1, <3>2, <3>3
  <2> QED BY <2>1 DEF VisitOK
<1>6. /\ op.phase = 1 => \A p \in g'.war[k] : p[2] \in g.dom[op.def]
      /\ op.phase = 2 => \A p \in g'.war[k] : p[1] \in g.dom[op.def]
      /\ op.phase # 5 => g'.raw = g.raw
      /\ op.phase = 5 => g'.raw = [g.raw EXCEPT ![k] = @ \ LostRange(@, g.dom[op.def])]
  BY <1>1, <1>2, <1>3, VisitReads
<1>7. OpsOK'
  BY <1>2, <1>5 DEF EInv, OpsOK, SameNodes
<1>8. WarTodo'
  BY <1>4, <1>5 DEF EInv, GInv, WarTodo, SameNodes
<1>9. WarStops'
  <2> SUFFICES ASSUME NEW e \in Use \X Def, NEW p \in g'.war[e],
                      ~ (op.phase = 1 /\ e \in op.todo \ {k})
               PROVE  p[2] \in g.dom[e[2]]
    BY <1>4, <1>5 DEF WarStops, SameNodes
  <2>1. CASE op.phase = 1 /\ e = k
    BY <1>3, <1>6, <2>1 DEF KeysOf
  <2>2. CASE ~ (op.phase = 1 /\ e = k)
    BY <1>5, <2>2 DEF EInv, GInv, WarStops
  <2> QED BY <2>1, <2>2
<1>10. WarStarts'
  <2> SUFFICES ASSUME NEW e \in Use \X Def, NEW p \in g'.war[e]
               PROVE  /\ g.def[e[1]] \in Def
                      /\ \/ p[1] \in g.dom[g.def[e[1]]]
                         \/ op.phase = 1 /\ g.def[e[1]] = op.def
                         \/ op.phase = 2 /\ e \in op.todo \ {k}
    BY <1>4, <1>5 DEF WarStarts, SameNodes
  <2>1. /\ g.def[e[1]] \in Def
        /\ \/ p[1] \in g.dom[g.def[e[1]]]
           \/ op.phase = 1 /\ g.def[e[1]] = op.def
           \/ op.phase = 2 /\ e \in op.todo
    BY <1>5 DEF EInv, GInv, WarStarts
  <2>2. CASE op.phase = 2 /\ e = k
    <3>1. g.def[k[1]] = op.def
      BY <2>2 DEF EInv, GInv, WarTodo
    <3> QED BY <1>6, <2>1, <2>2, <3>1
  <2>3. CASE ~ (op.phase = 2 /\ e = k)
    BY <2>1, <2>3
  <2> QED BY <2>2, <2>3
<1>11. /\ \A e \in Def \X Use : g'.raw[e] \subseteq g.raw[e]
       /\ \A e \in Def \X Use : (op.phase # 5 \/ e # k) => g'.raw[e] = g.raw[e]
       /\ op.phase = 5 => /\ k \in Def \X Use /\ g.def[k[2]] = op.def
                          /\ g'.raw[k] = {p \in g.raw[k] : p[2] \in g.dom[op.def]}
  <2>1. CASE op.phase # 5
    BY <1>6, <2>1
  <2>2. CASE op.phase = 5
    <3>1. k \in Def \X Use /\ k[2] \in g.ops[op.def]
      BY <1>3, <2>2 DEF KeysOf
    <3>2. g.def[k[2]] = op.def
      BY <1>3, <3>1 DEF EInv, OpsOK
    <3>3. g.raw \in [Def \X Use -> Map]
      BY <1>2 DEF Graph
    <3>4. g'.raw[k] = g.raw[k] \ LostRange(g.raw[k], g.dom[op.def])
          /\ \A e \in Def \X Use : e # k => g'.raw[e] = g.raw[e]
      BY <1>6, <2>2, <3>1, <3>3
    <3>5. g'.raw[k] = {p \in g.raw[k] : p[2] \in g.dom[op.def]}
      BY <3>4 DEF LostRange
    <3>6. g'.raw[k] \subseteq g.raw[k]
      BY <3>5
    <3>7. ASSUME NEW e \in Def \X Use PROVE g'.raw[e] \subseteq g.raw[e]
      BY <3>4, <3>6
    <3> QED BY <2>2, <3>1, <3>2, <3>4, <3>5, <3>7
  <2> QED BY <2>1, <2>2
<1>12. RawStops'
  <2> SUFFICES ASSUME NEW e \in Def \X Use, NEW p \in g'.raw[e]
               PROVE  /\ g.def[e[2]] \in Def
                      /\ \/ p[2] \in g.dom[g.def[e[2]]]
                         \/ op.phase \in 1..4 /\ g.def[e[2]] = op.def
                         \/ op.phase = 5 /\ e \in op.todo \ {k}
    BY <1>4, <1>5 DEF RawStops, SameNodes
  <2>1. /\ g.def[e[2]] \in Def
        /\ \/ p[2] \in g.dom[g.def[e[2]]]
           \/ op.phase \in 1..4 /\ g.def[e[2]] = op.def
           \/ op.phase = 5 /\ e \in op.todo
    BY <1>11 DEF EInv, GInv, RawStops
  <2>2. CASE op.phase = 5 /\ e = k
    BY <1>11, <2>1, <2>2
  <2>3. CASE ~ (op.phase = 5 /\ e = k)
    BY <2>1, <2>3
  <2> QED BY <2>2, <2>3
<1>13. ReadsStep(g, g')
  <2> SUFFICES ASSUME NEW e \in Def \X Use, g.def[e[2]] \in Def,
                      NEW p \in g.raw[e], p[2] \in g.dom[g.def[e[2]]]
               PROVE  p \in g'.raw[e]
    BY <1>5 DEF ReadsStep, SameNodes
  <2> QED BY <1>11
<1> QED BY <1>2, <1>7, <1>8, <1>9, <1>10, <1>12, <1>13 DEF EInv, GInv

LEMMA NextPhaseReads ==
    ASSUME EInv, NextPhase
    PROVE  EInv' /\ ReadsStep(g, g')
<1>1. IInv' /\ g' = g /\ scop' = scop /\ op.phase # 0 /\ op.todo = {}
      /\ op \in [def : Def \cup {NoDef}, phase : 0..5, todo : SUBSET EdgeKey]
  BY NextPhaseInv DEF EInv, GInv, IInv, TypeOK, NextPhase
<1>2. OpsOK' /\ ReadsStep(g, g')
  BY <1>1 DEF EInv, OpsOK, ReadsStep
<1>3. /\ \A k \in Use \X Def : \A p \in g.war[k] : p[2] \in g.dom[k[2]]
      /\ \A k \in Use \X Def : \A p \in g.war[k] :
            g.def[k[1]] \in Def /\ (p[1] \in g.dom[g.def[k[1]]] \/ (op.phase = 1 /\ g.def[k[1]] = op.def))
      /\ \A k \in Def \X Use : \A p \in g.raw[k] :
            g.def[k[2]] \in Def /\ (p[2] \in g.dom[g.def[k[2]]] \/ (op.phase \in 1..4 /\ g.def[k[2]] = op.def))
  BY <1>1 DEF EInv, GInv, WarStops, WarStarts, RawStops
<1>4. WarStops'
  BY <1>1, <1>3 DEF WarStops
<1>5. CASE op.phase = 5
  <2>1. op'.phase = 0
    BY <1>5 DEF NextPhase, Idle
  <2>2. WarTodo'
    BY <2>1 DEF WarTodo
  <2>3. WarStarts' /\ RawStops'
    BY <1>1, <1>3, <1>5 DEF WarStarts, RawStops
  <2> QED BY <1>1, <1>2, <1>4, <2>2, <2>3 DEF EInv, GInv
<1>6. CASE op.phase # 5
  <2>1. op.phase \in 1..4
    BY <1>1, <1>6
  <2>2. op'.def = op.def /\ op'.phase = op.phase + 1
        /\ op'.todo = EdgesOf(g, op.def, Phases[op.phase + 1])
    BY <1>1, <1>6 DEF NextPhase
  <2>3. op.def \in Def /\ \A u \in Use : u \in g.ops[op.def] <=> g.def[u] = op.def
    BY <1>1 DEF EInv, GInv, IInv, TypeOK, OpsOK
  <2>4. op.phase = 1 => op'.todo = {k \in Use \X Def : k[1] \in g.ops[op.def] /\ g.war[k] # {}}
    BY <2>2 DEF EdgesOf, Phases
  <2>5. op.phase = 4 => op'.todo = {k \in Def \X Use : k[2] \in g.ops[op.def] /\ g.raw[k] # {}}
    BY <2>2 DEF EdgesOf, Phases
  <2>6. WarTodo'
    BY <1>1, <2>1, <2>2, <2>3, <2>4 DEF WarTodo
  <2>7. WarStarts'
    BY <1>1, <1>3, <2>1, <2>2, <2>3, <2>4 DEF WarStarts
  <2>8. RawStops'
    BY <1>1, <1>3, <2>1, <2>2, <2>3, <2>5 DEF RawStops
  <2> QED BY <1>1, <1>2, <1>4, <2>6, <2>7, <2>8 DEF EInv, GInv
<1> QED BY <1>5, <1>6

-----------------------------------------------------------------------------
(* Every step keeps the invariant. *)
LEMMA StepEdges ==
    ASSUME EInv, [Next]_vars
    PROVE  EInv' /\ ReadsStep(g, g')
<1>1. ASSUME NEW d \in Def, CheckBarrier(d) PROVE EInv' /\ ReadsStep(g, g')
  BY <1>1, CheckBarrierReads
<1>2. ASSUME NEW d \in Def, RestrictStmt(d) PROVE EInv' /\ ReadsStep(g, g')
  BY <1>2, RestrictStmtReads
<1>3. CASE VisitEdge
  BY <1>3, VisitEdgeReads
<1>4. CASE NextPhase
  BY <1>4, NextPhaseReads
<1>5. CASE UNCHANGED vars
  <2>1. IInv'
    BY StepInv DEF EInv, GInv
  <2>2. SameNodes(g, g')
    BY <1>5 DEF vars, SameNodes
  <2> QED BY <1>5, <2>1, <2>2, ReadsUntouched DEF vars
<1> QED BY <1>1, <1>2, <1>3, <1>4, <1>5 DEF Next

LEMMA StepReads ==
    ASSUME RInv, [Next]_vars
    PROVE  RInv'
<1>1. EInv' /\ ReadsStep(g, g')
  BY StepEdges DEF RInv
<1>2. scop' = scop
  BY DEF Next, vars, CheckBarrier, RestrictStmt, VisitEdge, NextPhase
<1>3. RawKept'
  BY <1>1, <1>2 DEF RInv, RawKept, ReadsStep
<1> QED BY <1>1, <1>2, <1>3 DEF RInv, ReadsStep

LEMMA ReadsInvariance == Spec => []RInv
<1>1. RInv /\ [Next]_vars => RInv'
  BY StepReads
<1> QED BY InitReads, <1>1, PTL DEF Spec

(***************************************************************************)
(* DefNode::verify and UseNode::verify: between two setDomains every RAW   *)
(* and WAR edge relates instances that still exist, for any Scop, any      *)
(* sequence of restrictions and any order of visits.                       *)
(***************************************************************************)
THEOREM ReadEdgesCorrect == Spec => []ReadEdgesInDomains
<1>1. ASSUME RInv, op = Idle PROVE ReadEdgesInDomains
  <2>1. op.phase = 0 /\ g \in Graph
    BY <1>1 DEF RInv, EInv, GInv, IInv, TypeOK, Idle
  <2>2. ASSUME NEW k \in Def \X Use, NEW p \in g.raw[k]
        PROVE  p \in g.dom[k[1]] \X g.dom[g.def[k[2]]]
    <3>1. p = <<p[1], p[2]>>
      BY <2>1 DEF Graph, Map
    <3>2. k = <<k[1], k[2]>> /\ k[1] \in Def /\ k[2] \in Use
      BY PairFacts
    <3>3. p[1] \in g.dom[k[1]]
      BY <1>1, <3>2 DEF RInv, EInv, GInv, IInv, RawStarts
    <3>4. p[2] \in g.dom[g.def[k[2]]]
      BY <1>1, <2>1 DEF RInv, EInv, GInv, RawStops
    <3> QED BY <3>1, <3>3, <3>4
  <2>3. ASSUME NEW k \in Use \X Def, NEW p \in g.war[k]
        PROVE  p \in g.dom[g.def[k[1]]] \X g.dom[k[2]]
    <3>1. p = <<p[1], p[2]>>
      BY <2>1 DEF Graph, Map
    <3>2. p[1] \in g.dom[g.def[k[1]]] /\ p[2] \in g.dom[k[2]]
      BY <1>1, <2>1 DEF RInv, EInv, GInv, WarStops, WarStarts
    <3> QED BY <3>1, <3>2
  <2> QED BY <2>2, <2>3 DEF ReadEdgesInDomains
<1>2. RInv => ReadEdgesInDomains
  BY <1>1 DEF ReadEdgesInDomains
<1> QED BY ReadsInvariance, <1>2, PTL

(***************************************************************************)
(* restrictStmt and setDomain lose no source: a read that is still         *)
(* executed keeps every RAW dependence the analysis found for it, and the  *)
(* writes at their other ends are still executed, even while a setDomain   *)
(* is under way and whatever is in MustDeleteNodes.                        *)
(***************************************************************************)
THEOREM SourcesCorrect == Spec => []SourcesKept
<1>1. ASSUME RInv PROVE SourcesKept
  <2> SUFFICES ASSUME NEW d \in Def, NEW u \in g.ops[d], NEW j \in g.dom[d], NEW p \in Source(u, j)
               PROVE  p \in Points /\ <<p[2], j>> \in g.raw[p[1], u]
    BY DEF SourcesKept
  <2>1. g \in Graph /\ u \in Use /\ g.def[u] = d
    BY <1>1 DEF RInv, EInv, GInv, IInv, TypeOK, Graph, OpsOK
  <2>2. p \in Def \X Inst /\ <<p[2], j>> \in RAW(scop)[p[1], u]
    BY DEF Source
  <2>3. p = <<p[1], p[2]>> /\ p[1] \in Def /\ p[2] \in Inst
    BY <2>2, PairFacts
  <2>4. <<p[1], u>> \in Def \X Use
    BY <2>1, <2>3
  <2>5. <<p[2], j>> \in g.raw[p[1], u]
    BY <1>1, <2>1, <2>2, <2>4 DEF RInv, RawKept
  <2>6. p[2] \in g.dom[p[1]]
    BY <1>1, <2>1, <2>3, <2>5 DEF RInv, EInv, GInv, IInv, RawStarts
  <2> QED BY <2>2, <2>5, <2>6 DEF Points
<1> QED BY ReadsInvariance, <1>1, PTL
=============================================================================
