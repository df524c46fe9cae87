------------------------- MODULE RestrictionProofs -------------------------
(***************************************************************************)
(* Dead iteration elimination keeps its caches coherent and its reads      *)
(* supplied, for every Scop and every order in which the edges are         *)
(* visited.                                                                *)
(***************************************************************************)
EXTENDS Restriction, GraphProofs

(***************************************************************************)
(* What ties the state together.  A RAW edge starts from an instance that  *)
(* still exists, so the visit of rawOut has nothing to cut; a WAR edge     *)
(* that ends in the statement of the current setDomain ends in an instance *)
(* that still exists, once it has been visited, so the visits of the WAW   *)
(* edges find no WAR edge to extend; and a phase visits its own kind of    *)
(* edges.                                                                  *)
(***************************************************************************)
RawStarts == \A d \in Def, u \in Use : \A p \in g.raw[d, u] : p[1] \in g.dom[d]

WarEnds ==
    op.phase # 0 =>
        \A u \in Use :
            \/ op.phase = 1 /\ <<u, op.def>> \in op.todo
            \/ \A p \in g.war[u, op.def] : p[2] \in g.dom[op.def]

KeysOf(h, d, phase) ==
    CASE phase = 1 -> {k \in Use \X Def : k[2] = d}
      [] phase = 2 -> Use \X Def
      [] phase = 3 -> {k \in Def \X Def : d \in {k[1], k[2]}}
      [] phase = 4 -> {k \in Def \X Use : k[1] = d}
      [] phase = 5 -> {k \in Def \X Use : k[2] \in h.ops[d]}

TodoOK == /\ op.phase # 0 => op.todo \subseteq KeysOf(g, op.def, op.phase)
          /\ op.phase = 0 => op.todo = {}

(***************************************************************************)
(* What no step does: add to a WAR edge, or let a barrier go stale.        *)
(***************************************************************************)
StepOK(h, r) ==
    /\ r.ops = h.ops
    /\ BarrierStep(h, r)
    /\ \A k \in Use \X Def : r.war[k] \subseteq h.war[k]

IInv == TypeOK /\ UsedCoherent /\ RawStarts /\ WarEnds /\ TodoOK

-----------------------------------------------------------------------------
(* The dependences of a Scop relate instances of the statements concerned. *)
LEMMA FlowType ==
    ASSUME NEW s, IsScop(s), NEW a, NEW b, NEW d \in Def, NEW e \in Def
    PROVE  Flow(s, a, d, b, e) \in SUBSET (s.dom[d] \X s.dom[e]) /\ Flow(s, a, d, b, e) \in Map
BY DEF Flow, IsScop, Map

LEMMA DependencesType ==
    ASSUME NEW s, IsScop(s)
    PROVE  /\ RAW(s) \in [Def \X Use -> Map]
           /\ WAR(s) \in [Use \X Def -> Map]
           /\ WAW(s) \in [Def \X Def -> Map]
           /\ \A d \in Def, u \in Use : \A p \in RAW(s)[d, u] : p[1] \in s.dom[d]
<1>1. {} \in Map
  BY DEF Map
<1>2. RAW(s) \in [Def \X Use -> Map]
  BY <1>1, FlowType DEF RAW, IsScop
<1>3. WAR(s) \in [Use \X Def -> Map]
  BY <1>1, FlowType DEF WAR, IsScop
<1>4. WAW(s) \in [Def \X Def -> Map]
  BY <1>1, FlowType DEF WAW, IsScop
<1>5. ASSUME NEW d \in Def, NEW u \in Use, NEW p \in RAW(s)[d, u] PROVE p[1] \in s.dom[d]
  <2>1. RAW(s)[d, u] = IF s.def[u] \in Def THEN Flow(s, d, d, u, s.def[u]) ELSE {}
    BY DEF RAW
  <2>2. s.def[u] \in Def /\ p \in Flow(s, d, d, u, s.def[u])
    BY <1>5, <2>1
  <2> QED BY <2>2 DEF Flow
<1> QED BY <1>2, <1>3, <1>4, <1>5

LEMMA CreateFacts ==
    ASSUME NEW s, IsScop(s)
    PROVE  LET r == CreateDependenceGraph(s)
           IN  /\ r \in Graph
               /\ r.dom = s.dom /\ r.raw = RAW(s) /\ r.waw = WAW(s)
               /\ \A d \in Def : r.used[d] = Miss
               /\ \A d \in Def : r.over[d] = WawDomain(r, d)
               /\ \A d \in Def : r.barrier[d] = Miss
               /\ r.def = s.def
               /\ \A d \in Def, u \in Use : u \in r.ops[d] <=> s.def[u] = d
               /\ \A k \in Use \X Def : r.war[k] = WAR(s)[k] \cup SelfEdges(s)[k]
<1> DEFINE edges == [dom     |-> s.dom,
                     def     |-> s.def,
                     ops     |-> [d \in Def |-> {u \in Use : s.def[u] = d}],
                     raw     |-> RAW(s),
                     war     |-> WAR(s),
                     waw     |-> WAW(s),
                     used    |-> [d \in Def |-> Miss],
                     over    |-> [d \in Def |-> Miss],
                     barrier |-> [d \in Def |-> Miss]]
           filled == [edges EXCEPT !.over = [d \in Def |-> WawDomain(edges, d)]]
           r == CreateDependenceGraph(s)
<1>1. edges \in Graph
  BY DependencesType DEF Graph, Cache, IsScop
<1>2. /\ filled \in Graph /\ filled.dom = s.dom /\ filled.raw = RAW(s) /\ filled.waw = WAW(s)
      /\ filled.def = s.def /\ filled.ops = [d \in Def |-> {u \in Use : s.def[u] = d}]
      /\ filled.war = WAR(s)
      /\ filled.used = [d \in Def |-> Miss] /\ filled.barrier = [d \in Def |-> Miss]
      /\ filled.over = [d \in Def |-> WawDomain(edges, d)]
  <2>1. [d \in Def |-> WawDomain(edges, d)] \in [Def -> Cache(Inst)]
    BY DEF WawDomain, Cache
  <2> QED BY <1>1, <2>1 DEF Graph
<1>3. SelfEdges(s) \in [Use \X Def -> Map]
  BY DEF SelfEdges, IsScop, Map
<1>4. r = GrowWar(filled, SelfEdges(s))
  BY DEF CreateDependenceGraph
<1>5. edges.waw = WAW(s)
  OBVIOUS
<1> HIDE DEF edges, filled, r
<1>6. r \in Graph /\ SameNodes(filled, r) /\ r.raw = filled.raw /\ r.waw = filled.waw
      /\ r.used = filled.used /\ r.over = filled.over
      /\ r.war = [k \in Use \X Def |-> filled.war[k] \cup SelfEdges(s)[k]]
  BY <1>2, <1>3, <1>4, GrowWarFacts
<1>7. \A d \in Def : WawDomain(edges, d) = WawDomain(r, d)
  BY <1>2, <1>5, <1>6 DEF WawDomain
<1>8. ASSUME NEW d \in Def PROVE r.barrier[d] = Miss
  BY <1>2, <1>4, <1>8 DEF GrowWar
<1>9. \A d \in Def, u \in Use : u \in r.ops[d] <=> s.def[u] = d
  BY <1>2, <1>6 DEF SameNodes
<1>10. \A k \in Use \X Def : r.war[k] = WAR(s)[k] \cup SelfEdges(s)[k]
  BY <1>2, <1>6
<1> QED BY <1>2, <1>6, <1>7, <1>8, <1>9, <1>10 DEF SameNodes, r

LEMMA InitInv == Init => IInv /\ OverCoherent
<1> SUFFICES ASSUME Init PROVE IInv /\ OverCoherent
  OBVIOUS
<1>1. IsScop(scop)
  BY ScopsAssumption DEF Init
<1>2. g \in Graph /\ g.dom = scop.dom /\ g.raw = RAW(scop)
      /\ (\A d \in Def : g.used[d] = Miss) /\ (\A d \in Def : g.over[d] = WawDomain(g, d))
  BY <1>1, CreateFacts DEF Init
<1>3. TypeOK
  BY <1>2, StaleAssumption DEF Init, TypeOK, Idle
<1>4. UsedCoherent /\ OverCoherent
  BY <1>2 DEF UsedCoherent, OverCoherent
<1>5. RawStarts
  BY <1>1, <1>2, DependencesType DEF RawStarts
<1>6. WarEnds /\ TodoOK
  BY DEF Init, Idle, WarEnds, TodoOK
<1> QED BY <1>3, <1>4, <1>5, <1>6 DEF IInv

-----------------------------------------------------------------------------
(* CheckBarrier fills caches and adds to MustDeleteNodes. *)
LEMMA CheckBarrierInv ==
    ASSUME IInv, NEW d \in Def, CheckBarrier(d)
    PROVE  IInv' /\ StepOK(g, g') /\ (OverCoherent => OverCoherent')
<1> DEFINE asked == FillBarrier(g, d)
<1>1. g \in Graph /\ op = Idle /\ op' = op /\ scop' = scop /\ must' \subseteq Def
  BY DEF IInv, TypeOK, CheckBarrier
<1>2. /\ asked \in Graph /\ SameNodes(g, asked) /\ asked.raw = g.raw /\ asked.waw = g.waw
      /\ asked.war = g.war /\ asked.used = g.used /\ asked.over = g.over
      /\ BarrierStep(g, asked)
  BY <1>1, FillBarrierFacts
<1>3. g' = asked \/ g' = FillOver(asked, d)
  BY DEF CheckBarrier
<1> HIDE DEF asked
<1>4. /\ g' \in Graph /\ SameNodes(g, g') /\ g'.raw = g.raw /\ g'.waw = g.waw /\ g'.war = g.war
      /\ g'.used = g.used /\ g'.barrier = asked.barrier
      /\ \A e \in Def : g'.over[e] = g.over[e] \/ g'.over[e] = WawDomain(g', e)
  <2>1. CASE g' = asked
    BY <1>2, <2>1
  <2>2. CASE g' = FillOver(asked, d)
    <3>1. /\ g' \in Graph /\ SameNodes(asked, g') /\ g'.raw = asked.raw /\ g'.waw = asked.waw
          /\ g'.war = asked.war /\ g'.used = asked.used /\ g'.barrier = asked.barrier
          /\ \A e \in Def : g'.over[e] = asked.over[e] \/ g'.over[e] = WawDomain(g', e)
      BY <1>2, <2>2, FillOverFacts
    <3> QED BY <1>2, <3>1 DEF SameNodes
  <2> QED BY <1>3, <2>1, <2>2
<1>5. \A e \in Def : RawDomain(g', e) = RawDomain(g, e) /\ WawDomain(g', e) = WawDomain(g, e)
  BY <1>4 DEF RawDomain, WawDomain
<1>6. TypeOK'
  BY <1>1, <1>4 DEF IInv, TypeOK
<1>7. UsedCoherent'
  BY <1>4, <1>5 DEF IInv, UsedCoherent
<1>8. OverCoherent => OverCoherent'
  BY <1>4, <1>5 DEF OverCoherent, SameNodes
<1>9. RawStarts'
  BY <1>4 DEF IInv, RawStarts, SameNodes
<1>10. WarEnds' /\ TodoOK'
  BY <1>1 DEF IInv, TodoOK, WarEnds, Idle
<1>11. StepOK(g, g')
  BY <1>2, <1>4 DEF StepOK, BarrierStep, SameNodes
<1> QED BY <1>6, <1>7, <1>8, <1>9, <1>10, <1>11 DEF IInv

(* What restrictStmt keeps is part of the domain and holds what is read. *)
LEMMA NeededFacts ==
    ASSUME IInv, NEW d \in Def
    PROVE  /\ RawDomain(g, d) \subseteq NeededDomain(d)
           /\ NeededDomain(d) \subseteq g.dom[d]
           /\ UsedDomain(g, d) = RawDomain(g, d)
<1>1. g \in Graph
  BY DEF IInv, TypeOK
<1>2. UsedDomain(g, d) = RawDomain(g, d)
  BY DEF IInv, UsedCoherent, UsedDomain
<1>3. RawDomain(g, d) \subseteq g.dom[d]
  BY DEF IInv, RawStarts, RawDomain
<1> QED BY <1>2, <1>3 DEF NeededDomain

(* restrictStmt deletes only instances no RAW edge starts from. *)
LEMMA RestrictStmtInv ==
    ASSUME IInv, NEW d \in Def, RestrictStmt(d)
    PROVE  IInv' /\ StepOK(g, g') /\ (OverCoherent => OverCoherent')
<1> DEFINE used  == FillUsed(g, d)
           asked == IF LiveOut(d) THEN FillOver(used, d) ELSE used
           D     == NeededDomain(d)
           next  == KeepInstances(asked, d, D)
<1>1. g \in Graph /\ op = Idle /\ scop' = scop /\ must' = must
  BY DEF IInv, TypeOK, RestrictStmt
<1>2. D \subseteq g.dom[d] /\ RawDomain(g, d) \subseteq D /\ UsedDomain(g, d) = RawDomain(g, d)
  BY NeededFacts
<1>3. /\ used \in Graph /\ SameNodes(g, used) /\ used.raw = g.raw /\ used.waw = g.waw
      /\ used.war = g.war /\ used.over = g.over /\ used.barrier = g.barrier
      /\ \A e \in Def : used.used[e] = g.used[e] \/ used.used[e] = RawDomain(used, e)
  BY <1>1, FillUsedFacts
<1>4. (g' = asked /\ op' = op) \/ (g' = next /\ op' = [def |-> d, phase |-> 1,
                                                    todo |-> EdgesOf(next, d, Phases[1])])
  BY DEF RestrictStmt
<1> HIDE DEF used
<1>5. /\ asked \in Graph /\ SameNodes(g, asked) /\ asked.raw = g.raw /\ asked.waw = g.waw
      /\ asked.war = g.war /\ asked.barrier = g.barrier
      /\ \A e \in Def : asked.used[e] = g.used[e] \/ asked.used[e] = RawDomain(g, e)
      /\ \A e \in Def : asked.over[e] = g.over[e] \/ asked.over[e] = WawDomain(g, e)
  <2>1. \A e \in Def : RawDomain(used, e) = RawDomain(g, e)
    BY <1>3 DEF RawDomain
  <2>2. CASE LiveOut(d)
    <3>1. /\ asked \in Graph /\ SameNodes(used, asked) /\ asked.raw = used.raw
          /\ asked.waw = used.waw /\ asked.war = used.war /\ asked.used = used.used
          /\ asked.barrier = used.barrier
          /\ \A e \in Def : asked.over[e] = used.over[e] \/ asked.over[e] = WawDomain(asked, e)
      BY <1>3, <2>2, FillOverFacts
    <3>2. \A e \in Def : WawDomain(asked, e) = WawDomain(g, e)
      BY <1>3, <3>1 DEF WawDomain
    <3> QED BY <1>3, <2>1, <3>1, <3>2 DEF SameNodes
  <2>3. CASE ~ LiveOut(d)
    BY <1>3, <2>1, <2>3
  <2> QED BY <2>2, <2>3
<1> HIDE DEF asked, D
<1>6. \A e \in Def : asked.used[e] # Miss => asked.used[e] = RawDomain(g, e)
  BY <1>5 DEF IInv, UsedCoherent
<1>7. OverCoherent => \A e \in Def : asked.over[e] # Miss =>
         asked.over[e] \cap g.dom[e] = WawDomain(g, e) \cap g.dom[e]
  BY <1>5 DEF OverCoherent
<1>8. CASE g' = asked /\ op' = op
  <2>1. \A e \in Def : RawDomain(g', e) = RawDomain(g, e) /\ WawDomain(g', e) = WawDomain(g, e)
    BY <1>5, <1>8 DEF RawDomain, WawDomain
  <2>2. TypeOK' /\ UsedCoherent' /\ (OverCoherent => OverCoherent')
    BY <1>1, <1>5, <1>6, <1>7, <1>8, <2>1
       DEF IInv, TypeOK, UsedCoherent, OverCoherent, SameNodes
  <2>3. RawStarts' /\ WarEnds' /\ TodoOK'
    BY <1>1, <1>5, <1>8 DEF IInv, RawStarts, WarEnds, TodoOK, Idle, SameNodes
  <2>4. StepOK(g, g')
    BY <1>5, <1>8 DEF StepOK, BarrierStep, SameNodes
  <2> QED BY <2>2, <2>3, <2>4 DEF IInv
<1>9. CASE g' = next /\ op' = [def |-> d, phase |-> 1, todo |-> EdgesOf(next, d, Phases[1])]
  <2>1. D \in SUBSET Inst
    BY <1>1, <1>2 DEF Graph
  <2>2. next = [asked EXCEPT !.used = [asked.used EXCEPT ![d] = IF @ = Miss THEN Miss ELSE @ \cap D],
                             !.over = [asked.over EXCEPT ![d] = IF @ = Miss THEN Miss ELSE @ \cap D],
                             !.dom  = [asked.dom EXCEPT ![d] = D]]
    BY DEF KeepInstances
  <2> HIDE DEF next
  <2>3. /\ [asked.used EXCEPT ![d] = IF @ = Miss THEN Miss ELSE @ \cap D] \in [Def -> Cache(Inst)]
        /\ [asked.over EXCEPT ![d] = IF @ = Miss THEN Miss ELSE @ \cap D] \in [Def -> Cache(Inst)]
        /\ [asked.dom EXCEPT ![d] = D] \in [Def -> SUBSET Inst]
    BY <1>5, <2>1 DEF Graph, Cache
  <2>4. /\ next \in Graph /\ next.raw = g.raw /\ next.waw = g.waw /\ next.war = g.war
        /\ next.used = [asked.used EXCEPT ![d] = IF @ = Miss THEN Miss ELSE @ \cap D]
        /\ next.over = [asked.over EXCEPT ![d] = IF @ = Miss THEN Miss ELSE @ \cap D]
        /\ next.dom = [g.dom EXCEPT ![d] = D]
        /\ next.ops = g.ops /\ next.barrier = g.barrier
    BY <1>5, <2>2, <2>3 DEF Graph, SameNodes
  <2>5. EdgesOf(next, d, Phases[1]) = {k \in Use \X Def : k[2] = d /\ next.war[k] # {}}
    BY DEF EdgesOf, Phases
  <2>6. TypeOK'
    BY <1>1, <1>9, <2>4, <2>5 DEF IInv, TypeOK, EdgeKey
  <2>7. \A e \in Def : RawDomain(next, e) = RawDomain(g, e) /\ WawDomain(next, e) = WawDomain(g, e)
    BY <2>4 DEF RawDomain, WawDomain
  <2>8. UsedCoherent'
    <3>1. asked.used \in [Def -> Cache(Inst)]
      BY <1>5 DEF Graph
    <3>2. \A e \in Def : next.used[e] # Miss => next.used[e] = RawDomain(g, e)
      BY <1>2, <1>6, <2>4, <3>1
    <3> QED BY <1>9, <2>7, <3>2 DEF UsedCoherent
  <2>9. OverCoherent => OverCoherent'
    <3>1. asked.over \in [Def -> Cache(Inst)] /\ g.dom \in [Def -> SUBSET Inst]
      BY <1>1, <1>5 DEF Graph
    <3>2. OverCoherent => \A e \in Def : next.over[e] # Miss =>
             next.over[e] \cap next.dom[e] = WawDomain(g, e) \cap next.dom[e]
      BY <1>2, <1>7, <2>4, <3>1
    <3> QED BY <1>9, <2>7, <3>2 DEF OverCoherent
  <2>10. RawStarts'
    <3>1. \A u \in Use : \A p \in g.raw[d, u] : p[1] \in RawDomain(g, d)
      BY <1>1, RawDomainFacts
    <3>2. \A e \in Def, u \in Use : \A p \in g.raw[e, u] : p[1] \in next.dom[e]
      BY <1>1, <1>2, <2>4, <3>1 DEF IInv, RawStarts, Graph
    <3> QED BY <1>9, <2>4, <3>2 DEF RawStarts
  <2>11. WarEnds' /\ TodoOK'
    <3>1. op'.phase = 1 /\ op'.def = d /\ op'.todo = {k \in Use \X Def : k[2] = d /\ g.war[k] # {}}
      BY <1>9, <2>4, <2>5
    <3>2. KeysOf(g', d, 1) = {k \in Use \X Def : k[2] = d}
      BY DEF KeysOf
    <3>3. \A u \in Use : <<u, d>> \in op'.todo \/ g.war[u, d] = {}
      BY <3>1
    <3>4. g'.war = g.war
      BY <1>9, <2>4
    <3>5. WarEnds'
      BY <3>1, <3>3, <3>4 DEF WarEnds
    <3>6. TodoOK'
      BY <3>1, <3>2 DEF TodoOK
    <3> QED BY <3>5, <3>6
  <2>12. StepOK(g, g')
    BY <1>9, <2>4 DEF StepOK, BarrierStep
  <2> QED BY <2>6, <2>8, <2>9, <2>10, <2>11, <2>12 DEF IInv
<1> QED BY <1>4, <1>8, <1>9

-----------------------------------------------------------------------------
(* What one visit may do to the graph. *)
VisitOK(r) ==
    /\ r \in Graph /\ SameNodes(g, r)
    /\ OverStep(g, r) /\ BarrierStep(g, r)
    /\ \A e \in Def \X Use : r.raw[e] \subseteq g.raw[e]
    /\ \A d \in Def : r.used[d] # Miss => r.used[d] = RawDomain(r, d)
    /\ \A e \in Use \X Def : r.war[e] \subseteq g.war[e]
    /\ op.phase \in 3..5 => r.war = g.war

(* A graph whose RAW edges and used domains are those of g is coherent. *)
LEMMA SameReads ==
    ASSUME IInv, NEW r \in Graph, r.raw = g.raw, r.used = g.used
    PROVE  /\ \A e \in Def \X Use : r.raw[e] \subseteq g.raw[e]
           /\ \A d \in Def : r.used[d] # Miss => r.used[d] = RawDomain(r, d)
BY DEF IInv, UsedCoherent, RawDomain

LEMMA VisitWar ==
    ASSUME IInv, op.phase \in {1, 2}, NEW k \in op.todo,
           NEW r, r = Shrink(g, op.def, Phases[op.phase], k)
    PROVE  /\ VisitOK(r)
           /\ op.phase = 1 => \A p \in r.war[k] : p[2] \in g.dom[op.def]
<1> DEFINE D == g.dom[op.def]
<1>1. g \in Graph /\ k \in Use \X Def
  BY DEF IInv, TypeOK, TodoOK, KeysOf
<1> HIDE DEF D
<1>2. CASE op.phase = 1
  <2>1. r = ShrinkWarRange(g, k, D)
    BY <1>2 DEF Shrink, Phases, D
  <2>2. r \in Graph /\ SameNodes(g, r) /\ r.raw = g.raw /\ r.waw = g.waw
        /\ r.used = g.used /\ r.over = g.over /\ r.war = [g.war EXCEPT ![k] = @ \ LostRange(@, D)]
        /\ BarrierStep(g, r)
    BY <1>1, <2>1, ShrinkWarRangeFacts
  <2>3. r.war[k] = g.war[k] \ LostRange(g.war[k], D) /\ \A e \in Use \X Def : r.war[e] \subseteq g.war[e]
    BY <1>1, <2>2 DEF Graph
  <2>4. \A p \in r.war[k] : p[2] \in D
    BY <2>3 DEF LostRange
  <2>5. OverStep(g, r)
    BY <2>2 DEF OverStep
  <2> QED BY <2>2, <2>3, <2>4, <2>5, SameReads DEF VisitOK, D
<1>3. CASE op.phase = 2
  <2>1. r = ShrinkWarDomain(g, k, D)
    BY <1>3 DEF Shrink, Phases, D
  <2>2. r \in Graph /\ SameNodes(g, r) /\ r.raw = g.raw /\ r.waw = g.waw
        /\ r.used = g.used /\ r.over = g.over /\ r.war = [g.war EXCEPT ![k] = @ \ LostDomain(@, D)]
        /\ BarrierStep(g, r)
    BY <1>1, <2>1, ShrinkWarDomainFacts
  <2>3. \A e \in Use \X Def : r.war[e] \subseteq g.war[e]
    BY <1>1, <2>2 DEF Graph
  <2>4. OverStep(g, r)
    BY <2>2 DEF OverStep
  <2> QED BY <1>3, <2>2, <2>3, <2>4, SameReads DEF VisitOK
<1> QED BY <1>2, <1>3

(* Once all WAR edges that end in the statement are visited, they are cut. *)
LEMMA WarVisited ==
    ASSUME IInv, op.phase = 3
    PROVE  \A u \in Use : \A p \in g.war[u, op.def] : p[2] \in g.dom[op.def]
<1>1. op.phase # 0 /\ op.phase # 1
  OBVIOUS
<1>2. WarEnds
  BY DEF IInv
<1> QED BY <1>1, <1>2, Zenon DEF WarEnds

LEMMA VisitWaw ==
    ASSUME IInv, op.phase = 3, NEW k \in op.todo,
           NEW r, r = Shrink(g, op.def, Phases[op.phase], k)
    PROVE  VisitOK(r)
<1> DEFINE d == op.def
           D == g.dom[d]
           out == IF k[1] = d THEN ShrinkWawDomain(g, k, D) ELSE g
<1>1. g \in Graph /\ k \in Def \X Def /\ d \in Def
  BY DEF IInv, TypeOK, TodoOK, KeysOf
<1>2. r = IF k[2] = d THEN ShrinkWawRange(out, k, D) ELSE out
  BY DEF Shrink, ShrinkWaw, Phases
<1>3. \A u \in Use : \A p \in g.war[u, d] : p[2] \in D
  BY WarVisited
<1> HIDE DEF D
<1>4. /\ out \in Graph /\ SameNodes(g, out) /\ out.raw = g.raw /\ out.used = g.used
      /\ OverStep(g, out) /\ out.war = g.war /\ out.barrier = g.barrier
  <2>1. CASE k[1] = d
    <3>1. \A u \in Use : \A p \in g.war[u, k[1]] : p[2] \in D
      BY <1>3, <2>1
    <3>2. out = ShrinkWawDomain(g, k, D)
      BY <2>1
    <3> HIDE DEF out
    <3> QED BY <1>1, <3>1, <3>2, ShrinkWawDomainFacts
  <2>2. CASE k[1] # d
    BY <1>1, <2>2 DEF SameNodes, OverStep
  <2> QED BY <2>1, <2>2
<1> HIDE DEF out
<1>5. /\ r \in Graph /\ SameNodes(out, r) /\ r.raw = out.raw /\ r.used = out.used
      /\ OverStep(out, r) /\ r.war = out.war /\ r.barrier = out.barrier
  <2>1. CASE k[2] = d
    BY <1>1, <1>2, <1>4, <2>1, ShrinkWawRangeFacts
  <2>2. CASE k[2] # d
    BY <1>2, <1>4, <2>2 DEF SameNodes, OverStep
  <2> QED BY <2>1, <2>2
<1>6. OverStep(g, r)
  <2> SUFFICES ASSUME NEW c \in Def
               PROVE  \/ r.over[c] = Miss
                      \/ (r.over[c] = g.over[c] /\ \A e \in Def : r.waw[c, e] = g.waw[c, e])
    BY DEF OverStep
  <2>1. \/ out.over[c] = Miss
        \/ (out.over[c] = g.over[c] /\ \A e \in Def : out.waw[c, e] = g.waw[c, e])
    BY <1>4 DEF OverStep
  <2>2. \/ r.over[c] = Miss
        \/ (r.over[c] = out.over[c] /\ \A e \in Def : r.waw[c, e] = out.waw[c, e])
    BY <1>5 DEF OverStep
  <2> QED BY <2>1, <2>2
<1>7. r.raw = g.raw /\ r.used = g.used /\ SameNodes(g, r)
      /\ BarrierStep(g, r) /\ r.war = g.war
  BY <1>4, <1>5 DEF SameNodes, BarrierStep
<1> QED BY <1>5, <1>6, <1>7, SameReads DEF VisitOK

LEMMA VisitRaw ==
    ASSUME IInv, op.phase \in {4, 5}, NEW k \in op.todo,
           NEW r, r = Shrink(g, op.def, Phases[op.phase], k)
    PROVE  VisitOK(r)
<1> DEFINE d == op.def
           D == g.dom[d]
<1>1. g \in Graph /\ k \in Def \X Use /\ d \in Def /\ (op.phase = 4 => k[1] = d)
  BY DEF IInv, TypeOK, TodoOK, KeysOf
<1>2. CASE op.phase = 4
  <2>1. r = ShrinkRawDomain(g, k, D)
    BY <1>2 DEF Shrink, Phases
  <2>2. k = <<k[1], k[2]>> /\ k[1] \in Def /\ k[2] \in Use
    BY <1>1, PairFacts
  <2>3. \A p \in g.raw[k] : p[1] \in D
    BY <1>1, <1>2, <2>2 DEF IInv, RawStarts
  <2>4. r \in Graph /\ SameNodes(g, r) /\ r.raw = g.raw /\ r.waw = g.waw /\ r.war = g.war
        /\ r.over = g.over /\ r.used = g.used /\ r.barrier = g.barrier
    BY <1>1, <2>1, <2>3, ShrinkRawDomainFacts
  <2>5. OverStep(g, r) /\ BarrierStep(g, r) /\ \A e \in Use \X Def : r.war[e] \subseteq g.war[e]
    BY <2>4 DEF OverStep, BarrierStep
  <2> QED BY <2>4, <2>5, SameReads DEF VisitOK
<1>3. CASE op.phase = 5
  <2>1. r = ShrinkRawRange(g, k, D)
    BY <1>3 DEF Shrink, Phases
  <2>2. r \in Graph /\ SameNodes(g, r) /\ r.war = g.war /\ r.barrier = g.barrier
        /\ OverStep(g, r) /\ UsedStep(g, r)
        /\ r.raw = [g.raw EXCEPT ![k] = @ \ LostRange(@, D)]
    BY <1>1, <2>1, ShrinkRawRangeFacts
  <2>3. \A e \in Def \X Use : r.raw[e] \subseteq g.raw[e]
    BY <1>1, <2>2 DEF Graph
  <2>4. ASSUME NEW c \in Def, r.used[c] # Miss PROVE r.used[c] = RawDomain(r, c)
    <3>1. r.used[c] = g.used[c] /\ \A u \in Use : r.raw[c, u] = g.raw[c, u]
      BY <2>2, <2>4 DEF UsedStep
    <3>2. RawDomain(r, c) = RawDomain(g, c)
      BY <3>1 DEF RawDomain
    <3> QED BY <2>4, <3>1, <3>2 DEF IInv, UsedCoherent
  <2>5. BarrierStep(g, r)
    BY <2>2 DEF BarrierStep
  <2> QED BY <2>2, <2>3, <2>4, <2>5 DEF VisitOK
<1> QED BY <1>2, <1>3

(* A visit of any edge keeps the invariant. *)
LEMMA VisitEdgeInv ==
    ASSUME IInv, VisitEdge
    PROVE  IInv' /\ StepOK(g, g') /\ (OverCoherent => OverCoherent')
<1>1. PICK k \in op.todo : /\ g' = Shrink(g, op.def, Phases[op.phase], k)
                           /\ op' = [op EXCEPT !.todo = @ \ {k}]
  BY DEF VisitEdge
<1>2. op.phase \in {1, 2, 3, 4, 5} /\ scop' = scop /\ must' = must
  <2>1. op.phase \in 0..5 /\ op.phase # 0
    BY <1>1 DEF IInv, TypeOK, TodoOK
  <2> QED BY <2>1 DEF VisitEdge
<1>3. VisitOK(g')
  <2>1. CASE op.phase \in {1, 2}
    BY <1>1, <2>1, VisitWar
  <2>2. CASE op.phase = 3
    BY <1>1, <2>2, VisitWaw
  <2>3. CASE op.phase \in {4, 5}
    BY <1>1, <2>3, VisitRaw
  <2> QED BY <1>2, <2>1, <2>2, <2>3
<1>4. op'.def = op.def /\ op'.phase = op.phase /\ op'.todo = op.todo \ {k}
      /\ op' \in [def : Def \cup {NoDef}, phase : 0..5, todo : SUBSET EdgeKey]
  BY <1>1 DEF IInv, TypeOK
<1>5. TypeOK'
  BY <1>2, <1>3, <1>4 DEF IInv, TypeOK, VisitOK
<1>6. UsedCoherent'
  BY <1>3 DEF VisitOK, UsedCoherent
<1>7. OverCoherent => OverCoherent'
  <2> SUFFICES ASSUME OverCoherent, NEW d \in Def, g'.over[d] # Miss
               PROVE  g'.over[d] \cap g'.dom[d] = WawDomain(g', d) \cap g'.dom[d]
    BY DEF OverCoherent
  <2>1. g'.over[d] = g.over[d] /\ \A e \in Def : g'.waw[d, e] = g.waw[d, e]
    BY <1>3 DEF VisitOK, OverStep
  <2>2. WawDomain(g', d) = WawDomain(g, d)
    BY <2>1 DEF WawDomain
  <2>3. g'.dom = g.dom
    BY <1>3 DEF VisitOK, SameNodes
  <2> QED BY <2>1, <2>2, <2>3 DEF OverCoherent
<1>8. RawStarts'
  <2> SUFFICES ASSUME NEW d \in Def, NEW u \in Use, NEW p \in g'.raw[d, u]
               PROVE  p[1] \in g'.dom[d]
    BY DEF RawStarts
  <2>1. g'.raw[d, u] \subseteq g.raw[d, u] /\ g'.dom = g.dom
    BY <1>3 DEF VisitOK, SameNodes
  <2> QED BY <2>1 DEF IInv, RawStarts
<1>9. WarEnds'
  <2> SUFFICES ASSUME NEW u \in Use, ~ (op'.phase = 1 /\ <<u, op'.def>> \in op'.todo)
               PROVE  \A p \in g'.war[u, op'.def] : p[2] \in g'.dom[op'.def]
    BY DEF WarEnds
  <2>1. op.def \in Def /\ <<u, op.def>> \in Use \X Def
    BY <1>2 DEF IInv, TypeOK
  <2>2. g'.war[u, op.def] \subseteq g.war[u, op.def] /\ g'.dom = g.dom
    BY <1>3, <2>1 DEF VisitOK, SameNodes
  <2>3. CASE op.phase = 1 /\ k = <<u, op.def>>
    <3>1. \A p \in g'.war[k] : p[2] \in g.dom[op.def]
      BY <1>1, <2>3, VisitWar
    <3> QED BY <1>4, <2>2, <2>3, <3>1
  <2>4. CASE ~ (op.phase = 1 /\ k = <<u, op.def>>)
    <3>1. ~ (op.phase = 1 /\ <<u, op.def>> \in op.todo)
      BY <1>4, <2>4
    <3>2. \A p \in g.war[u, op.def] : p[2] \in g.dom[op.def]
      <4>1. op.phase # 0
        BY <1>2
      <4>2. WarEnds
        BY DEF IInv
      <4> QED BY <3>1, <4>1, <4>2, Zenon DEF WarEnds
    <3> QED BY <1>4, <2>2, <3>2
  <2> QED BY <2>3, <2>4
<1>10. TodoOK'
  <2>1. KeysOf(g', op'.def, op'.phase) = KeysOf(g, op.def, op.phase)
    BY <1>3, <1>4 DEF KeysOf, VisitOK, SameNodes
  <2> QED BY <1>2, <1>4, <2>1 DEF IInv, TodoOK
<1>11. StepOK(g, g')
  BY <1>3 DEF VisitOK, StepOK, SameNodes
<1> QED BY <1>5, <1>6, <1>7, <1>8, <1>9, <1>10, <1>11 DEF IInv

(* The next phase begins with edges of its own kind. *)
LEMMA NextPhaseInv ==
    ASSUME IInv, NextPhase
    PROVE  IInv' /\ g' = g /\ (OverCoherent => OverCoherent')
<1>1. op.phase \in 0..5 /\ op.phase # 0 /\ op.todo = {} /\ op.def \in Def /\ g \in Graph
  BY DEF IInv, TypeOK, NextPhase
<1>2. scop' = scop /\ must' = must /\ g' = g
  BY DEF NextPhase
<1>3. UsedCoherent' /\ (OverCoherent => OverCoherent') /\ RawStarts'
  BY <1>2 DEF IInv, UsedCoherent, OverCoherent, RawStarts, RawDomain, WawDomain
<1>4. CASE op.phase = 5
  <2>1. op' = Idle
    BY <1>4 DEF NextPhase
  <2>2. op'.phase = 0 /\ op'.todo = {} /\ op'.def = NoDef
        /\ op' \in [def : Def \cup {NoDef}, phase : 0..5, todo : SUBSET EdgeKey]
    BY <2>1 DEF Idle
  <2>3. TypeOK'
    BY <1>2, <2>2 DEF IInv, TypeOK
  <2>4. WarEnds' /\ TodoOK'
    BY <2>2 DEF WarEnds, TodoOK
  <2> QED BY <1>2, <1>3, <2>3, <2>4 DEF IInv
<1>5. CASE op.phase # 5
  <2> DEFINE edges == EdgesOf(g, op.def, Phases[op.phase + 1])
  <2>1. op' = [op EXCEPT !.phase = @ + 1, !.todo = edges]
    BY <1>5 DEF NextPhase
  <2>2. op.phase \in {1, 2, 3, 4}
    BY <1>1, <1>5
  <2>3. edges \subseteq KeysOf(g, op.def, op.phase + 1) /\ edges \subseteq EdgeKey
    BY <2>2 DEF EdgesOf, KeysOf, Phases, EdgeKey
  <2> HIDE DEF edges
  <2>8. op \in [def : Def \cup {NoDef}, phase : 0..5, todo : SUBSET EdgeKey]
    BY DEF IInv, TypeOK
  <2>4. op'.def = op.def /\ op'.phase = op.phase + 1 /\ op'.todo = edges
        /\ op' \in [def : Def \cup {NoDef}, phase : 0..5, todo : SUBSET EdgeKey]
    <3>1. op.phase + 1 \in 0..5
      BY <2>2
    <3> QED BY <2>1, <2>3, <2>8, <3>1
  <2>5. TypeOK'
    BY <1>1, <1>2, <2>4 DEF IInv, TypeOK
  <2>6. WarEnds'
    <3>1. \A u \in Use : \A p \in g.war[u, op.def] : p[2] \in g.dom[op.def]
      <4>1. \A u \in Use : <<u, op.def>> \notin op.todo
        BY <1>1
      <4>2. WarEnds
        BY DEF IInv
      <4> QED BY <1>1, <4>1, <4>2, Zenon DEF WarEnds
    <3>2. \A u \in Use : \A p \in g'.war[u, op'.def] : p[2] \in g'.dom[op'.def]
      BY <1>2, <2>4, <3>1
    <3> QED BY <3>2, Zenon DEF WarEnds
  <2>7. TodoOK'
    <3>1. op'.todo \subseteq KeysOf(g', op'.def, op'.phase) /\ op'.phase # 0
      BY <1>2, <2>2, <2>3, <2>4
    <3> QED BY <3>1, Zenon DEF TodoOK
  <2> QED BY <1>2, <1>3, <2>5, <2>6, <2>7 DEF IInv
<1> QED BY <1>4, <1>5

-----------------------------------------------------------------------------
(* Every step keeps the invariant and what StepOK promises. *)
LEMMA StepInv ==
    ASSUME IInv, [Next]_vars
    PROVE  IInv' /\ StepOK(g, g') /\ (OverCoherent => OverCoherent')
<1>1. ASSUME NEW d \in Def, CheckBarrier(d)
      PROVE  IInv' /\ StepOK(g, g') /\ (OverCoherent => OverCoherent')
  BY <1>1, CheckBarrierInv
<1>2. ASSUME NEW d \in Def, RestrictStmt(d)
      PROVE  IInv' /\ StepOK(g, g') /\ (OverCoherent => OverCoherent')
  BY <1>2, RestrictStmtInv
<1>3. CASE VisitEdge
  BY <1>3, VisitEdgeInv
<1>4. CASE NextPhase
  BY <1>4, NextPhaseInv DEF StepOK, BarrierStep
<1>5. CASE UNCHANGED vars
  BY <1>5 DEF vars, IInv, TypeOK, UsedCoherent, OverCoherent, RawStarts, WarEnds, TodoOK,
              RawDomain, WawDomain, KeysOf, StepOK, BarrierStep
<1> QED BY <1>1, <1>2, <1>3, <1>4, <1>5 DEF Next

LEMMA Invariance == Spec => [](IInv /\ OverCoherent)
<1>1. IInv /\ OverCoherent /\ [Next]_vars => (IInv /\ OverCoherent)'
  BY StepInv
<1> QED BY InitInv, <1>1, PTL DEF Spec

(* TypeOK of every reachable state of dead iteration elimination. *)
THEOREM TypeCorrect == Spec => []TypeOK
<1>1. IInv => TypeOK
  BY DEF IInv
<1> QED BY Invariance, <1>1, PTL

(***************************************************************************)
(* DefNode::getUsedDomain never answers with a stale set, whichever        *)
(* statements are restricted and however their edges are visited.          *)
(***************************************************************************)
THEOREM UsedCorrect == Spec => []UsedCoherent
<1>1. IInv => UsedCoherent
  BY DEF IInv
<1> QED BY Invariance, <1>1, PTL

(***************************************************************************)
(* DefNode::getOverwrittenSet never answers with a stale set.              *)
(***************************************************************************)
THEOREM OverCorrect == Spec => []OverCoherent
<1> QED BY Invariance, PTL

(* A step that keeps a barrier, or computes it, leaves nothing out. *)
LEMMA BarrierKept ==
    ASSUME IInv, BarrierCovers, [Next]_vars
    PROVE  BarrierCovers'
<1> SUFFICES ASSUME NEW d \in Def, g'.barrier[d] # Miss, NEW b \in WarTimes(g', d)
             PROVE  b \in g'.barrier[d]
  BY DEF BarrierCovers
<1>1. StepOK(g, g') /\ g \in Graph
  BY StepInv DEF IInv, TypeOK
<1>2. b \in WarTimes(g, d)
  <2>1. /\ b \in Inst \X (Def \X Inst)
        /\ \E u \in g.ops[d] : <<b[1], b[2][2]>> \in g'.war[u, b[2][1]]
    BY <1>1 DEF WarTimes, StepOK
  <2>2. b[2] \in Def \X Inst
    BY <2>1
  <2>3. b[2][1] \in Def
    BY <2>2
  <2>4. PICK u \in g.ops[d] : <<b[1], b[2][2]>> \in g'.war[u, b[2][1]]
    BY <2>1
  <2>5. u \in Use /\ <<u, b[2][1]>> \in Use \X Def
    BY <1>1, <2>3 DEF Graph
  <2>6. <<b[1], b[2][2]>> \in g.war[u, b[2][1]]
    BY <1>1, <2>4, <2>5 DEF StepOK
  <2> QED BY <2>1, <2>6 DEF WarTimes
<1>3. CASE g'.barrier[d] = g.barrier[d]
  BY <1>2, <1>3 DEF BarrierCovers
<1>4. CASE g'.barrier[d] = WarTimes(g, d)
  BY <1>2, <1>4
<1> QED BY <1>1, <1>3, <1>4 DEF StepOK, BarrierStep

(***************************************************************************)
(* DefNode::getBarrier never misses a write that has to stay behind an     *)
(* operand, although an edge that shrinks need not free the barrier.       *)
(***************************************************************************)
THEOREM BarrierCorrect == Spec => []BarrierCovers
<1>1. Init => BarrierCovers
  <2> SUFFICES ASSUME Init, NEW d \in Def PROVE g.barrier[d] = Miss
    BY DEF BarrierCovers
  <2>1. IsScop(scop) /\ g = CreateDependenceGraph(scop)
    BY ScopsAssumption DEF Init
  <2> QED BY <2>1, CreateFacts
<1>2. IInv /\ BarrierCovers /\ [Next]_vars => BarrierCovers'
  BY BarrierKept
<1> QED BY Invariance, <1>1, <1>2, PTL DEF Spec
=============================================================================
