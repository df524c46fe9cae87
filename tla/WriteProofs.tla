----------------------------- MODULE WriteProofs -----------------------------
(***************************************************************************)
(* What dead iteration elimination does to the edges between writes: each  *)
(* of them relates a write to a later one of the same cell.  And what that *)
(* means for the cells that are live: their last writes are not deleted.   *)
(***************************************************************************)
EXTENDS ReadProofs, FiniteSetTheorems, WellFoundedInduction

(***************************************************************************)
(* A WAW edge relates a write to a later write of the same cell, although  *)
(* its ends may be gone; and only affine statements are restricted.        *)
(***************************************************************************)
Overwrite(d, e, i, j) ==
    /\ i \in scop.dom[d] /\ j \in scop.dom[e]
    /\ scop.cells[d][i] \cap scop.cells[e][j] # {}
    /\ scop.time[d][i] < scop.time[e][j]

WawSound == \A d, e \in Def : \A i, j \in Inst : <<i, j>> \in g.waw[<<d, e>>] => Overwrite(d, e, i, j)

RestrictedAffine == op.phase # 0 => op.def \in scop.affine

SInv == RInv /\ IsScop(scop) /\ OneCell(scop) /\ WawSound /\ RestrictedAffine

-----------------------------------------------------------------------------
(* The chain of two overwrites through an affine write is an overwrite. *)
LEMMA OverwriteChain ==
    ASSUME IsScop(scop), OneCell(scop), NEW d \in Def, NEW m \in Def, NEW e \in Def, m \in scop.affine,
           NEW i \in Inst, NEW l \in Inst, NEW j \in Inst,
           Overwrite(d, m, i, l), Overwrite(m, e, l, j)
    PROVE  Overwrite(d, e, i, j)
<1>1. PICK c \in scop.cells[d][i] : c \in scop.cells[m][l]
  BY DEF Overwrite
<1>2. PICK b \in scop.cells[m][l] : b \in scop.cells[e][j]
  BY DEF Overwrite
<1>3. b = c
  BY <1>1, <1>2 DEF OneCell
<1>4. scop.time[d][i] \in Nat /\ scop.time[m][l] \in Nat /\ scop.time[e][j] \in Nat
  BY DEF IsScop
<1>5. scop.time[d][i] < scop.time[e][j]
  BY <1>4 DEF Overwrite
<1> QED BY <1>1, <1>2, <1>3, <1>5 DEF Overwrite

LEMMA InitSound ==
    ASSUME Init
    PROVE  SInv
<1>1. RInv /\ IsScop(scop) /\ g = CreateDependenceGraph(scop) /\ op = Idle
  BY InitReads, ScopsAssumption DEF Init
<1>2. OneCell(scop)
  BY ScopsAssumption DEF Init
<1>3. g.waw = WAW(scop)
  BY <1>1, CreateFacts
<1>4. WawSound
  <2> SUFFICES ASSUME NEW d \in Def, NEW e \in Def, NEW i \in Inst, NEW j \in Inst,
                      <<i, j>> \in g.waw[<<d, e>>]
               PROVE  Overwrite(d, e, i, j)
    BY DEF WawSound
  <2>1. <<i, j>> \in Flow(scop, d, d, e, e)
    BY <1>3 DEF WAW
  <2> QED BY <2>1 DEF Flow, Overwrite
<1>5. RestrictedAffine
  BY <1>1 DEF RestrictedAffine, Idle
<1> QED BY <1>1, <1>2, <1>4, <1>5 DEF SInv

-----------------------------------------------------------------------------
(* An edge that grows by overwrites relates overwrites. *)
LEMMA GrowWawSound ==
    ASSUME NEW h \in Graph, NEW new \in [Def \X Def -> Map], NEW d \in Def, NEW e \in Def,
           NEW i \in Inst, NEW j \in Inst, <<i, j>> \in GrowWaw(h, new).waw[<<d, e>>]
    PROVE  <<i, j>> \in h.waw[<<d, e>>] \/ <<i, j>> \in new[<<d, e>>]
<1>1. GrowWaw(h, new).waw = [k \in Def \X Def |-> h.waw[k] \cup new[k]]
  BY DEF GrowWaw, Graph
<1>2. <<d, e>> \in Def \X Def
  OBVIOUS
<1> QED BY <1>1, <1>2

(* Cutting a WAW edge adds only chains through the statement that is cut. *)
LEMMA ShrinkWawDomainSound ==
    ASSUME NEW h \in Graph, NEW k \in Def \X Def, NEW D, NEW d \in Def, NEW e \in Def,
           NEW i \in Inst, NEW j \in Inst, <<i, j>> \in ShrinkWawDomain(h, k, D).waw[<<d, e>>]
    PROVE  \/ <<i, j>> \in h.waw[<<d, e>>]
           \/ /\ e = k[2]
              /\ \E l \in Inst : <<i, l>> \in h.waw[<<d, k[1]>>] /\ <<l, j>> \in h.waw[k]
<1> DEFINE lost == LostDomain(h.waw[k], D)
           cut  == [h EXCEPT !.waw[k] = @ \ lost]
           newW == [x \in Def \X Def |->
                      IF x[2] = k[2] THEN Compose(cut.waw[<<x[1], k[1]>>], lost) ELSE {}]
           past == GrowWaw(cut, newW)
           newR == [x \in Use \X Def |->
                      IF x[2] = k[2] THEN Compose(past.war[x[1], k[1]], lost) ELSE {}]
           ante == GrowWar(past, newR)
           r    == ShrinkWawDomain(h, k, D)
<1>1. r = IF lost = {} THEN h ELSE [ante EXCEPT !.over[k[1]] = Miss]
  BY DEF ShrinkWawDomain
<1>2. cut \in Graph /\ cut.waw = [h.waw EXCEPT ![k] = @ \ lost]
  BY DEF Graph, Map
<1>3. newW \in [Def \X Def -> Map] /\ newR \in [Use \X Def -> Map]
  BY ComposeType DEF Map
<1>4. newW[<<d, e>>] = IF e = k[2] THEN Compose(cut.waw[<<d, k[1]>>], lost) ELSE {}
  <2> HIDE DEF cut, lost
  <2> QED OBVIOUS
<1> HIDE DEF newW
<1>5. past \in Graph
  BY <1>2, <1>3, GrowWawFacts
<1> HIDE DEF newR
<1>6. ante \in Graph /\ ante.waw = past.waw
  <2> HIDE DEF past
  <2> QED BY <1>3, <1>5, GrowWarFacts
<1> HIDE DEF ante
<1>7. CASE lost = {}
  BY <1>1, <1>7
<1>8. CASE lost # {}
  <2>1. <<i, j>> \in past.waw[<<d, e>>]
    <3> HIDE DEF past
    <3> QED BY <1>1, <1>6, <1>8 DEF Graph
  <2> HIDE DEF cut
  <2>2. <<i, j>> \in cut.waw[<<d, e>>] \/ <<i, j>> \in newW[<<d, e>>]
    BY <1>2, <1>3, <2>1, GrowWawSound
  <2>3. \A x \in Def \X Def : cut.waw[x] \subseteq h.waw[x]
    BY <1>2 DEF Graph
  <2>4. <<d, e>> \in Def \X Def /\ <<d, k[1]>> \in Def \X Def
    OBVIOUS
  <2>5. CASE <<i, j>> \in newW[<<d, e>>]
    <3>1. e = k[2] /\ <<i, j>> \in Compose(cut.waw[<<d, k[1]>>], lost)
      BY <1>4, <2>5
    <3>2. PICK l \in Inst : <<i, l>> \in cut.waw[<<d, k[1]>>] /\ <<l, j>> \in lost
      BY <3>1 DEF Compose
    <3> QED BY <2>3, <2>4, <3>1, <3>2 DEF LostDomain
  <2> QED BY <2>2, <2>3, <2>4, <2>5
<1> QED BY <1>7, <1>8

LEMMA ShrinkWawRangeSound ==
    ASSUME NEW h \in Graph, NEW k \in Def \X Def, NEW D, NEW d \in Def, NEW e \in Def,
           NEW i \in Inst, NEW j \in Inst, <<i, j>> \in ShrinkWawRange(h, k, D).waw[<<d, e>>]
    PROVE  \/ <<i, j>> \in h.waw[<<d, e>>]
           \/ /\ d = k[1]
              /\ \E l \in Inst : <<i, l>> \in h.waw[k] /\ <<l, j>> \in h.waw[<<k[2], e>>]
<1> DEFINE lost == LostRange(h.waw[k], D)
           cut  == [h EXCEPT !.waw[k] = @ \ lost]
           newW == [x \in Def \X Def |->
                      IF x[1] = k[1] THEN Compose(lost, cut.waw[<<k[2], x[2]>>]) ELSE {}]
           next == GrowWaw(cut, newW)
           r    == ShrinkWawRange(h, k, D)
<1>1. r = IF lost = {} THEN h ELSE [next EXCEPT !.over[k[1]] = Miss]
  BY DEF ShrinkWawRange
<1>2. cut \in Graph /\ cut.waw = [h.waw EXCEPT ![k] = @ \ lost]
  BY DEF Graph, Map
<1>3. newW \in [Def \X Def -> Map]
  BY ComposeType DEF Map
<1>4. newW[<<d, e>>] = IF d = k[1] THEN Compose(lost, cut.waw[<<k[2], e>>]) ELSE {}
  <2> HIDE DEF cut, lost
  <2> QED OBVIOUS
<1> HIDE DEF newW
<1>5. next \in Graph
  BY <1>2, <1>3, GrowWawFacts
<1>6. CASE lost = {}
  BY <1>1, <1>6
<1>7. CASE lost # {}
  <2>1. <<i, j>> \in next.waw[<<d, e>>]
    <3> HIDE DEF next
    <3> QED BY <1>1, <1>5, <1>7 DEF Graph
  <2> HIDE DEF cut
  <2>2. <<i, j>> \in cut.waw[<<d, e>>] \/ <<i, j>> \in newW[<<d, e>>]
    BY <1>2, <1>3, <2>1, GrowWawSound
  <2>3. \A x \in Def \X Def : cut.waw[x] \subseteq h.waw[x]
    BY <1>2 DEF Graph
  <2>4. <<d, e>> \in Def \X Def /\ <<k[2], e>> \in Def \X Def
    OBVIOUS
  <2>5. CASE <<i, j>> \in newW[<<d, e>>]
    <3>1. d = k[1] /\ <<i, j>> \in Compose(lost, cut.waw[<<k[2], e>>])
      BY <1>4, <2>5
    <3>2. PICK l \in Inst : <<i, l>> \in lost /\ <<l, j>> \in cut.waw[<<k[2], e>>]
      BY <3>1 DEF Compose
    <3> QED BY <2>3, <2>4, <3>1, <3>2 DEF LostRange
  <2> QED BY <2>2, <2>3, <2>4, <2>5
<1> QED BY <1>6, <1>7

(* The last phase finds no WAR edge to chain a lost RAW edge with. *)
LEMMA ShrinkRawRangeWaw ==
    ASSUME NEW h \in Graph, NEW k \in Def \X Use, NEW D,
           \A e \in Def : \A p \in h.war[<<k[2], e>>] : p[1] \in D
    PROVE  ShrinkRawRange(h, k, D).waw = h.waw
<1> DEFINE lost == LostRange(h.raw[k], D)
           cut  == [h EXCEPT !.raw[k] = @ \ lost]
           new  == [x \in Def \X Def |->
                      IF x[1] = k[1] THEN Compose(lost, cut.war[<<k[2], x[2]>>]) ELSE {}]
           next == GrowWaw(cut, new)
           r    == ShrinkRawRange(h, k, D)
<1>1. r = IF lost = {} THEN h ELSE [next EXCEPT !.used[k[1]] = Miss]
  BY DEF ShrinkRawRange
<1>2. cut \in Graph /\ cut.waw = h.waw /\ cut.war = h.war
  BY DEF Graph, Map
<1>3. ASSUME NEW x \in Def \X Def PROVE new[x] = {}
  <2>1. ASSUME NEW p \in Compose(lost, cut.war[<<k[2], x[2]>>]) PROVE FALSE
    <3>1. PICK l \in Inst : <<p[1], l>> \in lost /\ <<l, p[2]>> \in h.war[<<k[2], x[2]>>]
      BY <1>2, <2>1 DEF Compose
    <3>2. x[2] \in Def
      OBVIOUS
    <3>3. l \in D
      BY <3>1, <3>2
    <3> QED BY <3>1, <3>3 DEF LostRange
  <2>2. new[x] = IF x[1] = k[1] THEN Compose(lost, cut.war[<<k[2], x[2]>>]) ELSE {}
    OBVIOUS
  <2> HIDE DEF new
  <2> QED BY <2>1, <2>2
<1>4. new \in [Def \X Def -> Map]
  BY ComposeType DEF Map
<1> HIDE DEF new, cut
<1>5. next \in Graph /\ next.waw = [x \in Def \X Def |-> cut.waw[x] \cup new[x]]
  BY <1>2, <1>4, GrowWawFacts
<1> HIDE DEF next
<1>6. next.waw = h.waw
  <2>1. h.waw \in [Def \X Def -> Map]
    BY DEF Graph
  <2> QED BY <1>2, <1>3, <1>5, <2>1
<1>7. CASE lost = {}
  BY <1>1, <1>7
<1>8. CASE lost # {}
  BY <1>1, <1>5, <1>6, <1>8 DEF Graph
<1> QED BY <1>7, <1>8

-----------------------------------------------------------------------------
(* A visit leaves the domains alone, and the WAW edges but for its own phase. *)
LEMMA VisitFacts ==
    ASSUME EInv, op.phase \in 1..5, NEW k \in op.todo,
           NEW r, r = Shrink(g, op.def, Phases[op.phase], k)
    PROVE  r.dom = g.dom /\ (op.phase # 3 => r.waw = g.waw)
<1> DEFINE D == g.dom[op.def]
<1>1. g \in Graph /\ k \in KeysOf(g, op.def, op.phase) /\ op.def \in Def /\ IInv
  BY DEF EInv, GInv, IInv, TypeOK, TodoOK
<1>2. r.dom = g.dom
  <2>1. CASE op.phase \in {1, 2}
    BY <1>1, <2>1, VisitWar DEF VisitOK, SameNodes
  <2>2. CASE op.phase = 3
    BY <1>1, <2>2, VisitWaw DEF VisitOK, SameNodes
  <2>3. CASE op.phase \in {4, 5}
    BY <1>1, <2>3, VisitRaw DEF VisitOK, SameNodes
  <2> QED BY <2>1, <2>2, <2>3
<1> HIDE DEF D
<1>3. CASE op.phase = 1
  <2>1. r = ShrinkWarRange(g, k, D)
    BY <1>3 DEF Shrink, Phases, D
  <2> QED BY <1>1, <1>2, <2>1 DEF ShrinkWarRange, Graph
<1>4. CASE op.phase = 2
  <2>1. k \in Use \X Def /\ r = ShrinkWarDomain(g, k, D)
    BY <1>1, <1>4 DEF Shrink, Phases, KeysOf, D
  <2> QED BY <1>1, <1>2, <2>1 DEF ShrinkWarDomain, Graph
<1>5. CASE op.phase = 3
  BY <1>2, <1>5
<1>6. CASE op.phase = 4
  <2>1. k \in Def \X Use /\ k[1] = op.def /\ r = ShrinkRawDomain(g, k, D)
    BY <1>1, <1>6 DEF Shrink, Phases, KeysOf, D
  <2>2. k = <<k[1], k[2]>> /\ k[1] \in Def /\ k[2] \in Use
    BY <2>1, PairFacts
  <2>3. \A p \in g.raw[k] : p[1] \in D
    BY <2>1, <2>2 DEF EInv, GInv, IInv, RawStarts, D
  <2> QED BY <1>1, <1>2, <2>1, <2>3, ShrinkRawDomainFacts
<1>7. CASE op.phase = 5
  <2>1. k \in Def \X Use /\ k[2] \in g.ops[op.def] /\ r = ShrinkRawRange(g, k, D)
    BY <1>1, <1>7 DEF Shrink, Phases, KeysOf, D
  <2>2. k[2] \in Use /\ g.def[k[2]] = op.def
    BY <1>1, <2>1 DEF EInv, OpsOK
  <2>3. ASSUME NEW n \in Def, NEW p \in g.war[<<k[2], n>>] PROVE p[1] \in D
    <3>1. <<k[2], n>> \in Use \X Def
      BY <2>2
    <3> QED BY <1>7, <2>2, <3>1 DEF EInv, GInv, WarStarts, D
  <2> QED BY <1>1, <1>2, <2>1, <2>3, ShrinkRawRangeWaw
<1> QED BY <1>3, <1>4, <1>5, <1>6, <1>7

(* Whatever a visit does to the WAW edges, they relate overwrites. *)
LEMMA VisitSound ==
    ASSUME SInv, op.phase \in 1..5, NEW k \in op.todo,
           NEW r, r = Shrink(g, op.def, Phases[op.phase], k),
           NEW d \in Def, NEW e \in Def, NEW i \in Inst, NEW j \in Inst, <<i, j>> \in r.waw[<<d, e>>]
    PROVE  Overwrite(d, e, i, j)
<1> DEFINE D == g.dom[op.def]
<1>1. /\ g \in Graph /\ k \in KeysOf(g, op.def, op.phase) /\ op.def \in Def
      /\ IsScop(scop) /\ OneCell(scop) /\ op.def \in scop.affine
  BY DEF SInv, RInv, EInv, GInv, IInv, TypeOK, TodoOK, RestrictedAffine
<1>2. \A m, n \in Def : \A x, y \in Inst : <<x, y>> \in g.waw[<<m, n>>] => Overwrite(m, n, x, y)
  BY DEF SInv, WawSound
<1> HIDE DEF D
<1>3. CASE op.phase = 3
  <2> DEFINE out == IF k[1] = op.def THEN ShrinkWawDomain(g, k, D) ELSE g
  <2>1. k \in Def \X Def /\ r = IF k[2] = op.def THEN ShrinkWawRange(out, k, D) ELSE out
    BY <1>1, <1>3 DEF Shrink, ShrinkWaw, Phases, KeysOf, D
  <2>2. k = <<k[1], k[2]>> /\ k[1] \in Def /\ k[2] \in Def
    BY <2>1, PairFacts
  <2>3. out \in Graph
    BY <1>1, <2>1, ShrinkWawDomainFacts
  <2>4. ASSUME NEW m \in Def, NEW n \in Def, NEW x \in Inst, NEW y \in Inst, <<x, y>> \in out.waw[<<m, n>>]
        PROVE  Overwrite(m, n, x, y)
    <3>1. CASE k[1] = op.def
      <4>1. out = ShrinkWawDomain(g, k, D)
        BY <3>1
      <4>2. \/ <<x, y>> \in g.waw[<<m, n>>]
            \/ n = k[2] /\ \E l \in Inst : <<x, l>> \in g.waw[<<m, k[1]>>] /\ <<l, y>> \in g.waw[k]
        <5> HIDE DEF out
        <5> QED BY <1>1, <2>1, <2>4, <4>1, ShrinkWawDomainSound
      <4>3. CASE <<x, y>> \in g.waw[<<m, n>>]
        BY <1>2, <4>3
      <4>4. CASE n = k[2] /\ \E l \in Inst : <<x, l>> \in g.waw[<<m, k[1]>>] /\ <<l, y>> \in g.waw[k]
        <5>1. PICK l \in Inst : <<x, l>> \in g.waw[<<m, k[1]>>] /\ <<l, y>> \in g.waw[<<k[1], k[2]>>]
          BY <2>2, <4>4
        <5>2. Overwrite(m, k[1], x, l) /\ Overwrite(k[1], n, l, y)
          BY <1>2, <2>2, <4>4, <5>1
        <5> QED BY <1>1, <2>2, <3>1, <5>2, OverwriteChain
      <4> QED BY <4>2, <4>3, <4>4
    <3>2. CASE k[1] # op.def
      BY <1>2, <2>4, <3>2
    <3> QED BY <3>1, <3>2
  <2> HIDE DEF out
  <2>5. CASE k[2] = op.def
    <3>1. \/ <<i, j>> \in out.waw[<<d, e>>]
          \/ d = k[1] /\ \E l \in Inst : <<i, l>> \in out.waw[k] /\ <<l, j>> \in out.waw[<<k[2], e>>]
      BY <2>1, <2>3, <2>5, ShrinkWawRangeSound
    <3>2. CASE <<i, j>> \in out.waw[<<d, e>>]
      BY <2>4, <3>2
    <3>3. CASE d = k[1] /\ \E l \in Inst : <<i, l>> \in out.waw[k] /\ <<l, j>> \in out.waw[<<k[2], e>>]
      <4>1. PICK l \in Inst : <<i, l>> \in out.waw[<<k[1], k[2]>>] /\ <<l, j>> \in out.waw[<<k[2], e>>]
        BY <2>2, <3>3
      <4>2. Overwrite(d, k[2], i, l) /\ Overwrite(k[2], e, l, j)
        BY <2>2, <2>4, <3>3, <4>1
      <4> QED BY <1>1, <2>2, <2>5, <4>2, OverwriteChain
    <3> QED BY <3>1, <3>2, <3>3
  <2>6. CASE k[2] # op.def
    BY <2>1, <2>4, <2>6
  <2> QED BY <2>5, <2>6
<1>4. CASE op.phase # 3
  <2>1. r.waw = g.waw
    BY <1>4, VisitFacts DEF SInv, RInv
  <2> QED BY <1>2, <2>1
<1> QED BY <1>3, <1>4

-----------------------------------------------------------------------------
(* Whatever the step, the WAW edges relate overwrites. *)
LEMMA CheckBarrierSound ==
    ASSUME SInv, RInv', NEW d \in Def, CheckBarrier(d)
    PROVE  SInv'
<1> DEFINE asked == FillBarrier(g, d)
<1>1. g \in Graph /\ op' = op /\ scop' = scop
  BY DEF SInv, RInv, EInv, GInv, IInv, TypeOK, CheckBarrier
<1>2. asked \in Graph /\ asked.waw = g.waw
  BY <1>1, FillBarrierFacts
<1>3. g' = asked \/ g' = FillOver(asked, d)
  BY DEF CheckBarrier
<1> HIDE DEF asked
<1>4. g'.waw = g.waw
  BY <1>2, <1>3, FillOverFacts
<1>5. WawSound' /\ RestrictedAffine'
  BY <1>1, <1>4 DEF SInv, WawSound, Overwrite, RestrictedAffine
<1> QED BY <1>1, <1>5 DEF SInv

LEMMA RestrictStmtSound ==
    ASSUME SInv, RInv', NEW d \in Def, RestrictStmt(d)
    PROVE  SInv'
<1> DEFINE used  == FillUsed(g, d)
           asked == IF LiveOut(d) THEN FillOver(used, d) ELSE used
           next  == KeepInstances(asked, d, NeededDomain(d))
<1>1. g \in Graph /\ scop' = scop /\ must' = must /\ op = Idle /\ d \in scop.affine
  BY DEF SInv, RInv, EInv, GInv, IInv, TypeOK, RestrictStmt
<1>2. used \in Graph /\ used.waw = g.waw
  BY <1>1, FillUsedFacts
<1>3. \/ g' = asked /\ op' = op
      \/ g' = next /\ op' = [def |-> d, phase |-> 1, todo |-> EdgesOf(next, d, Phases[1])]
  BY DEF RestrictStmt
<1> HIDE DEF used
<1>4. asked \in Graph /\ asked.waw = g.waw
  BY <1>2, FillOverFacts
<1> HIDE DEF asked
<1>5. next.waw = g.waw
  BY <1>4 DEF KeepInstances, Graph
<1> HIDE DEF next
<1>6. g'.waw = g.waw /\ (op'.def = d \/ op'.phase = 0)
  BY <1>1, <1>3, <1>4, <1>5 DEF Idle
<1>7. WawSound' /\ RestrictedAffine'
  BY <1>1, <1>6 DEF SInv, WawSound, Overwrite, RestrictedAffine
<1> QED BY <1>1, <1>7 DEF SInv

LEMMA VisitEdgeSound ==
    ASSUME SInv, RInv', VisitEdge
    PROVE  SInv'
<1>1. PICK k \in op.todo : /\ g' = Shrink(g, op.def, Phases[op.phase], k)
                           /\ op' = [op EXCEPT !.todo = @ \ {k}]
  BY DEF VisitEdge
<1>2. scop' = scop /\ must' = must /\ op \in [def : Def \cup {NoDef}, phase : 0..5, todo : SUBSET EdgeKey]
      /\ (op.phase = 0 => op.todo = {})
  BY DEF SInv, RInv, EInv, GInv, IInv, TypeOK, TodoOK, VisitEdge
<1>3. op.phase \in 1..5 /\ op'.def = op.def /\ op'.phase = op.phase
  BY <1>1, <1>2
<1>4. WawSound'
  <2> SUFFICES ASSUME NEW d \in Def, NEW e \in Def, NEW i \in Inst, NEW j \in Inst,
                      <<i, j>> \in g'.waw[<<d, e>>]
               PROVE  Overwrite(d, e, i, j)
    BY <1>2 DEF WawSound, Overwrite
  <2> QED BY <1>1, <1>3, VisitSound
<1>5. RestrictedAffine'
  BY <1>2, <1>3 DEF SInv, RestrictedAffine
<1> QED BY <1>2, <1>4, <1>5 DEF SInv

LEMMA StepSound ==
    ASSUME SInv, [Next]_vars
    PROVE  SInv'
<1>1. RInv'
  BY StepReads DEF SInv
<1>2. ASSUME NEW d \in Def, CheckBarrier(d) PROVE SInv'
  BY <1>1, <1>2, CheckBarrierSound
<1>3. ASSUME NEW d \in Def, RestrictStmt(d) PROVE SInv'
  BY <1>1, <1>3, RestrictStmtSound
<1>4. CASE VisitEdge
  BY <1>1, <1>4, VisitEdgeSound
<1>5. CASE NextPhase
  <2>1. g' = g /\ scop' = scop /\ must' = must /\ op.phase # 0
        /\ op \in [def : Def \cup {NoDef}, phase : 0..5, todo : SUBSET EdgeKey]
    BY <1>5 DEF SInv, RInv, EInv, GInv, IInv, TypeOK, NextPhase
  <2>2. op'.phase = 0 \/ op'.def = op.def
    BY <1>5, <2>1 DEF NextPhase, Idle
  <2>3. WawSound' /\ RestrictedAffine'
    BY <2>1, <2>2 DEF SInv, WawSound, Overwrite, RestrictedAffine
  <2> QED BY <1>1, <2>1, <2>3 DEF SInv
<1>6. CASE UNCHANGED vars
  <2>1. g' = g /\ scop' = scop /\ must' = must /\ op' = op
    BY <1>6 DEF vars
  <2>2. WawSound' /\ RestrictedAffine'
    BY <2>1 DEF SInv, WawSound, Overwrite, RestrictedAffine
  <2> QED BY <1>1, <2>1, <2>2 DEF SInv
<1> QED BY <1>2, <1>3, <1>4, <1>5, <1>6 DEF Next

-----------------------------------------------------------------------------
(* Of finitely many writes one is the latest. *)
LEMMA Latest ==
    ASSUME IsScop(scop), NEW C \in SUBSET (Def \X Inst), C # {}
    PROVE  \E p \in C : \A q \in C : ~ (Time(p) < Time(q))
<1> DEFINE Later(p) == {q \in C : Time(p) < Time(q)}
           family   == {Later(p) : p \in C}
<1>1. IsFiniteSet(C)
  BY FiniteAssumption, FS_Product, FS_Subset
<1>2. family \subseteq FiniteSubsetsOf(C) /\ family # {}
  <2>1. \A p \in C : Later(p) \in SUBSET C
    OBVIOUS
  <2>2. \A p \in C : IsFiniteSet(Later(p))
    BY <1>1, <2>1, FS_Subset
  <2> QED BY <2>1, <2>2 DEF FiniteSubsetsOf
<1>3. IsWellFoundedOn(StrictSubsetOrdering(C), FiniteSubsetsOf(C))
  BY FS_StrictSubsetOrderingWellFounded
<1>4. PICK X \in family : \A Y \in family : ~ (<<Y, X>> \in StrictSubsetOrdering(C))
  <2> HIDE DEF family
  <2> QED BY <1>2, <1>3, WFMin
<1>5. PICK p \in C : X = Later(p)
  OBVIOUS
<1>6. ASSUME NEW q \in C, Time(p) < Time(q) PROVE FALSE
  <2>1. \A r \in C : Time(r) \in Nat
    BY DEF IsScop, Time
  <2>2. Later(q) \subseteq Later(p) /\ q \in Later(p) /\ q \notin Later(q)
    <3> HIDE DEF Time
    <3> QED BY <1>6, <2>1
  <2>3. Later(q) \in family /\ Later(q) \in SUBSET C /\ Later(p) \in SUBSET C
    OBVIOUS
  <2>4. <<Later(q), Later(p)>> \in StrictSubsetOrdering(C)
    <3> HIDE DEF Later
    <3> QED BY <2>2, <2>3 DEF StrictSubsetOrdering
  <2> QED BY <1>4, <1>5, <2>3, <2>4
<1> QED BY <1>6

-----------------------------------------------------------------------------
(***************************************************************************)
(* Why the order of the writes survives.  In the middle of a setDomain it  *)
(* is carried by the instances that exist and by those that are gone, as   *)
(* long as one of the edges at them is Pending, still to be visited: a     *)
(* visit continues what precedes the edge by the edge, or the edge by what *)
(* follows it.  Two writes of the statement to one cell can go at once, in *)
(* which case the edges on both sides and the one between are pending.     *)
(***************************************************************************)
Pending(d, e) == /\ op.phase \in 1..3
                 /\ op.def \in {d, e}
                 /\ op.phase = 3 => <<d, e>> \in op.todo

Gone == Inst \ g.dom[op.def]

Direct(S) ==
    \A p \in S : \A q \in Points : <<p[2], q[2]>> \in g.waw[<<p[1], q[1]>>] => q \in S

PastOne(S) ==
    \A p \in S : \A q \in Points : \A x \in Gone :
        /\ Pending(p[1], op.def) \/ Pending(op.def, q[1])
        /\ <<p[2], x>> \in g.waw[<<p[1], op.def>>]
        /\ <<x, q[2]>> \in g.waw[<<op.def, q[1]>>]
        => q \in S

PastTwo(S) ==
    \A p \in S : \A q \in Points : \A x, y \in Gone :
        /\ Pending(p[1], op.def) /\ Pending(op.def, op.def) /\ Pending(op.def, q[1])
        /\ <<p[2], x>> \in g.waw[<<p[1], op.def>>]
        /\ <<x, y>> \in g.waw[<<op.def, op.def>>]
        /\ <<y, q[2]>> \in g.waw[<<op.def, q[1]>>]
        => q \in S

Carried(S) == Direct(S) /\ (op.phase \in 1..3 => PastOne(S) /\ PastTwo(S))

SameCell(p, q) == Touches(p[1], p[2]) \cap Touches(q[1], q[2]) # {}

OrderKept ==
    \A S \in SUBSET Points : Carried(S) =>
        \A p \in S : \A q \in Points : SameCell(p, q) /\ Time(p) < Time(q) => q \in S

OrderKeptIfTwice == WritesTwiceAtMost(scop) => OrderKept

-----------------------------------------------------------------------------
(* Of finitely many writes one is the earliest. *)
LEMMA Earliest ==
    ASSUME IsScop(scop), NEW C \in SUBSET (Def \X Inst), C # {}
    PROVE  \E p \in C : \A q \in C : ~ (Time(q) < Time(p))
<1> DEFINE times == {Time(p) : p \in C}
<1>1. \A p \in C : Time(p) \in Nat
  BY DEF IsScop, Time
<1>2. times \subseteq Nat /\ times # {}
  BY <1>1
<1>3. PICK n \in times : \A m \in times : ~ (<<m, n>> \in OpToRel(<, Nat))
  <2> HIDE DEF times
  <2> QED BY <1>2, NatLessThanWellFounded, WFMin
<1>4. PICK p \in C : n = Time(p)
  OBVIOUS
<1>5. ASSUME NEW q \in C, Time(q) < Time(p) PROVE FALSE
  <2>1. Time(q) \in times /\ Time(q) \in Nat /\ Time(p) \in Nat
    BY <1>1
  <2>2. <<Time(q), n>> \in OpToRel(<, Nat)
    BY <1>4, <1>5, <2>1 DEF OpToRel
  <2> QED BY <1>3, <2>1, <2>2
<1> QED BY <1>5

(* An affine statement that writes a cell at most twice overwrites no overwrite. *)
LEMMA NoThirdWrite ==
    ASSUME IsScop(scop), OneCell(scop), WritesTwiceAtMost(scop),
           NEW d \in Def, d \in scop.affine, NEW i \in Inst, NEW l \in Inst, NEW j \in Inst,
           Overwrite(d, d, i, l), Overwrite(d, d, l, j)
    PROVE  FALSE
<1>1. PICK c \in scop.cells[d][i] : c \in scop.cells[d][l]
  BY DEF Overwrite
<1>2. PICK b \in scop.cells[d][l] : b \in scop.cells[d][j]
  BY DEF Overwrite
<1>3. b = c
  BY <1>1, <1>2 DEF OneCell
<1>4. scop.cells[d][i] \cap scop.cells[d][l] \cap scop.cells[d][j] # {}
  BY <1>1, <1>2, <1>3
<1>5. i \in scop.dom[d] /\ l \in scop.dom[d] /\ j \in scop.dom[d]
  BY DEF Overwrite
<1>6. i = l \/ i = j \/ l = j
  BY <1>4, <1>5 DEF WritesTwiceAtMost
<1>7. scop.time[d][i] \in Nat /\ scop.time[d][l] \in Nat /\ scop.time[d][j] \in Nat
  BY DEF IsScop
<1>8. scop.time[d][i] < scop.time[d][l] /\ scop.time[d][l] < scop.time[d][j]
  BY DEF Overwrite
<1> QED BY <1>6, <1>7, <1>8

(***************************************************************************)
(* The dependence analysis orders the writes to a cell: of those that come *)
(* after p and are not reached the earliest follows directly on the latest *)
(* before it that is.                                                      *)
(***************************************************************************)
LEMMA InitOrder ==
    ASSUME Init
    PROVE  OrderKept
<1>1. IsScop(scop) /\ g = CreateDependenceGraph(scop) /\ op = Idle
  BY ScopsAssumption DEF Init
<1>2. g.dom = scop.dom /\ g.waw = WAW(scop)
  BY <1>1, CreateFacts
<1> SUFFICES ASSUME NEW S \in SUBSET Points, Direct(S), NEW p \in S, NEW q \in Points,
                    SameCell(p, q), Time(p) < Time(q), q \notin S
             PROVE  FALSE
  BY DEF OrderKept, Carried
<1>3. PICK c \in Touches(p[1], p[2]) : c \in Touches(q[1], q[2])
  BY DEF SameCell
<1> DEFINE missed == {x \in Points : /\ c \in Touches(x[1], x[2]) /\ Time(p) < Time(x)
                                     /\ x \notin S}
<1>4. missed \in SUBSET (Def \X Inst) /\ q \in missed
  BY <1>3 DEF Points
<1>5. PICK y \in missed : \A x \in missed : ~ (Time(x) < Time(y))
  <2> HIDE DEF missed
  <2> QED BY <1>1, <1>4, Earliest
<1> DEFINE before == {x \in S : c \in Touches(x[1], x[2]) /\ Time(x) < Time(y)}
<1>6. before \in SUBSET (Def \X Inst) /\ p \in before
  BY <1>3, <1>5 DEF Points
<1>7. PICK w \in before : \A x \in before : ~ (Time(w) < Time(x))
  <2> HIDE DEF before
  <2> QED BY <1>1, <1>6, Latest
<1>8. \A x \in Points : /\ x = <<x[1], x[2]>> /\ x[1] \in Def /\ x[2] \in Inst
                        /\ x[2] \in scop.dom[x[1]] /\ Time(x) \in Nat
  BY <1>1, <1>2 DEF Points, Time, IsScop
<1>9. ~ Overwritten(scop, c, Time(w), Time(y))
  <2> SUFFICES ASSUME NEW d \in Def, NEW i \in scop.dom[d], c \in scop.cells[d][i],
                      Time(w) < scop.time[d][i], scop.time[d][i] < Time(y)
               PROVE  FALSE
    BY DEF Overwritten
  <2> DEFINE x == <<d, i>>
  <2>1. i \in Inst /\ x \in Points
    BY <1>1, <1>2 DEF IsScop, Points
  <2>2. c \in Touches(x[1], x[2]) /\ Time(w) < Time(x) /\ Time(x) < Time(y)
    BY DEF Touches, Time
  <2>3. w \in Points /\ p \in Points /\ y \in Points
    OBVIOUS
  <2> HIDE DEF x
  <2>4. CASE x \in S
    BY <1>7, <2>2, <2>4
  <2>5. CASE x \notin S
    <3>1. ~ (Time(w) < Time(p)) /\ Time(w) \in Nat /\ Time(p) \in Nat /\ Time(x) \in Nat
      BY <1>6, <1>7, <1>8, <2>1, <2>3
    <3>2. Time(p) < Time(x)
      <4> HIDE DEF Time
      <4> QED BY <2>2, <3>1
    <3> QED BY <1>5, <2>1, <2>2, <2>5, <3>2
  <2> QED BY <2>4, <2>5
<1>10. w \in S /\ w \in Points /\ y \in Points /\ y \notin S
       /\ Time(w) < Time(y) /\ c \in Touches(w[1], w[2]) /\ c \in Touches(y[1], y[2])
  OBVIOUS
<1> HIDE DEF missed, before
<1>11. <<w[2], y[2]>> \in Flow(scop, w[1], w[1], y[1], y[1])
  BY <1>8, <1>9, <1>10 DEF Flow, Time, Touches
<1>12. <<w[2], y[2]>> \in g.waw[<<w[1], y[1]>>]
  <2>1. <<w[1], y[1]>> \in Def \X Def
    BY <1>8, <1>10
  <2>2. g.waw[<<w[1], y[1]>>] = Flow(scop, w[1], w[1], y[1], y[1])
    BY <1>2, <2>1 DEF WAW
  <2> QED BY <1>11, <2>2
<1> QED BY <1>10, <1>12 DEF Direct

-----------------------------------------------------------------------------
(***************************************************************************)
(* Cutting the WAW edge from d to e loses the pairs that start outside D   *)
(* and continues, by the lost ones, what leads to d.                       *)
(***************************************************************************)
DomainCut(h, r, d, e, D) ==
    /\ \A m, n \in Def : \A i, j \in Inst :
          <<i, j>> \in h.waw[<<m, n>>] /\ (<<m, n>> = <<d, e>> => i \in D)
              => <<i, j>> \in r.waw[<<m, n>>]
    /\ \A m \in Def : \A i, l, j \in Inst :
          /\ <<i, l>> \in h.waw[<<m, d>>] /\ (<<m, d>> = <<d, e>> => i \in D)
          /\ <<l, j>> \in h.waw[<<d, e>>] /\ l \notin D
          => <<i, j>> \in r.waw[<<m, e>>]

LEMMA ShrinkWawDomainKeeps ==
    ASSUME NEW h \in Graph, NEW d \in Def, NEW e \in Def, NEW D,
           NEW r, r = ShrinkWawDomain(h, <<d, e>>, D)
    PROVE  DomainCut(h, r, d, e, D)
<1> DEFINE k    == <<d, e>>
           lost == LostDomain(h.waw[k], D)
           cut  == [h EXCEPT !.waw[k] = @ \ lost]
           newW == [x \in Def \X Def |->
                      IF x[2] = k[2] THEN Compose(cut.waw[<<x[1], k[1]>>], lost) ELSE {}]
           past == GrowWaw(cut, newW)
           newR == [x \in Use \X Def |->
                      IF x[2] = k[2] THEN Compose(past.war[x[1], k[1]], lost) ELSE {}]
           ante == GrowWar(past, newR)
<1>1. r = IF lost = {} THEN h ELSE [ante EXCEPT !.over[k[1]] = Miss]
  BY DEF ShrinkWawDomain
<1>2. cut \in Graph /\ cut.waw = [h.waw EXCEPT ![k] = @ \ lost] /\ h.waw \in [Def \X Def -> Map]
  BY DEF Graph, Map
<1>3. newW \in [Def \X Def -> Map] /\ newR \in [Use \X Def -> Map]
  BY ComposeType DEF Map
<1>4. \A m \in Def : newW[<<m, e>>] = Compose(cut.waw[<<m, d>>], lost)
  <2> HIDE DEF cut, lost
  <2> QED OBVIOUS
<1>5. k \in Def \X Def /\ \A m, n \in Def : <<m, n>> \in Def \X Def
  OBVIOUS
<1>6. \A m, n \in Def : \A i, j \in Inst :
          <<i, j>> \in h.waw[<<m, n>>] /\ (<<m, n>> = <<d, e>> => i \in D) => <<i, j>> \in cut.waw[<<m, n>>]
  <2> SUFFICES ASSUME NEW m \in Def, NEW n \in Def, NEW i \in Inst, NEW j \in Inst,
                      <<i, j>> \in h.waw[<<m, n>>], <<m, n>> = <<d, e>> => i \in D
               PROVE  <<i, j>> \in cut.waw[<<m, n>>]
    OBVIOUS
  <2>1. CASE <<m, n>> = k
    <3>1. cut.waw[<<m, n>>] = h.waw[k] \ lost
      BY <1>2, <1>5, <2>1
    <3> QED BY <2>1, <3>1 DEF LostDomain
  <2>2. CASE <<m, n>> # k
    <3>1. cut.waw[<<m, n>>] = h.waw[<<m, n>>]
      BY <1>2, <1>5, <2>2
    <3> QED BY <3>1
  <2> QED BY <2>1, <2>2
<1> HIDE DEF cut, newW, newR
<1>7. past \in Graph /\ past.waw = [x \in Def \X Def |-> cut.waw[x] \cup newW[x]]
  BY <1>2, <1>3, GrowWawFacts
<1> HIDE DEF past
<1>8. ante \in Graph /\ ante.waw = past.waw
  BY <1>3, <1>7, GrowWarFacts
<1> HIDE DEF ante
<1>9. CASE lost = {}
  <2>1. r = h
    BY <1>1, <1>9
  <2>2. \A l, j \in Inst : <<l, j>> \in h.waw[<<d, e>>] => l \in D
    BY <1>9 DEF LostDomain
  <2>3. ASSUME NEW m \in Def, NEW i \in Inst, NEW l \in Inst, NEW j \in Inst,
               <<l, j>> \in h.waw[<<d, e>>], l \notin D
        PROVE  FALSE
    BY <2>2, <2>3
  <2> HIDE DEF k, lost
  <2> QED BY <2>1, <2>3 DEF DomainCut
<1>10. CASE lost # {}
  <2>1. \A m, n \in Def : r.waw[<<m, n>>] = cut.waw[<<m, n>>] \cup newW[<<m, n>>]
    BY <1>1, <1>5, <1>7, <1>8, <1>10 DEF Graph
  <2>2. ASSUME NEW m \in Def, NEW i \in Inst, NEW l \in Inst, NEW j \in Inst,
               <<i, l>> \in cut.waw[<<m, d>>], <<l, j>> \in h.waw[<<d, e>>], l \notin D
        PROVE  <<i, j>> \in r.waw[<<m, e>>]
    <3>1. <<l, j>> \in lost
      BY <2>2 DEF LostDomain
    <3> HIDE DEF lost
    <3>2. <<i, j>> \in Compose(cut.waw[<<m, d>>], lost)
      BY <2>2, <3>1 DEF Compose
    <3> QED BY <1>4, <2>1, <3>2
  <2> HIDE DEF lost, k
  <2>3. ASSUME NEW m \in Def, NEW n \in Def, NEW i \in Inst, NEW j \in Inst,
               <<i, j>> \in h.waw[<<m, n>>], <<m, n>> = <<d, e>> => i \in D
        PROVE  <<i, j>> \in r.waw[<<m, n>>]
    <3>1. <<i, j>> \in cut.waw[<<m, n>>]
      BY <1>6, <2>3
    <3> QED BY <2>1, <3>1
  <2>4. ASSUME NEW m \in Def, NEW i \in Inst, NEW l \in Inst, NEW j \in Inst,
               <<i, l>> \in h.waw[<<m, d>>], <<m, d>> = <<d, e>> => i \in D,
               <<l, j>> \in h.waw[<<d, e>>], l \notin D
        PROVE  <<i, j>> \in r.waw[<<m, e>>]
    <3>1. <<i, l>> \in cut.waw[<<m, d>>]
      BY <1>6, <2>4
    <3> QED BY <2>2, <2>4, <3>1
  <2> QED BY <2>3, <2>4 DEF DomainCut
<1> QED BY <1>9, <1>10

(***************************************************************************)
(* Cutting it at its end loses the pairs that end outside D and continues  *)
(* the lost ones by what e leads to.                                       *)
(***************************************************************************)
RangeCut(h, r, d, e, D) ==
    /\ \A m, n \in Def : \A i, j \in Inst :
          <<i, j>> \in h.waw[<<m, n>>] /\ (<<m, n>> = <<d, e>> => j \in D)
              => <<i, j>> \in r.waw[<<m, n>>]
    /\ \A n \in Def : \A i, l, j \in Inst :
          /\ <<i, l>> \in h.waw[<<d, e>>] /\ l \notin D
          /\ <<l, j>> \in h.waw[<<e, n>>] /\ (<<e, n>> = <<d, e>> => j \in D)
          => <<i, j>> \in r.waw[<<d, n>>]

LEMMA ShrinkWawRangeKeeps ==
    ASSUME NEW h \in Graph, NEW d \in Def, NEW e \in Def, NEW D,
           NEW r, r = ShrinkWawRange(h, <<d, e>>, D)
    PROVE  RangeCut(h, r, d, e, D)
<1> DEFINE k    == <<d, e>>
           lost == LostRange(h.waw[k], D)
           cut  == [h EXCEPT !.waw[k] = @ \ lost]
           newW == [x \in Def \X Def |->
                      IF x[1] = k[1] THEN Compose(lost, cut.waw[<<k[2], x[2]>>]) ELSE {}]
           next == GrowWaw(cut, newW)
<1>1. r = IF lost = {} THEN h ELSE [next EXCEPT !.over[k[1]] = Miss]
  BY DEF ShrinkWawRange
<1>2. cut \in Graph /\ cut.waw = [h.waw EXCEPT ![k] = @ \ lost] /\ h.waw \in [Def \X Def -> Map]
  BY DEF Graph, Map
<1>3. newW \in [Def \X Def -> Map]
  BY ComposeType DEF Map
<1>4. \A n \in Def : newW[<<d, n>>] = Compose(lost, cut.waw[<<e, n>>])
  <2> HIDE DEF cut, lost
  <2> QED OBVIOUS
<1>5. k \in Def \X Def /\ \A m, n \in Def : <<m, n>> \in Def \X Def
  OBVIOUS
<1>6. \A m, n \in Def : \A i, j \in Inst :
          <<i, j>> \in h.waw[<<m, n>>] /\ (<<m, n>> = <<d, e>> => j \in D) => <<i, j>> \in cut.waw[<<m, n>>]
  <2> SUFFICES ASSUME NEW m \in Def, NEW n \in Def, NEW i \in Inst, NEW j \in Inst,
                      <<i, j>> \in h.waw[<<m, n>>], <<m, n>> = <<d, e>> => j \in D
               PROVE  <<i, j>> \in cut.waw[<<m, n>>]
    OBVIOUS
  <2>1. CASE <<m, n>> = k
    <3>1. cut.waw[<<m, n>>] = h.waw[k] \ lost
      BY <1>2, <1>5, <2>1
    <3> QED BY <2>1, <3>1 DEF LostRange
  <2>2. CASE <<m, n>> # k
    <3>1. cut.waw[<<m, n>>] = h.waw[<<m, n>>]
      BY <1>2, <1>5, <2>2
    <3> QED BY <3>1
  <2> QED BY <2>1, <2>2
<1> HIDE DEF cut, newW
<1>7. next \in Graph /\ next.waw = [x \in Def \X Def |-> cut.waw[x] \cup newW[x]]
  BY <1>2, <1>3, GrowWawFacts
<1> HIDE DEF next
<1>8. CASE lost = {}
  <2>1. r = h
    BY <1>1, <1>8
  <2>2. \A i, l \in Inst : <<i, l>> \in h.waw[<<d, e>>] => l \in D
    BY <1>8 DEF LostRange
  <2>3. ASSUME NEW n \in Def, NEW i \in Inst, NEW l \in Inst, NEW j \in Inst,
               <<i, l>> \in h.waw[<<d, e>>], l \notin D
        PROVE  FALSE
    BY <2>2, <2>3
  <2> HIDE DEF k, lost
  <2> QED BY <2>1, <2>3 DEF RangeCut
<1>9. CASE lost # {}
  <2>1. \A m, n \in Def : r.waw[<<m, n>>] = cut.waw[<<m, n>>] \cup newW[<<m, n>>]
    BY <1>1, <1>5, <1>7, <1>9 DEF Graph
  <2>2. ASSUME NEW n \in Def, NEW i \in Inst, NEW l \in Inst, NEW j \in Inst,
               <<l, j>> \in cut.waw[<<e, n>>], <<i, l>> \in h.waw[<<d, e>>], l \notin D
        PROVE  <<i, j>> \in r.waw[<<d, n>>]
    <3>1. <<i, l>> \in lost
      BY <2>2 DEF LostRange
    <3> HIDE DEF lost
    <3>2. <<i, j>> \in Compose(lost, cut.waw[<<e, n>>])
      BY <2>2, <3>1 DEF Compose
    <3> QED BY <1>4, <2>1, <3>2
  <2> HIDE DEF lost, k
  <2>3. ASSUME NEW m \in Def, NEW n \in Def, NEW i \in Inst, NEW j \in Inst,
               <<i, j>> \in h.waw[<<m, n>>], <<m, n>> = <<d, e>> => j \in D
        PROVE  <<i, j>> \in r.waw[<<m, n>>]
    <3>1. <<i, j>> \in cut.waw[<<m, n>>]
      BY <1>6, <2>3
    <3> QED BY <2>1, <3>1
  <2>4. ASSUME NEW n \in Def, NEW i \in Inst, NEW l \in Inst, NEW j \in Inst,
               <<i, l>> \in h.waw[<<d, e>>], l \notin D,
               <<l, j>> \in h.waw[<<e, n>>], <<e, n>> = <<d, e>> => j \in D
        PROVE  <<i, j>> \in r.waw[<<d, n>>]
    <3>1. <<l, j>> \in cut.waw[<<e, n>>]
      BY <1>6, <2>4
    <3> QED BY <2>2, <2>4, <3>1
  <2> QED BY <2>3, <2>4 DEF RangeCut
<1> QED BY <1>8, <1>9

-----------------------------------------------------------------------------
(***************************************************************************)
(* What the visit of the WAW edge from d to e leaves in the setDomain of   *)
(* c, D being what is left of its domain: every pair but those of the      *)
(* edge, and of them those that do not start, or end, in a deleted         *)
(* instance of c; and past such an instance the pairs through it.          *)
(***************************************************************************)
WawCut(h, r, c, D, d, e) ==
    /\ \A m, n \in Def : \A i, j \in Inst :
          /\ <<i, j>> \in h.waw[<<m, n>>]
          /\ \/ <<m, n>> # <<d, e>>
             \/ (m = c => i \in D) /\ (n = c => j \in D)
          => <<i, j>> \in r.waw[<<m, n>>]
    /\ \A m, n \in Def : \A i, x, j \in Inst :
          /\ <<i, x>> \in h.waw[<<m, c>>] /\ <<x, j>> \in h.waw[<<c, n>>] /\ x \notin D
          /\ (m = c => i \in D) /\ (n = c => j \in D)
          /\ <<d, e>> = <<m, c>> \/ <<d, e>> = <<c, n>>
          => <<i, j>> \in r.waw[<<m, n>>]

LEMMA ShrinkWawKeeps ==
    ASSUME NEW h \in Graph, NEW c \in Def, NEW d \in Def, NEW e \in Def,
           NEW r, r = ShrinkWaw(h, c, <<d, e>>)
    PROVE  WawCut(h, r, c, h.dom[c], d, e)
<1> DEFINE D   == h.dom[c]
           out == IF d = c THEN ShrinkWawDomain(h, <<d, e>>, D) ELSE h
<1>1. r = IF e = c THEN ShrinkWawRange(out, <<d, e>>, D) ELSE out
  BY DEF ShrinkWaw
<1>2. out \in Graph
  <2>1. <<d, e>> \in Def \X Def
    OBVIOUS
  <2> QED BY <2>1, ShrinkWawDomainFacts
<1>3. ASSUME NEW m \in Def, NEW n \in Def, NEW i \in Inst, NEW j \in Inst,
             <<i, j>> \in h.waw[<<m, n>>], <<m, n>> = <<d, e>> => (m = c => i \in D)
      PROVE  <<i, j>> \in out.waw[<<m, n>>]
  <2>1. CASE d = c
    <3>1. out = ShrinkWawDomain(h, <<d, e>>, D)
      BY <2>1
    <3>2. <<m, n>> = <<d, e>> => i \in D
      BY <1>3, <2>1
    <3> HIDE DEF out, D
    <3>3. DomainCut(h, out, d, e, D)
      BY <3>1, ShrinkWawDomainKeeps
    <3> QED BY <1>3, <3>2, <3>3 DEF DomainCut
  <2>2. CASE d # c
    BY <1>3, <2>2
  <2> QED BY <2>1, <2>2
<1>4. ASSUME NEW m \in Def, NEW i \in Inst, NEW x \in Inst, NEW j \in Inst, d = c,
             <<i, x>> \in h.waw[<<m, c>>], m = c => i \in D,
             <<x, j>> \in h.waw[<<d, e>>], x \notin D
      PROVE  <<i, j>> \in out.waw[<<m, e>>]
  <2>1. out = ShrinkWawDomain(h, <<d, e>>, D)
    BY <1>4
  <2>2. <<m, d>> = <<d, e>> => i \in D
    BY <1>4
  <2> HIDE DEF out, D
  <2>3. DomainCut(h, out, d, e, D)
    BY <2>1, ShrinkWawDomainKeeps
  <2>4. <<i, x>> \in h.waw[<<m, d>>]
    BY <1>4
  <2> QED BY <1>4, <2>2, <2>3, <2>4 DEF DomainCut
<1>5. ASSUME NEW m \in Def, NEW n \in Def, NEW i \in Inst, NEW j \in Inst,
             <<i, j>> \in out.waw[<<m, n>>], <<m, n>> = <<d, e>> => (n = c => j \in D)
      PROVE  <<i, j>> \in r.waw[<<m, n>>]
  <2> HIDE DEF out
  <2>1. CASE e = c
    <3>1. r = ShrinkWawRange(out, <<d, e>>, D)
      BY <1>1, <2>1
    <3>2. <<m, n>> = <<d, e>> => j \in D
      BY <1>5, <2>1
    <3> HIDE DEF D
    <3>3. RangeCut(out, r, d, e, D)
      BY <1>2, <3>1, ShrinkWawRangeKeeps
    <3> QED BY <1>5, <3>2, <3>3 DEF RangeCut
  <2>2. CASE e # c
    BY <1>1, <1>5, <2>2
  <2> QED BY <2>1, <2>2
<1>6. ASSUME NEW n \in Def, NEW i \in Inst, NEW x \in Inst, NEW j \in Inst, e = c,
             <<i, x>> \in out.waw[<<d, e>>], x \notin D,
             <<x, j>> \in out.waw[<<c, n>>], <<c, n>> # <<d, e>>
      PROVE  <<i, j>> \in r.waw[<<d, n>>]
  <2> HIDE DEF out
  <2>1. r = ShrinkWawRange(out, <<d, e>>, D)
    BY <1>1, <1>6
  <2>2. <<x, j>> \in out.waw[<<e, n>>] /\ <<e, n>> # <<d, e>>
    BY <1>6
  <2> HIDE DEF D
  <2>3. RangeCut(out, r, d, e, D)
    BY <1>2, <2>1, ShrinkWawRangeKeeps
  <2> QED BY <1>6, <2>2, <2>3 DEF RangeCut
<1> HIDE DEF D, out
<1>7. ASSUME NEW m \in Def, NEW n \in Def, NEW i \in Inst, NEW j \in Inst,
             <<i, j>> \in h.waw[<<m, n>>],
             <<m, n>> # <<d, e>> \/ ((m = c => i \in D) /\ (n = c => j \in D))
      PROVE  <<i, j>> \in r.waw[<<m, n>>]
  <2>1. <<i, j>> \in out.waw[<<m, n>>]
    BY <1>3, <1>7
  <2> QED BY <1>5, <1>7, <2>1
<1>8. ASSUME NEW m \in Def, NEW n \in Def, NEW i \in Inst, NEW x \in Inst, NEW j \in Inst,
             <<i, x>> \in h.waw[<<m, c>>], <<x, j>> \in h.waw[<<c, n>>], x \notin D,
             m = c => i \in D, n = c => j \in D,
             <<d, e>> = <<m, c>> \/ <<d, e>> = <<c, n>>
      PROVE  <<i, j>> \in r.waw[<<m, n>>]
  <2>1. CASE <<d, e>> = <<c, n>>
    <3>1. d = c /\ e = n
      BY <2>1
    <3>2. <<i, j>> \in out.waw[<<m, n>>]
      BY <1>4, <1>8, <3>1
    <3> QED BY <1>5, <1>8, <3>2
  <2>2. CASE <<d, e>> = <<m, c>> /\ <<d, e>> # <<c, n>>
    <3>1. d = m /\ e = c
      BY <2>2
    <3>2. <<i, x>> \in out.waw[<<d, e>>]
      BY <1>3, <1>8, <3>1
    <3>3. <<x, j>> \in out.waw[<<c, n>>]
      BY <1>3, <1>8, <2>2
    <3>4. <<i, j>> \in r.waw[<<d, n>>]
      BY <1>6, <1>8, <2>2, <3>1, <3>2, <3>3
    <3> QED BY <3>1, <3>4
  <2> QED BY <1>8, <2>1, <2>2
<1>9. WawCut(h, r, c, D, d, e)
  BY <1>7, <1>8 DEF WawCut
<1> QED BY <1>9 DEF D

(***************************************************************************)
(* Past two deleted instances of c the visit of any of the three edges     *)
(* leaves a way past one of them.                                          *)
(***************************************************************************)
WawCutTwice(h, r, c, D, d, e) ==
    \A m, n \in Def : \A i, x, y, j \in Inst :
        /\ m # c /\ n # c /\ x \notin D /\ y \notin D
        /\ <<i, x>> \in h.waw[<<m, c>>] /\ <<x, y>> \in h.waw[<<c, c>>] /\ <<y, j>> \in h.waw[<<c, n>>]
        => /\ <<d, e>> \in {<<c, c>>, <<m, c>>} => <<i, y>> \in r.waw[<<m, c>>]
           /\ <<d, e>> = <<c, n>> => <<x, j>> \in r.waw[<<c, n>>]

LEMMA ShrinkWawKeepsTwo ==
    ASSUME NEW h \in Graph, NEW c \in Def, NEW d \in Def, NEW e \in Def,
           NEW r, r = ShrinkWaw(h, c, <<d, e>>)
    PROVE  WawCutTwice(h, r, c, h.dom[c], d, e)
<1> SUFFICES ASSUME NEW m \in Def, NEW n \in Def, m # c, n # c,
                    NEW i \in Inst, NEW x \in Inst, NEW y \in Inst, NEW j \in Inst,
                    x \notin h.dom[c], y \notin h.dom[c],
                    <<i, x>> \in h.waw[<<m, c>>], <<x, y>> \in h.waw[<<c, c>>],
                    <<y, j>> \in h.waw[<<c, n>>]
             PROVE  /\ <<d, e>> \in {<<c, c>>, <<m, c>>} => <<i, y>> \in r.waw[<<m, c>>]
                    /\ <<d, e>> = <<c, n>> => <<x, j>> \in r.waw[<<c, n>>]
  BY DEF WawCutTwice
<1> DEFINE D   == h.dom[c]
           out == IF d = c THEN ShrinkWawDomain(h, <<d, e>>, D) ELSE h
<1>1. r = IF e = c THEN ShrinkWawRange(out, <<d, e>>, D) ELSE out
  BY DEF ShrinkWaw
<1>2. out \in Graph
  <2>1. <<d, e>> \in Def \X Def
    OBVIOUS
  <2> QED BY <2>1, ShrinkWawDomainFacts
<1>3. CASE <<d, e>> = <<c, c>>
  <2>1. out = ShrinkWawDomain(h, <<c, c>>, D) /\ r = ShrinkWawRange(out, <<c, c>>, D)
    BY <1>1, <1>3
  <2>2. <<m, c>> # <<c, c>> /\ x \notin D /\ <<d, e>> # <<c, n>>
    BY <1>3
  <2> HIDE DEF out, D
  <2>3. DomainCut(h, out, c, c, D) /\ RangeCut(out, r, c, c, D)
    BY <1>2, <2>1, ShrinkWawDomainKeeps, ShrinkWawRangeKeeps
  <2>4. <<i, y>> \in out.waw[<<m, c>>]
    BY <2>2, <2>3 DEF DomainCut
  <2>5. <<i, y>> \in r.waw[<<m, c>>]
    BY <2>2, <2>3, <2>4 DEF RangeCut
  <2> QED BY <2>2, <2>5
<1>4. CASE <<d, e>> = <<m, c>>
  <2>1. out = h /\ r = ShrinkWawRange(h, <<m, c>>, D)
    BY <1>1, <1>4
  <2>2. <<c, c>> # <<m, c>> /\ x \notin D /\ <<d, e>> # <<c, n>>
    BY <1>4
  <2> HIDE DEF out, D
  <2>3. RangeCut(h, r, m, c, D)
    BY <2>1, ShrinkWawRangeKeeps
  <2>4. <<i, y>> \in r.waw[<<m, c>>]
    BY <2>2, <2>3 DEF RangeCut
  <2> QED BY <2>2, <2>4
<1>5. CASE <<d, e>> = <<c, n>>
  <2>1. r = ShrinkWawDomain(h, <<c, n>>, D)
    BY <1>1, <1>5
  <2>2. <<c, c>> # <<c, n>> /\ y \notin D /\ <<d, e>> \notin {<<c, c>>, <<m, c>>}
    BY <1>5
  <2> HIDE DEF out, D
  <2>3. DomainCut(h, r, c, n, D)
    BY <2>1, ShrinkWawDomainKeeps
  <2>4. <<x, j>> \in r.waw[<<c, n>>]
    BY <2>2, <2>3 DEF DomainCut
  <2> QED BY <2>2, <2>4
<1> QED BY <1>3, <1>4, <1>5

-----------------------------------------------------------------------------
(* What carries the order after the step carried it before. *)
LEMMA OrderStep ==
    ASSUME OrderKept, scop' = scop, g'.dom = g.dom,
           \A S \in SUBSET Points : Carried(S)' => Carried(S)
    PROVE  OrderKept'
<1>1. Points' = Points
  BY DEF Points
<1>2. \A p, q : SameCell(p, q)' = SameCell(p, q)
  BY DEF SameCell, Touches
<1>3. \A p : Time(p)' = Time(p)
  BY DEF Time
<1> SUFFICES ASSUME NEW S \in SUBSET Points, Carried(S)', NEW p \in S, NEW q \in Points,
                    SameCell(p, q), Time(p) < Time(q)
             PROVE  q \in S
  BY <1>1, <1>2, <1>3 DEF OrderKept
<1> QED BY DEF OrderKept

(* A visit of a WAW edge: by what the edge leaves behind, and what it continues. *)
LEMMA VisitWawCarried ==
    ASSUME SInv, WritesTwiceAtMost(scop), VisitEdge, op.phase = 3,
           NEW S \in SUBSET Points, Carried(S)'
    PROVE  Carried(S)
<1>0. PICK c \in Def : c = op.def
  BY DEF SInv, RInv, EInv, GInv, IInv, TypeOK
<1> DEFINE D == g.dom[c]
<1>1. PICK k \in op.todo : /\ g' = Shrink(g, op.def, Phases[op.phase], k)
                           /\ op' = [op EXCEPT !.todo = @ \ {k}]
  BY DEF VisitEdge
<1>2. /\ g \in Graph /\ c \in scop.affine /\ IsScop(scop) /\ OneCell(scop)
      /\ op \in [def : Def \cup {NoDef}, phase : 0..5, todo : SUBSET EdgeKey]
      /\ op.todo \subseteq Def \X Def
  BY <1>0 DEF SInv, RInv, EInv, GInv, IInv, TypeOK, TodoOK, RestrictedAffine, KeysOf
<1>3. PICK d \in Def, e \in Def : k = <<d, e>>
  BY <1>2
<1>4. g' = ShrinkWaw(g, c, <<d, e>>)
  BY <1>0, <1>1, <1>3 DEF Shrink, Phases
<1>5. op'.def = c /\ op'.phase = 3 /\ op'.todo = op.todo \ {<<d, e>>}
  BY <1>0, <1>1, <1>2, <1>3
<1>6. g'.dom = g.dom
  BY <1>1, VisitFacts DEF SInv, RInv
<1>7. Points' = Points /\ Gone' = Gone /\ Gone = {x \in Inst : x \notin D}
  BY <1>0, <1>5, <1>6 DEF Points, Gone
<1>8. \A m, n \in Def : Pending(m, n) => Pending(m, n)' \/ <<m, n>> = <<d, e>>
  BY <1>0, <1>5 DEF Pending
<1>9. \A p \in Points : p = <<p[1], p[2]>> /\ p[1] \in Def /\ p[2] \in Inst /\ p[2] \in g.dom[p[1]]
                        /\ (p[1] = c => p[2] \in D)
  BY DEF Points
<1> HIDE DEF D
<1>10. WawCut(g, g', c, D, d, e)
  BY <1>2, <1>4, ShrinkWawKeeps DEF D
<1>11. WawCutTwice(g, g', c, D, d, e)
  BY <1>2, <1>4, ShrinkWawKeepsTwo DEF D
<1>12. Direct(S)' /\ PastOne(S)' /\ PastTwo(S)'
  BY <1>5 DEF Carried
<1>13. ASSUME NEW p \in S, NEW q \in Points, <<p[2], q[2]>> \in g'.waw[<<p[1], q[1]>>] PROVE q \in S
  BY <1>7, <1>12, <1>13 DEF Direct
<1>14. ASSUME NEW p \in S, NEW q \in Points, NEW x \in Gone,
              Pending(p[1], c)' \/ Pending(c, q[1])',
              <<p[2], x>> \in g'.waw[<<p[1], c>>], <<x, q[2]>> \in g'.waw[<<c, q[1]>>]
       PROVE  q \in S
  BY <1>5, <1>7, <1>12, <1>14 DEF PastOne
<1>15. Direct(S)
  <2> SUFFICES ASSUME NEW p \in S, NEW q \in Points, <<p[2], q[2]>> \in g.waw[<<p[1], q[1]>>]
               PROVE  q \in S
    BY DEF Direct
  <2>1. <<p[2], q[2]>> \in g'.waw[<<p[1], q[1]>>]
    BY <1>9, <1>10 DEF WawCut
  <2> QED BY <1>13, <2>1
<1>16. PastOne(S)
  <2> SUFFICES ASSUME NEW p \in S, NEW q \in Points, NEW x \in Gone,
                      Pending(p[1], c) \/ Pending(c, q[1]),
                      <<p[2], x>> \in g.waw[<<p[1], c>>], <<x, q[2]>> \in g.waw[<<c, q[1]>>]
               PROVE  q \in S
    BY <1>0 DEF PastOne
  <2>1. CASE <<d, e>> = <<p[1], c>> \/ <<d, e>> = <<c, q[1]>>
    <3>1. x \in Inst /\ x \notin D
      BY <1>7
    <3>2. <<p[2], q[2]>> \in g'.waw[<<p[1], q[1]>>]
      BY <1>9, <1>10, <2>1, <3>1 DEF WawCut
    <3> QED BY <1>13, <3>2
  <2>2. CASE <<d, e>> # <<p[1], c>> /\ <<d, e>> # <<c, q[1]>>
    <3>1. x \in Inst
      BY <1>7
    <3>2. <<p[2], x>> \in g'.waw[<<p[1], c>>] /\ <<x, q[2]>> \in g'.waw[<<c, q[1]>>]
      BY <1>9, <1>10, <2>2, <3>1 DEF WawCut
    <3>3. Pending(p[1], c)' \/ Pending(c, q[1])'
      BY <1>8, <1>9, <2>2
    <3> QED BY <1>14, <3>2, <3>3
  <2> QED BY <2>1, <2>2
<1>17. PastTwo(S)
  <2> SUFFICES ASSUME NEW p \in S, NEW q \in Points, NEW x \in Gone, NEW y \in Gone,
                      Pending(p[1], c), Pending(c, c), Pending(c, q[1]),
                      <<p[2], x>> \in g.waw[<<p[1], c>>], <<x, y>> \in g.waw[<<c, c>>],
                      <<y, q[2]>> \in g.waw[<<c, q[1]>>]
               PROVE  q \in S
    BY <1>0 DEF PastTwo
  <2>1. x \in Inst /\ y \in Inst /\ x \notin D /\ y \notin D
    BY <1>7
  <2>2. Overwrite(p[1], c, p[2], x) /\ Overwrite(c, c, x, y) /\ Overwrite(c, q[1], y, q[2])
    BY <1>2, <1>9, <2>1 DEF SInv, WawSound
  <2>3. p[1] # c /\ q[1] # c
    BY <1>2, <1>9, <2>1, <2>2, NoThirdWrite
  <2>4. /\ <<d, e>> \in {<<c, c>>, <<p[1], c>>} => <<p[2], y>> \in g'.waw[<<p[1], c>>]
        /\ <<d, e>> = <<c, q[1]>> => <<x, q[2]>> \in g'.waw[<<c, q[1]>>]
    BY <1>9, <1>11, <2>1, <2>3 DEF WawCutTwice
  <2>5. /\ <<d, e>> # <<p[1], c>> => <<p[2], x>> \in g'.waw[<<p[1], c>>]
        /\ <<d, e>> # <<c, c>> => <<x, y>> \in g'.waw[<<c, c>>]
        /\ <<d, e>> # <<c, q[1]>> => <<y, q[2]>> \in g'.waw[<<c, q[1]>>]
    BY <1>9, <1>10, <2>1 DEF WawCut
  <2>6. /\ <<d, e>> # <<p[1], c>> => Pending(p[1], c)'
        /\ <<d, e>> # <<c, c>> => Pending(c, c)'
        /\ <<d, e>> # <<c, q[1]>> => Pending(c, q[1])'
    BY <1>8, <1>9
  <2>7. CASE <<d, e>> \in {<<c, c>>, <<p[1], c>>}
    <3>1. <<d, e>> # <<c, q[1]>> /\ (Pending(p[1], c)' \/ Pending(c, q[1])')
      BY <2>3, <2>6, <2>7
    <3> QED BY <1>14, <2>4, <2>5, <2>7, <3>1
  <2>8. CASE <<d, e>> = <<c, q[1]>>
    <3>1. <<d, e>> # <<p[1], c>>
      BY <2>3, <2>8
    <3> QED BY <1>14, <2>4, <2>5, <2>6, <2>8, <3>1
  <2>9. CASE <<d, e>> \notin {<<c, c>>, <<p[1], c>>, <<c, q[1]>>}
    <3>1. /\ Pending(p[1], c)' /\ Pending(c, c)' /\ Pending(c, q[1])'
          /\ <<p[2], x>> \in g'.waw[<<p[1], c>>] /\ <<x, y>> \in g'.waw[<<c, c>>]
          /\ <<y, q[2]>> \in g'.waw[<<c, q[1]>>]
      BY <2>5, <2>6, <2>9
    <3> QED BY <1>5, <1>7, <1>12, <3>1 DEF PastTwo
  <2> QED BY <2>7, <2>8, <2>9
<1> QED BY <1>15, <1>16, <1>17 DEF Carried

LEMMA VisitEdgeOrder ==
    ASSUME SInv, WritesTwiceAtMost(scop), OrderKept, VisitEdge
    PROVE  OrderKept'
<1>1. PICK k \in op.todo : /\ g' = Shrink(g, op.def, Phases[op.phase], k)
                           /\ op' = [op EXCEPT !.todo = @ \ {k}]
  BY DEF VisitEdge
<1>2. scop' = scop /\ op \in [def : Def \cup {NoDef}, phase : 0..5, todo : SUBSET EdgeKey]
      /\ (op.phase = 0 => op.todo = {})
  BY DEF SInv, RInv, EInv, GInv, IInv, TypeOK, TodoOK, VisitEdge
<1>3. op.phase \in 1..5 /\ op'.def = op.def /\ op'.phase = op.phase
  BY <1>1, <1>2
<1>4. g'.dom = g.dom /\ (op.phase # 3 => g'.waw = g.waw)
  BY <1>1, <1>3, VisitFacts DEF SInv, RInv
<1>5. ASSUME NEW S \in SUBSET Points, Carried(S)' PROVE Carried(S)
  <2>1. CASE op.phase = 3
    BY <1>5, <2>1, VisitWawCarried
  <2>2. CASE op.phase # 3
    <3>1. \A d, e : Pending(d, e)' = Pending(d, e)
      BY <1>3, <2>2 DEF Pending
    <3>2. Points' = Points /\ Gone' = Gone /\ g'.waw = g.waw
      BY <1>3, <1>4, <2>2 DEF Points, Gone
    <3>3. Direct(S)
      BY <1>5, <3>2 DEF Carried, Direct
    <3>4. ASSUME op.phase \in 1..3 PROVE PastOne(S) /\ PastTwo(S)
      <4>1. PastOne(S)' /\ PastTwo(S)'
        BY <1>3, <1>5, <3>4 DEF Carried
      <4>2. PastOne(S)
        BY <1>3, <3>1, <3>2, <4>1 DEF PastOne
      <4>3. PastTwo(S)
        BY <1>3, <3>1, <3>2, <4>1 DEF PastTwo
      <4> QED BY <4>2, <4>3
    <3> QED BY <3>3, <3>4 DEF Carried
  <2> QED BY <2>1, <2>2
<1> QED BY <1>2, <1>4, <1>5, OrderStep

(* The next phase: at first every WAW edge of the statement is pending, at last none. *)
LEMMA NextPhaseOrder ==
    ASSUME SInv, OrderKept, NextPhase
    PROVE  OrderKept'
<1>1. /\ g' = g /\ scop' = scop /\ op.phase # 0 /\ op.todo = {} /\ g \in Graph
      /\ op \in [def : Def \cup {NoDef}, phase : 0..5, todo : SUBSET EdgeKey]
  BY DEF SInv, RInv, EInv, GInv, IInv, TypeOK, NextPhase
<1>2. Points' = Points
  BY <1>1 DEF Points
<1>3. ASSUME NEW S \in SUBSET Points, Carried(S)' PROVE Carried(S)
  <2>1. Direct(S)
    BY <1>1, <1>2, <1>3 DEF Carried, Direct
  <2>2. CASE op.phase \in {1, 2}
    <3> DEFINE edges == EdgesOf(g, op.def, Phases[op.phase + 1])
    <3>1. op' = [op EXCEPT !.phase = @ + 1, !.todo = edges]
      BY <2>2 DEF NextPhase
    <3>2. op'.phase = op.phase + 1 /\ op'.def = op.def /\ op'.todo = edges
      BY <1>1, <3>1
    <3>3. op.phase = 2 => edges = {k \in Def \X Def : op.def \in {k[1], k[2]} /\ g.waw[k] # {}}
      BY DEF EdgesOf, Phases
    <3> HIDE DEF edges
    <3>4. PastOne(S)' /\ PastTwo(S)'
      BY <1>3, <2>2, <3>2 DEF Carried
    <3>5. Gone' = Gone
      BY <1>1, <3>2 DEF Gone
    <3>6. \A d, e \in Def : Pending(d, e) /\ g.waw[<<d, e>>] # {} => Pending(d, e)'
      BY <2>2, <3>2, <3>3 DEF Pending
    <3>7. op.def \in Def /\ \A p \in Points : p[1] \in Def
      BY <1>1 DEF SInv, RInv, EInv, GInv, IInv, TypeOK, Points
    <3>8. PastOne(S)
      <4> SUFFICES ASSUME NEW p \in S, NEW q \in Points, NEW x \in Gone,
                          Pending(p[1], op.def) \/ Pending(op.def, q[1]),
                          <<p[2], x>> \in g.waw[<<p[1], op.def>>],
                          <<x, q[2]>> \in g.waw[<<op.def, q[1]>>]
                   PROVE  q \in S
        BY DEF PastOne
      <4>1. PICK c \in Def : c = op.def
        BY <3>7
      <4>2. Pending(p[1], c)' \/ Pending(c, q[1])'
        BY <3>6, <3>7, <4>1
      <4> QED BY <1>1, <1>2, <3>2, <3>4, <3>5, <4>1, <4>2 DEF PastOne
    <3>9. PastTwo(S)
      <4> SUFFICES ASSUME NEW p \in S, NEW q \in Points, NEW x \in Gone, NEW y \in Gone,
                          Pending(p[1], op.def), Pending(op.def, op.def), Pending(op.def, q[1]),
                          <<p[2], x>> \in g.waw[<<p[1], op.def>>],
                          <<x, y>> \in g.waw[<<op.def, op.def>>],
                          <<y, q[2]>> \in g.waw[<<op.def, q[1]>>]
                   PROVE  q \in S
        BY DEF PastTwo
      <4>1. PICK c \in Def : c = op.def
        BY <3>7
      <4>2. Pending(p[1], c)' /\ Pending(c, c)' /\ Pending(c, q[1])'
        BY <3>6, <3>7, <4>1
      <4> QED BY <1>1, <1>2, <3>2, <3>4, <3>5, <4>1, <4>2 DEF PastTwo
    <3> QED BY <2>1, <3>8, <3>9 DEF Carried
  <2>3. CASE op.phase = 3
    <3>1. \A d, e : ~ Pending(d, e)
      BY <1>1, <2>3 DEF Pending
    <3>2. PastOne(S) /\ PastTwo(S)
      BY <3>1 DEF PastOne, PastTwo
    <3> QED BY <2>1, <3>2 DEF Carried
  <2>4. CASE op.phase \in {4, 5}
    BY <2>1, <2>4 DEF Carried
  <2> QED BY <1>1, <2>2, <2>3, <2>4
<1> QED BY <1>1, <1>3, OrderStep

(***************************************************************************)
(* A setDomain begins: a set that carries the order past the instances     *)
(* that go is one that carries it if the instances it reaches are added.   *)
(***************************************************************************)
LEMMA BeginOrder ==
    ASSUME SInv, WritesTwiceAtMost(scop), OrderKept, scop' = scop, op = Idle, g'.waw = g.waw,
           NEW c \in Def, c \in scop.affine, NEW D, D \subseteq g.dom[c],
           g'.dom = [g.dom EXCEPT ![c] = D], op'.phase = 1, op'.def = c
    PROVE  OrderKept'
<1>1. g \in Graph /\ op.phase = 0
  BY DEF SInv, RInv, EInv, GInv, IInv, TypeOK, Idle
<1>2. /\ g'.dom[c] = D
      /\ \A d \in Def : d # c => g'.dom[d] = g.dom[d]
      /\ \A d \in Def : g'.dom[d] \subseteq g.dom[d] /\ g.dom[d] \subseteq Inst
  BY <1>1 DEF Graph
<1>3. /\ Points' \subseteq Points
      /\ \A q \in Points : (q \in Points') \/ (q[1] = c /\ q[2] \notin D)
      /\ \A q \in Points' : ~ (q[1] = c /\ q[2] \notin D)
      /\ \A q \in Points : q = <<q[1], q[2]>> /\ q[1] \in Def /\ q[2] \in Inst
  BY <1>2 DEF Points
<1>4. Gone' = Inst \ D
  BY <1>2 DEF Gone
<1>5. \A d, e : c \in {d, e} => Pending(d, e)'
  BY DEF Pending
<1>6. \A p, q : SameCell(p, q)' = SameCell(p, q)
  BY DEF SameCell, Touches
<1>7. \A p : Time(p)' = Time(p)
  BY DEF Time
<1> SUFFICES ASSUME NEW S \in SUBSET Points', Carried(S)', NEW p \in S, NEW q \in Points',
                    SameCell(p, q), Time(p) < Time(q)
             PROVE  q \in S
  BY <1>6, <1>7 DEF OrderKept
<1>8. Direct(S)' /\ PastOne(S)' /\ PastTwo(S)'
  BY DEF Carried
<1> DEFINE Dead == {x \in Points : x[1] = c /\ x[2] \notin D}
           one  == {x \in Dead : \E w \in S : <<w[2], x[2]>> \in g.waw[<<w[1], c>>]}
           two  == {y \in Dead : \E x \in one : <<x[2], y[2]>> \in g.waw[<<c, c>>]}
           more == S \cup one \cup two
<1>9. more \in SUBSET Points
  BY <1>3
<1>10. \A z \in Points : (z \in Points') \/ (z \in Dead)
  BY <1>3
<1>11. \A x \in Dead : x[1] = c /\ x[2] \in Gone' /\ x[2] \in Inst /\ x \in Points
  BY <1>3, <1>4
<1>12. Direct(more)
  <2> SUFFICES ASSUME NEW w \in more, NEW z \in Points, <<w[2], z[2]>> \in g.waw[<<w[1], z[1]>>]
               PROVE  z \in more
    BY DEF Direct
  <2>1. CASE w \in S
    <3>1. CASE z \in Points'
      BY <1>8, <2>1, <3>1 DEF Direct
    <3>2. CASE z \in Dead
      <4>1. z \in one
        BY <1>11, <2>1, <3>2
      <4> QED BY <4>1
    <3> QED BY <1>10, <3>1, <3>2
  <2>2. CASE w \in one
    <3>1. PICK v \in S : <<v[2], w[2]>> \in g.waw[<<v[1], c>>]
      BY <2>2
    <3>2. w \in Dead
      BY <2>2
    <3>3. w[1] = c /\ w[2] \in Gone'
      BY <1>11, <3>2
    <3>4. CASE z \in Points'
      <4>1. Pending(v[1], c)'
        BY <1>5
      <4> HIDE DEF Dead, one, two, more
      <4>2. z \in S
        BY <1>8, <3>1, <3>3, <3>4, <4>1 DEF PastOne
      <4> QED BY <4>2 DEF more
    <3>5. CASE z \in Dead
      <4>1. z \in two
        BY <1>11, <2>2, <3>3, <3>5
      <4> QED BY <4>1
    <3> QED BY <1>10, <3>4, <3>5
  <2>3. CASE w \in two
    <3>1. PICK x \in one : <<x[2], w[2]>> \in g.waw[<<c, c>>]
      BY <2>3
    <3>2. PICK v \in S : <<v[2], x[2]>> \in g.waw[<<v[1], c>>]
      BY <3>1
    <3>3. w \in Dead /\ x \in Dead
      BY <2>3, <3>1
    <3>4. w[1] = c /\ w[2] \in Gone' /\ x[2] \in Gone' /\ w[2] \in Inst /\ x[2] \in Inst
      BY <1>11, <3>3
    <3> HIDE DEF Dead, one, two
    <3>5. CASE z \in Points'
      <4>1. Pending(v[1], c)' /\ Pending(c, c)' /\ Pending(c, z[1])'
        BY <1>5
      <4> HIDE DEF more
      <4>2. z \in S
        BY <1>8, <3>1, <3>2, <3>4, <3>5, <4>1 DEF PastTwo
      <4> QED BY <4>2 DEF more
    <3>6. CASE z \in Dead
      <4>1. z[1] = c /\ z[2] \in Inst
        BY <1>11, <3>6
      <4>2. Overwrite(c, c, x[2], w[2]) /\ Overwrite(c, c, w[2], z[2])
        BY <3>1, <3>4, <4>1 DEF SInv, WawSound
      <4>3. FALSE
        BY <3>4, <4>1, <4>2, NoThirdWrite DEF SInv
      <4> QED BY <4>3
    <3> QED BY <1>10, <3>5, <3>6
  <2> QED BY <2>1, <2>2, <2>3
<1>13. Carried(more)
  BY <1>1, <1>12 DEF Carried
<1>14. q \in more
  <2> HIDE DEF more
  <2>1. p \in more
    BY DEF more
  <2>2. q \in Points
    BY <1>3
  <2> QED BY <1>9, <1>13, <2>1, <2>2 DEF OrderKept
<1>15. q \notin Dead
  BY <1>3
<1> QED BY <1>14, <1>15

(* A step that leaves the domains and the WAW edges alone between two setDomains. *)
LEMMA OrderUntouched ==
    ASSUME OrderKept, scop' = scop, g'.dom = g.dom, g'.waw = g.waw, op' = op, op.phase = 0
    PROVE  OrderKept'
<1>1. Points' = Points
  BY DEF Points
<1>2. ASSUME NEW S \in SUBSET Points, Carried(S)' PROVE Carried(S)
  BY <1>1, <1>2 DEF Carried, Direct
<1> QED BY <1>2, OrderStep

LEMMA RestrictStmtOrder ==
    ASSUME SInv, WritesTwiceAtMost(scop), OrderKept, NEW d \in Def, RestrictStmt(d)
    PROVE  OrderKept'
<1> DEFINE used  == FillUsed(g, d)
           asked == IF LiveOut(d) THEN FillOver(used, d) ELSE used
           D     == NeededDomain(d)
           next  == KeepInstances(asked, d, D)
<1>1. g \in Graph /\ scop' = scop /\ op = Idle /\ op.phase = 0 /\ d \in scop.affine
  BY DEF SInv, RInv, EInv, GInv, IInv, TypeOK, RestrictStmt, Idle
<1>2. used \in Graph /\ used.waw = g.waw /\ used.dom = g.dom
  BY <1>1, FillUsedFacts DEF SameNodes
<1>3. \/ g' = asked /\ op' = op
      \/ g' = next /\ op' = [def |-> d, phase |-> 1, todo |-> EdgesOf(next, d, Phases[1])]
  BY DEF RestrictStmt
<1>4. D \subseteq g.dom[d]
  BY NeededFacts DEF SInv, RInv, EInv, GInv
<1> HIDE DEF used, D
<1>5. asked \in Graph /\ asked.waw = g.waw /\ asked.dom = g.dom
  BY <1>2, FillOverFacts DEF SameNodes
<1> HIDE DEF asked
<1>6. next.waw = g.waw /\ next.dom = [g.dom EXCEPT ![d] = D]
  BY <1>5 DEF KeepInstances, Graph
<1> HIDE DEF next
<1>7. CASE g' = asked /\ op' = op
  BY <1>1, <1>5, <1>7, OrderUntouched
<1>8. CASE g' = next /\ op' = [def |-> d, phase |-> 1, todo |-> EdgesOf(next, d, Phases[1])]
  <2>1. op'.phase = 1 /\ op'.def = d
    BY <1>8
  <2> QED BY <1>1, <1>4, <1>6, <1>8, <2>1, BeginOrder
<1> QED BY <1>3, <1>7, <1>8

LEMMA StepOrder ==
    ASSUME SInv, OrderKeptIfTwice, [Next]_vars
    PROVE  OrderKeptIfTwice'
<1>1. scop' = scop
  BY DEF Next, CheckBarrier, RestrictStmt, VisitEdge, NextPhase, vars
<1> SUFFICES ASSUME WritesTwiceAtMost(scop) PROVE OrderKept'
  BY <1>1 DEF OrderKeptIfTwice
<1>2. OrderKept /\ g \in Graph
  BY DEF OrderKeptIfTwice, SInv, RInv, EInv, GInv, IInv, TypeOK
<1>3. ASSUME NEW d \in Def, CheckBarrier(d) PROVE OrderKept'
  <2> DEFINE asked == FillBarrier(g, d)
  <2>1. asked \in Graph /\ asked.waw = g.waw /\ asked.dom = g.dom
    BY <1>2, FillBarrierFacts DEF SameNodes
  <2>2. (g' = asked \/ g' = FillOver(asked, d)) /\ op' = op /\ op.phase = 0
    BY <1>3 DEF CheckBarrier, Idle
  <2> HIDE DEF asked
  <2>3. g'.waw = g.waw /\ g'.dom = g.dom
    BY <2>1, <2>2, FillOverFacts DEF SameNodes
  <2> QED BY <1>1, <1>2, <2>2, <2>3, OrderUntouched
<1>4. ASSUME NEW d \in Def, RestrictStmt(d) PROVE OrderKept'
  BY <1>2, <1>4, RestrictStmtOrder
<1>5. CASE VisitEdge
  BY <1>2, <1>5, VisitEdgeOrder
<1>6. CASE NextPhase
  BY <1>2, <1>6, NextPhaseOrder
<1>7. CASE UNCHANGED vars
  <2>1. g' = g /\ scop' = scop /\ op' = op
    BY <1>7 DEF vars
  <2>2. Points' = Points /\ Gone' = Gone
    BY <2>1 DEF Points, Gone
  <2>3. ASSUME NEW S \in SUBSET Points, Carried(S)' PROVE Carried(S)
    BY <2>1, <2>2, <2>3 DEF Carried, Direct, PastOne, PastTwo, Pending
  <2> QED BY <1>2, <2>1, <2>3, OrderStep
<1> QED BY <1>3, <1>4, <1>5, <1>6, <1>7 DEF Next

LEMMA WritesInvariance == Spec => [](SInv /\ OrderKeptIfTwice)
<1>1. Init => SInv /\ OrderKeptIfTwice
  BY InitSound, InitOrder DEF OrderKeptIfTwice
<1>2. SInv /\ OrderKeptIfTwice /\ [Next]_vars => (SInv /\ OrderKeptIfTwice)'
  BY StepSound, StepOrder
<1> QED BY <1>1, <1>2, PTL DEF Spec

(* Between two setDomains nothing is pending: the edges that are left carry the order. *)
LEMMA OrderGivesWrites ==
    ASSUME SInv, OrderKeptIfTwice
    PROVE  WritesOrderedIfTwice
<1> SUFFICES ASSUME OrderKept, op = Idle, NEW S \in SUBSET Points, Closed(S),
                    NEW p \in S, NEW q \in Points,
                    Touches(p[1], p[2]) \cap Touches(q[1], q[2]) # {}, Time(p) < Time(q)
             PROVE  q \in S
  BY DEF WritesOrderedIfTwice, WritesOrdered, OrderKeptIfTwice
<1>1. Direct(S)
  BY DEF Closed, Ordered, Direct
<1>2. Carried(S)
  BY <1>1 DEF Carried, Idle
<1> QED BY <1>2 DEF OrderKept, SameCell

(***************************************************************************)
(* notifyEdgeLess<WAWEdge> continues what it cuts: whichever writes dead   *)
(* iteration elimination deletes, and in whichever order it visits their   *)
(* edges, any two writes to a cell that are left stay in order, for any    *)
(* Scop in which no affine statement writes a cell more than twice.        *)
(***************************************************************************)
THEOREM WritesCorrect == Spec => []WritesOrderedIfTwice
BY WritesInvariance, OrderGivesWrites, PTL

-----------------------------------------------------------------------------
(***************************************************************************)
(* What keeps a read before an overwrite: a WAR dependence is lost only    *)
(* with the reader or with the write.                                      *)
(***************************************************************************)
WarStep(h, r) ==
    \A k \in Use \X Def : h.def[k[1]] \in Def =>
        \A p \in h.war[k] :
            p[1] \in r.dom[h.def[k[1]]] /\ p[2] \in r.dom[k[2]] => p \in r.war[k]

WarKept ==
    /\ \A d \in Def : g.dom[d] \subseteq scop.dom[d]
    /\ \A k \in Use \X Def : g.def[k[1]] \in Def =>
          \A p \in WAR(scop)[k] :
              p[1] \in g.dom[g.def[k[1]]] /\ p[2] \in g.dom[k[2]] => p \in g.war[k]

LEMMA InitWar == Init => WarKept
<1> SUFFICES ASSUME Init PROVE WarKept
  OBVIOUS
<1>1. g.dom = scop.dom /\ \A k \in Use \X Def : g.war[k] = WAR(scop)[k] \cup SelfEdges(scop)[k]
  BY ScopsAssumption, CreateFacts DEF Init
<1> QED BY <1>1 DEF WarKept

LEMMA VisitEdgeWar ==
    ASSUME EInv, VisitEdge
    PROVE  WarStep(g, g')
<1>1. PICK k \in op.todo : g' = Shrink(g, op.def, Phases[op.phase], k)
  BY DEF VisitEdge
<1>2. g \in Graph /\ IInv /\ op.phase \in 1..5 /\ k \in KeysOf(g, op.def, op.phase) /\ op.def \in Def
  <2>1. op.phase \in 0..5 /\ op.phase # 0
    BY <1>1 DEF EInv, GInv, IInv, TypeOK, TodoOK
  <2> QED BY <1>1, <2>1 DEF EInv, GInv, IInv, TypeOK, TodoOK
<1> DEFINE D == g.dom[op.def]
<1>3. g'.dom = g.dom
  BY <1>1, <1>2, VisitFacts
<1>4. CASE op.phase = 1
  <2>1. k \in Use \X Def /\ k[2] = op.def /\ g' = ShrinkWarRange(g, k, D)
    BY <1>1, <1>2, <1>4 DEF Shrink, Phases, KeysOf
  <2>2. g'.war = [g.war EXCEPT ![k] = @ \ LostRange(@, D)]
    BY <1>2, <2>1, ShrinkWarRangeFacts
  <2> QED BY <1>2, <1>3, <2>1, <2>2 DEF WarStep, LostRange, Graph
<1>5. CASE op.phase = 2
  <2>1. k \in Use \X Def /\ g.def[k[1]] = op.def /\ g' = ShrinkWarDomain(g, k, D)
    BY <1>1, <1>2, <1>5 DEF Shrink, Phases, KeysOf, EInv, GInv, WarTodo
  <2>2. g'.war = [g.war EXCEPT ![k] = @ \ LostDomain(@, D)]
    BY <1>2, <2>1, ShrinkWarDomainFacts
  <2> QED BY <1>2, <1>3, <2>1, <2>2 DEF WarStep, LostDomain, Graph
<1>6. CASE op.phase \in 3..5
  <2>1. VisitOK(g')
    BY <1>1, <1>2, <1>6, VisitWaw, VisitRaw
  <2> QED BY <1>6, <2>1 DEF VisitOK, WarStep
<1> QED BY <1>2, <1>4, <1>5, <1>6

LEMMA StepWar ==
    ASSUME RInv, WarKept, [Next]_vars
    PROVE  WarKept'
<1>1. EInv /\ g \in Graph /\ ReadsStep(g, g') /\ scop' = scop
  BY StepEdges DEF RInv, EInv, GInv, IInv, TypeOK, Next, vars, CheckBarrier, RestrictStmt,
                   VisitEdge, NextPhase
<1>2. ASSUME g'.war = g.war PROVE WarStep(g, g')
  BY <1>2 DEF WarStep
<1>3. ASSUME NEW d \in Def, CheckBarrier(d) PROVE WarStep(g, g')
  BY <1>2, <1>3 DEF CheckBarrier, FillBarrier, FillOver
<1>4. ASSUME NEW d \in Def, RestrictStmt(d) PROVE WarStep(g, g')
  <2> DEFINE asked == IF LiveOut(d) THEN FillOver(FillUsed(g, d), d) ELSE FillUsed(g, d)
  <2>1. asked \in Graph /\ asked.war = g.war
    <3>1. FillUsed(g, d) \in Graph /\ FillUsed(g, d).war = g.war
      BY <1>1, FillUsedFacts
    <3> QED BY <3>1, FillOverFacts
  <2>2. g' = asked \/ g' = KeepInstances(asked, d, NeededDomain(d))
    BY <1>4 DEF RestrictStmt
  <2> HIDE DEF asked
  <2>3. g'.war = g.war
    BY <2>1, <2>2 DEF KeepInstances, Graph
  <2> QED BY <1>2, <2>3
<1>5. WarStep(g, g')
  BY <1>1, <1>2, <1>3, <1>4, VisitEdgeWar DEF Next, NextPhase, vars
<1> QED BY <1>1, <1>5 DEF WarKept, WarStep, ReadsStep, RInv

(***************************************************************************)
(* Between two setDomains a read that is left is kept before every later   *)
(* write to its cell that is left, unless the write that followed it was   *)
(* deleted (setDomain): for any Scop in which no affine statement writes   *)
(* a cell more than twice.                                                 *)
(***************************************************************************)
THEOREM ReadOrderCorrect == Spec => []ReadsBeforeOverwriteUnlessDeleted
<1>1. Spec => []WarKept
  <2>1. RInv /\ WarKept /\ [Next]_vars => WarKept'
    BY StepWar
  <2> QED BY <2>1, InitWar, ReadsInvariance, PTL DEF Spec
<1>2. ASSUME SInv, OrderKeptIfTwice, WarKept PROVE ReadsBeforeOverwriteUnlessDeleted
  <2> SUFFICES ASSUME WritesTwiceAtMost(scop), op = Idle, NEW S \in SUBSET Points, Closed(S),
                      NEW p \in S, NEW q \in Points, NEW u \in g.ops[p[1]],
                      NEW c \in Touches(u, p[2]) \cap Touches(q[1], q[2]), Time(p) < Time(q),
                      q \notin S, ~ NextWriteDeleted(p, c)
               PROVE  FALSE
    BY DEF ReadsBeforeOverwriteUnlessDeleted
  <2>1. \A a \in S : \A b \in Points : c \in Touches(a[1], a[2]) /\ c \in Touches(b[1], b[2])
                                     /\ Time(a) < Time(b) => b \in S
    <3>1. WritesOrdered
      BY <1>2, OrderGivesWrites DEF WritesOrderedIfTwice
    <3> QED BY <3>1 DEF WritesOrdered
  <2>2. /\ IsScop(scop) /\ RunsInSequence(scop) /\ g \in Graph
        /\ g.def = scop.def /\ OpsOK
    BY <1>2, ScopsAssumption DEF SInv, RInv, EInv, GInv, IInv, TypeOK
  <2>3. /\ \A x \in Points : /\ x = <<x[1], x[2]>> /\ x[1] \in Def /\ x[2] \in g.dom[x[1]]
                            /\ x[2] \in scop.dom[x[1]] /\ x[2] \in Inst
        /\ \A x \in Def \X Inst : Time(x) \in Nat /\ x = <<x[1], x[2]>> /\ x[1] \in Def /\ x[2] \in Inst
    BY <1>2, <2>2 DEF Points, WarKept, Time, IsScop
  <2>4. c \notin Touches(p[1], p[2])
    BY <2>1
  <2> DEFINE later == {x \in Def \X Inst : /\ x[2] \in scop.dom[x[1]] /\ c \in Touches(x[1], x[2])
                                          /\ Time(p) < Time(x)}
  <2>5. q \in later /\ later \in SUBSET (Def \X Inst)
    BY <2>3
  <2>6. PICK w \in later : \A x \in later : ~ (Time(x) < Time(w))
    <3> HIDE DEF later
    <3> QED BY <2>2, <2>5, Earliest
  <2>7. ~ Overwritten(scop, c, Time(p), Time(w))
    <3> SUFFICES ASSUME NEW d \in Def, NEW i \in scop.dom[d], c \in scop.cells[d][i],
                        Time(p) < scop.time[d][i], scop.time[d][i] < Time(w)
                 PROVE  FALSE
      BY DEF Overwritten
    <3>1. <<d, i>> \in later /\ Time(<<d, i>>) < Time(w)
      BY <2>2 DEF Touches, Time, IsScop
    <3> QED BY <2>6, <3>1
  <2>8. w \in Points
    <3> SUFFICES ASSUME w[2] \notin g.dom[w[1]] PROVE FALSE
      BY DEF Points
    <3>1. w[1] \in Def /\ w[2] \in scop.dom[w[1]] \ g.dom[w[1]] /\ c \in Touches(w[1], w[2])
      OBVIOUS
    <3>2. Time(p) < scop.time[w[1]][w[2]] /\ ~ Overwritten(scop, c, Time(p), scop.time[w[1]][w[2]])
      BY <2>7 DEF Time
    <3> QED BY <2>4, <3>1, <3>2 DEF NextWriteDeleted
  <2>9. w \in S
    <3>1. u \in Use /\ scop.def[u] = p[1] /\ p \in Points /\ p[1] \in Def
      BY <2>2, <2>3 DEF OpsOK
    <3>2. <<p[2], w[2]>> \in Flow(scop, u, p[1], w[1], w[1])
      <4>1. p[2] \in scop.dom[p[1]] /\ w[2] \in scop.dom[w[1]]
        BY <2>3, <3>1
      <4>2. scop.time[p[1]][p[2]] < scop.time[w[1]][w[2]]
            /\ c \in scop.cells[u][p[2]] \cap scop.cells[w[1]][w[2]]
            /\ ~ Overwritten(scop, c, scop.time[p[1]][p[2]], scop.time[w[1]][w[2]])
        BY <2>7 DEF Time, Touches
      <4> QED BY <4>1, <4>2 DEF Flow
    <3>3. <<u, w[1]>> \in Use \X Def /\ <<p[2], w[2]>> \in WAR(scop)[<<u, w[1]>>]
      BY <3>1, <3>2 DEF WAR
    <3>4. p[2] \in g.dom[p[1]] /\ w[2] \in g.dom[w[1]]
      BY <2>3, <2>8, <3>1
    <3>5. <<p[2], w[2]>> \in g.war[<<u, w[1]>>]
      BY <1>2, <2>2, <3>1, <3>3, <3>4 DEF WarKept
    <3>6. p # w
      BY <2>4
    <3>7. Ordered(p, w)
      BY <3>5, <3>6 DEF Ordered
    <3> QED BY <2>8, <3>7 DEF Closed
  <2>10. CASE Time(w) < Time(q)
    BY <2>1, <2>9, <2>10
  <2>11. CASE ~ (Time(w) < Time(q))
    <3>1. ~ (Time(q) < Time(w)) /\ Time(q) \in Nat /\ Time(w) \in Nat
      BY <2>3, <2>5, <2>6
    <3>2. Time(q) = Time(w)
      <4> HIDE DEF Time
      <4> QED BY <2>11, <3>1
    <3>3. q[1] = w[1] /\ q[2] = w[2]
      BY <2>2, <2>3, <2>8, <3>2 DEF RunsInSequence, Time
    <3>4. q = w
      BY <2>3, <2>8, <3>3
    <3> QED BY <2>9, <3>4
  <2> QED BY <2>10, <2>11
<1>3. SInv /\ OrderKeptIfTwice /\ WarKept => ReadsBeforeOverwriteUnlessDeleted
  BY <1>2
<1> QED BY <1>1, <1>3, WritesInvariance, PTL

-----------------------------------------------------------------------------
(***************************************************************************)
(* Of an array that is live after the Scop, only what is in                *)
(* MustDeleteNodes loses an instance; it is there because its group is one *)
(* of affine writes, or since an earlier Scop.                             *)
(***************************************************************************)
MustFrom == \A d \in must : GroupAffine(d) \/ \E S \in Stale(scop) : d \in S

LInv == SInv /\ OverCoherent /\ MustFrom

LiveFromMust == \A d \in Def : LiveOut(d) /\ scop.dom[d] \ g.dom[d] # {} => d \in must

(* What is deleted there is written later, by what is left. *)
LiveWritten ==
    \A d \in Def : LiveOut(d) => \A i \in scop.dom[d] \ g.dom[d] : \A c \in Touches(d, i) :
        OverwrittenBy(d, i, c) # {}

LiveInv == LiveFromMust /\ LiveWritten

-----------------------------------------------------------------------------
LEMMA InitLive ==
    ASSUME Init
    PROVE  LInv
<1>1. SInv /\ OverCoherent
  BY InitSound, InitInv
<1>2. MustFrom
  BY DEF Init, MustFrom
<1> QED BY <1>1, <1>2 DEF LInv

LEMMA StepLive ==
    ASSUME LInv, [Next]_vars
    PROVE  LInv'
<1>1. SInv' /\ OverCoherent'
  BY StepSound, StepInv DEF LInv, SInv, RInv, EInv, GInv
<1>2. ASSUME NEW d \in Def, CheckBarrier(d) PROVE MustFrom'
  BY <1>2 DEF LInv, MustFrom, GroupAffine, CheckBarrier
<1>3. ASSUME scop' = scop, must' = must PROVE MustFrom'
  BY <1>3 DEF LInv, MustFrom, GroupAffine
<1>4. MustFrom'
  BY <1>2, <1>3 DEF Next, vars, RestrictStmt, VisitEdge, NextPhase
<1> QED BY <1>1, <1>4 DEF LInv

-----------------------------------------------------------------------------
(***************************************************************************)
(* What restrictStmt may delete of a statement whose array is live is      *)
(* overwritten by a later write that is still there.                       *)
(***************************************************************************)
LastWrite(c, from, p) == /\ p \in Points
                         /\ c \in Touches(p[1], p[2])
                         /\ from < Time(p)

LEMMA Superseded ==
    ASSUME LInv, LiveWritten, NEW d \in Def \cap scop.affine, LiveOut(d),
           NEW i \in g.dom[d], i \notin NeededDomain(d), NEW c \in Touches(d, i)
    PROVE  \E p \in Def \X Inst : LastWrite(c, scop.time[d][i], p)
<1>1. /\ g \in Graph /\ d \in Def /\ i \in Inst /\ IsScop(scop) /\ OneCell(scop)
      /\ d \in scop.affine
  BY DEF LInv, SInv, RInv, EInv, GInv, IInv, TypeOK, Graph
<1>2. i \in WawDomain(g, d)
  <2>1. i \in OverwrittenSet(g, d)
    BY DEF NeededDomain
  <2>2. g.over[d] # Miss => g.over[d] \cap g.dom[d] = WawDomain(g, d) \cap g.dom[d]
    BY <1>1 DEF LInv, OverCoherent
  <2> QED BY <2>1, <2>2 DEF OverwrittenSet
<1>3. PICK e \in Def, j \in Inst : <<i, j>> \in g.waw[<<d, e>>]
  BY <1>2 DEF WawDomain
<1>4. Overwrite(d, e, i, j)
  BY <1>1, <1>3 DEF LInv, SInv, WawSound
<1>5. scop.cells[d][i] \cap scop.cells[e][j] # {} /\ j \in scop.dom[e] /\ scop.time[d][i] < scop.time[e][j]
  BY <1>4 DEF Overwrite
<1>6. d \in Node /\ e \in Node /\ scop.array[d] = scop.array[e]
  BY <1>1, <1>5 DEF OneCell, Node
<1>7. LiveOut(e)
  BY <1>6 DEF LiveOut
<1>8. c \in Touches(e, j)
  BY <1>1, <1>5 DEF OneCell, Touches
<1>9. CASE j \in g.dom[e]
  <2>1. <<e, j>> \in Def \X Inst /\ <<e, j>>[1] = e /\ <<e, j>>[2] = j
    OBVIOUS
  <2>2. LastWrite(c, scop.time[d][i], <<e, j>>)
    BY <1>5, <1>7, <1>8, <1>9, <2>1 DEF LastWrite, Points, Time
  <2> QED BY <2>1, <2>2
<1>10. CASE j \notin g.dom[e]
  <2>1. PICK p \in Points : c \in Touches(p[1], p[2]) /\ scop.time[e][j] < Time(p)
    BY <1>5, <1>7, <1>8, <1>10 DEF LiveWritten, OverwrittenBy
  <2>2. p \in Def \X Inst
    BY DEF Points
  <2>3. Time(p) \in Nat /\ scop.time[d][i] \in Nat /\ scop.time[e][j] \in Nat
    BY <1>1, <2>2 DEF IsScop, Time
  <2>4. scop.time[d][i] < Time(p)
    <3> HIDE DEF Time
    <3> QED BY <1>5, <2>1, <2>3
  <2> QED BY <2>1, <2>2, <2>4 DEF LastWrite
<1> QED BY <1>9, <1>10

LEMMA RestrictStmtKeepsLive ==
    ASSUME LInv, LiveInv, NEW d0 \in Def, RestrictStmt(d0)
    PROVE  LiveInv'
<1> DEFINE used  == FillUsed(g, d0)
           asked == IF LiveOut(d0) THEN FillOver(used, d0) ELSE used
           next  == KeepInstances(asked, d0, NeededDomain(d0))
<1>1. g \in Graph /\ scop' = scop /\ IsScop(scop) /\ OneCell(scop)
  BY DEF LInv, SInv, RInv, EInv, GInv, IInv, TypeOK, RestrictStmt
<1>2. used \in Graph /\ used.dom = g.dom
  BY <1>1, FillUsedFacts DEF SameNodes
<1>3. g' = asked \/ g' = next
  BY DEF RestrictStmt
<1>4. d0 \in scop.affine /\ (LiveOut(d0) => d0 \in must) /\ must' = must
  BY DEF RestrictStmt
<1> HIDE DEF used
<1>5. asked \in Graph /\ asked.dom = g.dom
  BY <1>2, FillOverFacts DEF SameNodes
<1> HIDE DEF asked
<1>6. next.dom = [g.dom EXCEPT ![d0] = NeededDomain(d0)]
  BY <1>5 DEF KeepInstances, Graph
<1> HIDE DEF next
<1>7. \A d \in Def : \A i \in g.dom[d] : i \in g'.dom[d] \/ (d = d0 /\ i \notin NeededDomain(d0))
  BY <1>1, <1>3, <1>5, <1>6 DEF Graph
<1>12. LiveFromMust'
  BY <1>1, <1>4, <1>7 DEF LiveInv, LiveFromMust, LiveOut
<1> SUFFICES ASSUME NEW d \in Def, LiveOut(d), NEW i \in scop.dom[d], i \notin g'.dom[d],
                    NEW c \in Touches(d, i)
             PROVE  \E p \in Points' : c \in Touches(p[1], p[2]) /\ scop.time[d][i] < Time(p)
  BY <1>1, <1>12 DEF LiveInv, LiveWritten, OverwrittenBy, LiveOut, Touches, Time
<1> DEFINE C == {p \in Def \X Inst : LastWrite(c, scop.time[d][i], p)}
<1>8. C # {}
  <2>1. CASE i \in g.dom[d]
    <3>1. d = d0 /\ i \notin NeededDomain(d0)
      BY <1>7, <2>1
    <3> QED BY <1>4, <2>1, <3>1, Superseded DEF LiveInv
  <2>2. CASE i \notin g.dom[d]
    <3>1. PICK p \in Points : c \in Touches(p[1], p[2]) /\ scop.time[d][i] < Time(p)
      BY <2>2 DEF LiveInv, LiveWritten, OverwrittenBy
    <3> QED BY <3>1 DEF LastWrite, Points
  <2> QED BY <2>1, <2>2
<1>9. PICK q \in C : \A r \in C : ~ (Time(q) < Time(r))
  <2>1. C \in SUBSET (Def \X Inst)
    OBVIOUS
  <2> HIDE DEF C
  <2> QED BY <1>1, <1>8, <2>1, Latest
<1>10. q \in Def \X Inst /\ LastWrite(c, scop.time[d][i], q)
  OBVIOUS
<1>11. q \in Points'
  <2> SUFFICES ASSUME q \notin Points' PROVE FALSE
    OBVIOUS
  <2>1. q[1] \in Def /\ q[2] \in Inst /\ q[2] \in g.dom[q[1]] /\ c \in Touches(q[1], q[2])
    BY <1>10 DEF LastWrite, Points
  <2>2. q[1] = d0 /\ q[2] \notin NeededDomain(d0)
    BY <1>7, <1>10, <2>1 DEF Points
  <2>3. scop.array[d] = scop.array[q[1]]
    <3>1. d \in Node /\ q[1] \in Node /\ i \in Inst
      BY <1>1, <2>1 DEF Node, IsScop
    <3>2. c \in scop.cells[d][i] \cap scop.cells[q[1]][q[2]]
      BY <2>1 DEF Touches
    <3> QED BY <1>1, <2>1, <3>1, <3>2 DEF OneCell
  <2>4. LiveOut(d0)
    BY <2>2, <2>3 DEF LiveOut
  <2>5. PICK r \in Def \X Inst : LastWrite(c, scop.time[d0][q[2]], r)
    BY <1>4, <2>1, <2>2, <2>4, Superseded DEF LiveInv
  <2>6. Time(q) < Time(r)
    BY <2>2, <2>5 DEF LastWrite, Time
  <2>7. scop.time[d][i] < Time(q)
    BY <1>10 DEF LastWrite
  <2>8. Time(q) \in Nat /\ Time(r) \in Nat /\ scop.time[d][i] \in Nat
    BY <1>1, <1>10 DEF IsScop, Time
  <2>9. scop.time[d][i] < Time(r)
    <3> HIDE DEF Time
    <3> QED BY <2>6, <2>7, <2>8
  <2>10. r \in C
    BY <2>5, <2>9 DEF LastWrite
  <2> QED BY <1>9, <2>6, <2>10
<1> QED BY <1>10, <1>11 DEF LastWrite

LEMMA StepKeepsLive ==
    ASSUME LInv, LiveInv, [Next]_vars
    PROVE  LiveInv'
<1>1. ASSUME scop' = scop, g'.dom = g.dom, must \subseteq must' PROVE LiveInv'
  <2>1. LiveFromMust'
    BY <1>1 DEF LiveInv, LiveFromMust, LiveOut
  <2>2. LiveWritten'
    BY <1>1 DEF LiveInv, LiveWritten, OverwrittenBy, LiveOut, Points, Touches, Time
  <2> QED BY <2>1, <2>2 DEF LiveInv
<1>2. g \in Graph
  BY DEF LInv, SInv, RInv, EInv, GInv, IInv, TypeOK
<1>3. ASSUME NEW d \in Def, CheckBarrier(d) PROVE LiveInv'
  <2> DEFINE asked == FillBarrier(g, d)
  <2>1. asked \in Graph /\ asked.dom = g.dom
    BY <1>2, FillBarrierFacts DEF SameNodes
  <2>2. scop' = scop /\ must \subseteq must' /\ (g' = asked \/ g' = FillOver(asked, d))
    BY <1>3 DEF CheckBarrier
  <2> HIDE DEF asked
  <2>3. g'.dom = g.dom
    BY <2>1, <2>2, FillOverFacts DEF SameNodes
  <2> QED BY <1>1, <2>2, <2>3
<1>4. ASSUME NEW d \in Def, RestrictStmt(d) PROVE LiveInv'
  BY <1>4, RestrictStmtKeepsLive
<1>5. CASE VisitEdge
  <2>1. PICK k \in op.todo : g' = Shrink(g, op.def, Phases[op.phase], k)
    BY <1>5 DEF VisitEdge
  <2>2. IInv /\ op.phase \in 1..5 /\ scop' = scop /\ must' = must
    <3>1. op.phase \in 0..5 /\ op.phase # 0
      BY <2>1 DEF LInv, SInv, RInv, EInv, GInv, IInv, TypeOK, TodoOK
    <3> QED BY <1>5, <3>1 DEF LInv, SInv, RInv, EInv, GInv, VisitEdge
  <2>3. VisitOK(g')
    <3>1. CASE op.phase \in {1, 2}
      BY <2>1, <2>2, <3>1, VisitWar
    <3>2. CASE op.phase = 3
      BY <2>1, <2>2, <3>2, VisitWaw
    <3>3. CASE op.phase \in {4, 5}
      BY <2>1, <2>2, <3>3, VisitRaw
    <3> QED BY <2>2, <3>1, <3>2, <3>3
  <2> QED BY <1>1, <2>2, <2>3 DEF VisitOK, SameNodes
<1>6. CASE NextPhase
  BY <1>1, <1>6 DEF NextPhase
<1>7. CASE UNCHANGED vars
  BY <1>1, <1>7 DEF vars
<1> QED BY <1>3, <1>4, <1>5, <1>6, <1>7 DEF Next

LEMMA InitKept == Init => LiveInv
<1> SUFFICES ASSUME Init PROVE LiveInv
  OBVIOUS
<1>1. g.dom = scop.dom
  BY ScopsAssumption, CreateFacts DEF Init
<1> QED BY <1>1 DEF LiveInv, LiveFromMust, LiveWritten

(***************************************************************************)
(* The last write to a cell of an array that is live after the Scop        *)
(* survives dead iteration elimination: whatever restrictStmt deletes      *)
(* there, a later write to the cell is still executed.  It is a must-write *)
(* unless an earlier Scop left the statement in MustDeleteNodes (clear).   *)
(***************************************************************************)
THEOREM LiveOutCorrect == Spec => []LiveOutKeptUnlessStale
<1>1. Init => LInv /\ LiveInv
  BY InitLive, InitKept
<1>2. LInv /\ LiveInv /\ [Next]_vars => LInv' /\ LiveInv'
  BY StepLive, StepKeepsLive
<1>3. ASSUME LInv, LiveInv PROVE LiveOutKeptUnlessStale
  <2> SUFFICES ASSUME NEW d \in Def, LiveOut(d), NEW i \in scop.dom[d], i \notin g.dom[d],
                      NEW c \in Touches(d, i)
               PROVE  \E p \in OverwrittenBy(d, i, c) :
                         p[1] \in scop.affine \/ \E S \in Stale(scop) : d \in S
    BY DEF LiveOutKeptUnlessStale
  <2>1. PICK p : p \in OverwrittenBy(d, i, c)
    BY <1>3 DEF LiveInv, LiveWritten
  <2>2. p \in Def \X Inst /\ c \in Touches(p[1], p[2])
    BY <2>1 DEF OverwrittenBy, Points
  <2>3. scop.array[p[1]] = scop.array[d]
    <3>1. IsScop(scop) /\ OneCell(scop)
      BY <1>3 DEF LInv, SInv
    <3>2. d \in Node /\ p[1] \in Node /\ p[2] \in Inst /\ i \in Inst
      BY <2>2, <3>1 DEF Node, IsScop
    <3>3. c \in scop.cells[d][i] \cap scop.cells[p[1]][p[2]]
      BY <2>2 DEF Touches
    <3> QED BY <3>1, <3>2, <3>3 DEF OneCell
  <2>4. d \in must
    BY <1>3 DEF LiveInv, LiveFromMust
  <2>5. GroupAffine(d) => p[1] \in scop.affine
    BY <2>2, <2>3 DEF GroupAffine
  <2> QED BY <1>3, <2>1, <2>4, <2>5 DEF LInv, MustFrom
<1>4. LInv /\ LiveInv => LiveOutKeptUnlessStale
  BY <1>3
<1> QED BY <1>1, <1>2, <1>4, PTL DEF Spec
=============================================================================
