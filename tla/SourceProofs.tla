---------------------------- MODULE SourceProofs ----------------------------
(***************************************************************************)
(* Where the value of an operand comes from: one instance of one write and *)
(* one cell, unless a dead store was deleted between two reads of a cell,  *)
(* and every instance of a reader is covered by the edges propagated to it.*)
(* And of all edges that are left: they run forward in the old order.      *)
(***************************************************************************)
EXTENDS LoadProofs

(* A value flows to later instances only. *)
LEMMA FlowTime ==
    ASSUME NEW s, IsScop(s), NEW p \in ScopPoints(s), NEW q, FlowsTo(s, p, q)
    PROVE  q \in ScopPoints(s) /\ TimeOf(s, p) <= TimeOf(s, q)
<1> DEFINE later == {x \in ScopPoints(s) : TimeOf(s, p) <= TimeOf(s, x)}
<1>1. \A x \in ScopPoints(s) : TimeOf(s, x) \in Nat
  BY DEF ScopPoints, TimeOf, IsScop
<1>2. p \in later
  BY <1>1
<1>3. ASSUME NEW e \in ReadsFrom(s), e[1] \in later PROVE e[2] \in later
  <2>1. PICK u \in Use : s.def[u] = e[2][1] /\ <<e[1][2], e[2][2]>> \in RAW(s)[<<e[1][1], u>>]
    BY DEF ReadsFrom
  <2>2. e[1] \in ScopPoints(s) /\ e[2] \in ScopPoints(s) /\ e[1][1] \in Def
    BY DEF ReadsFrom, ScopPoints
  <2>3. TimeOf(s, e[1]) < TimeOf(s, e[2])
    BY <2>1, <2>2, RawPair DEF TimeOf
  <2> QED BY <1>1, <1>3, <2>2, <2>3
<1>4. later \in SUBSET ScopPoints(s)
  OBVIOUS
<1>5. q \in later
  BY <1>2, <1>3, <1>4 DEF FlowsTo
<1> QED BY <1>5

(* Of the writes that overwrite what v reads, some are the first. *)
LEMMA FirstExists ==
    ASSUME IsScop(scop), NEW v, NEW q \in Overwrites(scop, v)
    PROVE  \E p \in FirstOverwrites(scop, v) : At(p) <= At(q)
<1>1. Overwrites(scop, v) \in SUBSET (Def \X Inst) /\ Overwrites(scop, v) # {}
  BY DEF Overwrites
<1>2. PICK p \in Overwrites(scop, v) : \A x \in Overwrites(scop, v) : ~ (Time(x) < Time(p))
  BY <1>1, Earliest
<1>3. \A x \in Overwrites(scop, v) : TimeOf(scop, x) = Time(x) /\ Time(x) \in Nat
  BY <1>1 DEF TimeOf, Time, IsScop
<1>4. \A x \in Overwrites(scop, v) : TimeOf(scop, p) <= TimeOf(scop, x)
  BY <1>2, <1>3
<1> QED BY <1>4 DEF FirstOverwrites, At

(***************************************************************************)
(* Two sources of one read instance, which loads one cell: what it stands  *)
(* for was read once before and once after the later source overwrote the  *)
(* cell.  So the first overwrite is not a write that exists, or the read   *)
(* would be loaded before it.                                              *)
(***************************************************************************)
LEMMA SourcesMeet ==
    ASSUME scop \in Scops, NEW u \in Use, NEW j \in Inst, NEW V \in SUBSET (Use \X Inst), ~ Divided(V),
           AtMostOne(UNION {scop.cells[v[1]][v[2]] : v \in V}),
           NEW e \in Def, NEW i \in Inst, NEW v \in V, <<i, v[2]>> \in RAW(scop)[<<e, v[1]>>],
           NEW f \in Def, NEW m \in Inst, NEW w \in V, <<m, w[2]>> \in RAW(scop)[<<f, w[1]>>],
           v[1] \in scop.affine,
           NEW now \in Nat, At(ReaderOf(scop, w)) <= now,
           \A p \in FirstOverwrites(scop, v) : Exists(p) => now <= At(p) \/ Unsourced(scop, v)
    PROVE  ~ (At(<<e, i>>) < At(<<f, m>>))
<1> SUFFICES ASSUME At(<<e, i>>) < At(<<f, m>>) PROVE FALSE
  OBVIOUS
<1>1. IsScop(scop) /\ v[1] \in Use /\ w[1] \in Use /\ v[2] \in Inst /\ w[2] \in Inst
  BY ScopsAssumption
<1> DEFINE x == scop.def[v[1]]
           y == scop.def[w[1]]
<1>2. PICK c \in scop.cells[e][i] \cap scop.cells[v[1]][v[2]] :
         ~ Overwritten(scop, c, scop.time[e][i], scop.time[x][v[2]])
  BY <1>1, RawPair
<1>3. PICK b \in scop.cells[f][m] \cap scop.cells[w[1]][w[2]] : TRUE
  BY <1>1, RawPair
<1>4. b = c
  BY <1>2, <1>3 DEF AtMostOne
<1>5. /\ x \in Def /\ i \in scop.dom[e] /\ v[2] \in scop.dom[x] /\ scop.time[e][i] < scop.time[x][v[2]]
      /\ y \in Def /\ m \in scop.dom[f] /\ w[2] \in scop.dom[y] /\ scop.time[f][m] < scop.time[y][w[2]]
  BY <1>1, RawPair
<1>6. /\ At(<<e, i>>) = scop.time[e][i] /\ At(<<f, m>>) = scop.time[f][m]
      /\ At(ReaderOf(scop, v)) = scop.time[x][v[2]] /\ At(ReaderOf(scop, w)) = scop.time[y][w[2]]
  BY DEF At, TimeOf, ReaderOf
<1>7. /\ scop.time[e][i] \in Nat /\ scop.time[f][m] \in Nat
      /\ scop.time[x][v[2]] \in Nat /\ scop.time[y][w[2]] \in Nat
  BY <1>1, <1>5 DEF IsScop
<1>8. scop.time[x][v[2]] <= scop.time[f][m]
  BY <1>2, <1>3, <1>4, <1>5, <1>6, <1>7 DEF Overwritten
<1>9. <<f, m>> \in Overwrites(scop, v)
  <2>1. scop.cells[f][m] \cap scop.cells[v[1]][v[2]] # {}
    BY <1>2, <1>3, <1>4
  <2>2. TimeOf(scop, ReaderOf(scop, v)) <= TimeOf(scop, <<f, m>>)
    BY <1>6, <1>8 DEF At
  <2> QED BY <1>5, <2>1, <2>2 DEF Overwrites
<1>10. PICK p \in FirstOverwrites(scop, v) : At(p) <= At(<<f, m>>)
  BY <1>1, <1>9, FirstExists
<1>11. At(p) \in Nat
  BY <1>1 DEF FirstOverwrites, Overwrites, At, TimeOf, IsScop
<1>12. At(p) < At(ReaderOf(scop, w))
  BY <1>5, <1>6, <1>7, <1>10, <1>11
<1>13. CASE Exists(p)
  <2>1. ~ Unsourced(scop, v)
    BY DEF Unsourced
  <2>2. now <= At(p)
    BY <1>13, <2>1
  <2>3. now <= At(p) /\ At(p) < At(ReaderOf(scop, w)) /\ At(ReaderOf(scop, w)) <= now /\ At(ReaderOf(scop, w)) \in Nat
    BY <1>6, <1>7, <1>12, <2>2
  <2> QED BY <1>11, <2>3
<1>14. CASE ~ Exists(p)
  <2>1. scop.cells[v[1]][v[2]] \cap scop.cells[w[1]][w[2]] # {}
    BY <1>2, <1>3, <1>4
  <2> QED BY <1>12, <1>14, <2>1 DEF Divided
<1> QED BY <1>13, <1>14

(* The value of an operand that loads one cell comes from one instance. *)
LEMMA OneSourceHere ==
    ASSUME DInv, LoadInv, GroupOK, op = Idle,
           NEW u \in Use, g.def[u] \in Def, NEW j \in g.dom[g.def[u]], AffineRead(stands, scop, u),
           AtMostOne(Loads(stands, u, j)), ~ Divided(stands[u][j])
    PROVE  AtMostOne(SourcesAt(u, j))
<1>1. /\ scop \in Scops /\ IsScop(scop) /\ RunsInSequence(scop) /\ g \in Graph /\ Tied(g) /\ made \subseteq Def
      /\ j \in Inst /\ stands[u][j] \subseteq Use \X Inst
  <2>1. g \in Graph /\ scop \in Scops /\ made \subseteq Def
    BY InvHolds DEF Held
  <2>2. j \in Inst
    BY <2>1 DEF Graph
  <2>3. Tied(g)
    BY TiedIdle DEF DInv
  <2> QED BY <2>1, <2>2, <2>3, ScopsAssumption DEF DInv, StandsOK, ReadAt
<1>2. Flows(g, stands, scop) /\ Sourced(g, stands, scop) /\ Apart(g, made, scop)
  BY DEF LoadInv, ReadsOK
<1> DEFINE now == At(<<g.def[u], j>>)
<1>3. now \in Nat /\ now = At(<<Orig[g.def[u]], j>>)
  BY <1>1, CopiesAssumption DEF At, TimeOf, IsScop
<1>4. ASSUME NEW v \in stands[u][j]
      PROVE  /\ v[1] \in scop.affine /\ At(ReaderOf(scop, v)) <= now
             /\ \A p \in FirstOverwrites(scop, v) : Exists(p) => now <= At(p) \/ Unsourced(scop, v)
  <2>1. v[1] \in scop.affine
    BY <1>1 DEF AffineRead
  <2>2. At(ReaderOf(scop, v)) <= now
    BY <1>1, <1>2, <1>3, FlowTime DEF Flows, At
  <2>3. Timely(g, made, scop, Dying, g.def[u], j, {v}, FirstOverwrites(scop, v))
    BY DEF GroupOK, Timed, Punctual
  <2>4. \A p \in FirstOverwrites(scop, v) : Exists(p) => now <= At(p) \/ Unsourced(scop, v)
    BY <2>3 DEF Timely, Exists, At, Updates
  <2> QED BY <2>1, <2>2, <2>4
<1>5. ASSUME NEW p \in SourcesAt(u, j)
      PROVE  /\ p[1] \in made /\ p[2] \in Inst /\ p = <<p[1], p[2]>> /\ Orig[p[1]] \in Def
             /\ p[2] \in g.dom[p[1]] /\ p[2] \in scop.dom[Orig[p[1]]]
             /\ \E v \in stands[u][j] : <<p[2], v[2]>> \in RAW(scop)[<<Orig[p[1]], v[1]>>]
  <2>1. p \in Def \X Inst /\ <<p[2], j>> \in g.raw[<<p[1], u>>]
    BY DEF SourcesAt
  <2>2. p[1] \in Def /\ p[2] \in Inst /\ p = <<p[1], p[2]>>
    BY <2>1, PairFacts
  <2>3. p[2] \in g.dom[p[1]]
    <3>1. /\ <<p[1], u>> \in Def \X Use /\ <<p[1], u>>[1] = p[1]
          /\ <<p[2], j>>[1] = p[2]
      BY <2>2
    <3> QED BY <1>1, <2>1, <3>1 DEF Tied
  <2>4. p[1] \in made
    BY <2>2, <2>3 DEF DInv, NodesOK
  <2>5. p[2] \in scop.dom[Orig[p[1]]]
    BY <1>2, <2>3, <2>4 DEF Apart
  <2>6. \E v \in stands[u][j] : <<p[2], v[2]>> \in RAW(scop)[<<Orig[p[1]], v[1]>>]
    BY <1>1, <1>2, <2>1, <2>2 DEF Sourced
  <2> QED BY <2>2, <2>3, <2>4, <2>5, <2>6, OrigAssumption
<1> SUFFICES ASSUME NEW p \in SourcesAt(u, j), NEW q \in SourcesAt(u, j) PROVE p = q
  BY DEF AtMostOne
<1> DEFINE e == Orig[p[1]]
           f == Orig[q[1]]
<1>6. PICK v \in stands[u][j] : <<p[2], v[2]>> \in RAW(scop)[<<e, v[1]>>]
  BY <1>5
<1>7. PICK w \in stands[u][j] : <<q[2], w[2]>> \in RAW(scop)[<<f, w[1]>>]
  BY <1>5
<1>8. e \in Def /\ f \in Def /\ p[2] \in Inst /\ q[2] \in Inst
  BY <1>5
<1>9. AtMostOne(UNION {scop.cells[x[1]][x[2]] : x \in stands[u][j]})
  BY DEF Loads
<1>10. ~ (At(<<e, p[2]>>) < At(<<f, q[2]>>)) /\ ~ (At(<<f, q[2]>>) < At(<<e, p[2]>>))
  <2> DEFINE V == stands[u][j]
  <2>1. /\ V \in SUBSET (Use \X Inst) /\ ~ Divided(V) /\ v \in V /\ w \in V
        /\ AtMostOne(UNION {scop.cells[x[1]][x[2]] : x \in V})
    BY <1>1, <1>6, <1>7, <1>9
  <2>2. /\ <<p[2], v[2]>> \in RAW(scop)[<<e, v[1]>>] /\ <<q[2], w[2]>> \in RAW(scop)[<<f, w[1]>>]
        /\ now \in Nat
    BY <1>3, <1>6, <1>7
  <2>3. \A x \in V : /\ x[1] \in scop.affine /\ At(ReaderOf(scop, x)) <= now
                     /\ \A y \in FirstOverwrites(scop, x) : Exists(y) => now <= At(y) \/ Unsourced(scop, x)
    BY <1>4
  <2> HIDE DEF e, f, now, V
  <2>4. ~ (At(<<e, p[2]>>) < At(<<f, q[2]>>))
    <3>1. /\ v[1] \in scop.affine /\ At(ReaderOf(scop, w)) <= now
          /\ \A y \in FirstOverwrites(scop, v) : Exists(y) => now <= At(y) \/ Unsourced(scop, v)
      BY <2>1, <2>3
    <3> QED BY <1>1, <1>8, <2>1, <2>2, <3>1, SourcesMeet, Zenon
  <2>5. ~ (At(<<f, q[2]>>) < At(<<e, p[2]>>))
    <3>1. /\ w[1] \in scop.affine /\ At(ReaderOf(scop, v)) <= now
          /\ \A y \in FirstOverwrites(scop, w) : Exists(y) => now <= At(y) \/ Unsourced(scop, w)
      BY <2>1, <2>3
    <3> QED BY <1>1, <1>8, <2>1, <2>2, <3>1, SourcesMeet, Zenon
  <2> QED BY <2>4, <2>5
<1>11. e = f /\ p[2] = q[2]
  <2>1. p[2] \in scop.dom[e] /\ q[2] \in scop.dom[f]
    BY <1>5
  <2>2. scop.time[e][p[2]] \in Nat /\ scop.time[f][q[2]] \in Nat
    BY <1>1, <1>8 DEF IsScop
  <2>3. At(<<e, p[2]>>) = scop.time[e][p[2]] /\ At(<<f, q[2]>>) = scop.time[f][q[2]]
    BY DEF At, TimeOf
  <2>4. scop.time[e][p[2]] = scop.time[f][q[2]]
    BY <1>10, <2>2, <2>3
  <2> QED BY <1>1, <1>8, <2>1, <2>4 DEF RunsInSequence
<1>12. p[1] = q[1]
  <2>1. p[2] \in g.dom[p[1]] \cap g.dom[q[1]]
    BY <1>5, <1>11
  <2> QED BY <1>2, <1>5, <1>11, <2>1 DEF Apart
<1> QED BY <1>5, <1>11, <1>12

-----------------------------------------------------------------------------
(* An affine operand of a graph h loads one cell. *)
OneLoad(h, st) ==
    \A u \in Use : h.def[u] \in Def /\ AffineRead(st, scop, u) =>
        \A j \in h.dom[h.def[u]] : AtMostOne(Loads(st, u, j))

CellInv == run.stage = "aborted" \/ run.blocked \/ Divided(ProgramReads) \/ OneLoad(g, stands)

LEMMA DividedGrows == ASSUME NEW V, NEW W, V \subseteq W, Divided(V) PROVE Divided(W)
BY DEF Divided

(* What was deleted is not made again. *)
LEMMA ExistsShrinks ==
    ASSUME DInv, [RunNext]_runVars, NEW p, Exists(p)'
    PROVE  Exists(p)
<1>1. made \subseteq Def
  BY InvHolds DEF Held
<1>2. CASE Taken
  BY <1>1, <1>2 DEF Taken, Narrows, Exists
<1>3. CASE \E t \in Def : Split(t)
  <2>1. PICK t \in Def : Split(t)
    BY <1>3
  <2>2. PICK c, keep, twin : /\ IsSplitOf(g, made, stands, t, c, keep, twin, g', stands')
                             /\ c \in Def /\ made' = made \cup {c}
    BY <2>1, SplitIs
  <2>3. PICK e \in made \cup {c} : Orig[e] = p[1] /\ p[2] \in g'.dom[e]
    BY <2>2 DEF Exists
  <2>4. e \in Def
    BY <1>1, <2>2, <2>3
  <2>5. /\ WasDef(t, c, e) \in made /\ Orig[WasDef(t, c, e)] = Orig[e]
        /\ p[2] \in g.dom[WasDef(t, c, e)]
    BY <2>2, <2>3, <2>4, SplitParts
  <2> QED BY <2>3, <2>5 DEF Exists
<1>4. CASE \E o \in Use : ReloadOperand(o)
  <2>1. PICK o \in Use : ReloadOperand(o)
    BY <1>4
  <2>2. PICK n, t : /\ IsReloadOf(g, stands, scop, o, n, run.edge, t, g', stands')
                    /\ made' = made
    BY <2>1, ReloadIs
  <2>3. g'.dom = g.dom
    BY <2>2 DEF IsReloadOf, WritesUntouched
  <2> QED BY <2>2, <2>3 DEF Exists
<1>5. CASE UNCHANGED <<scop, g, made, stands>>
  BY <1>5 DEF Exists
<1> QED BY <1>2, <1>3, <1>4, <1>5, RunSteps

LEMMA SameScop == ASSUME DInv, [RunNext]_runVars PROVE scop' = scop
<1>1. CASE \E t \in Def : Split(t)
  BY <1>1 DEF Split
<1>2. CASE \E o \in Use : ReloadOperand(o)
  BY <1>2 DEF ReloadOperand
<1> QED BY <1>1, <1>2, RunSteps DEF Taken

LEMMA StaysDivided ==
    ASSUME DInv, [RunNext]_runVars, Divided(ProgramReads)
    PROVE  Divided(ProgramReads)'
<1>1. scop' = scop /\ ProgramReads' = ProgramReads
  BY SameScop DEF ProgramReads, ReadAt
<1>2. PICK v \in ProgramReads, w \in ProgramReads : \E p \in FirstOverwrites(scop, v) :
         /\ ~ Exists(p) /\ At(p) < At(ReaderOf(scop, w))
         /\ scop.cells[v[1]][v[2]] \cap scop.cells[w[1]][w[2]] # {}
  BY DEF Divided
<1>3. PICK p \in FirstOverwrites(scop, v) :
         /\ ~ Exists(p) /\ At(p) < At(ReaderOf(scop, w))
         /\ scop.cells[v[1]][v[2]] \cap scop.cells[w[1]][w[2]] # {}
  BY <1>2
<1>4. ~ Exists(p)'
  BY <1>3, ExistsShrinks
<1>5. At(p)' = At(p) /\ At(ReaderOf(scop, w))' = At(ReaderOf(scop, w))
  BY <1>1 DEF At
<1>6. /\ p \in FirstOverwrites(scop', v) /\ At(p)' < At(ReaderOf(scop, w))'
      /\ scop'.cells[v[1]][v[2]] \cap scop'.cells[w[1]][w[2]] # {}
      /\ v \in ProgramReads' /\ w \in ProgramReads'
  BY <1>1, <1>3, <1>5
<1> QED BY <1>4, <1>6 DEF Divided

-----------------------------------------------------------------------------
LEMMA InitCells == RunInit => OneLoad(g, stands)
<1> SUFFICES ASSUME RunInit, NEW u \in Use, g.def[u] \in Def, AffineRead(stands, scop, u),
                    NEW j \in g.dom[g.def[u]]
             PROVE  AtMostOne(Loads(stands, u, j))
  BY DEF OneLoad
<1>1. scop \in Scops /\ OneCell(scop) /\ g \in Graph
  BY ScopsAssumption, CreateFacts DEF RunInit, Init
<1>2. j \in Inst /\ stands[u][j] = {<<u, j>>}
  BY <1>1, NoDefAssumption DEF RunInit, Graph
<1>3. u \in scop.affine
  <2>1. <<u, j>> \in stands[u][j] /\ <<u, j>>[1] = u
    BY <1>2
  <2> QED BY <1>2, <2>1 DEF AffineRead
<1>4. Loads(stands, u, j) = scop.cells[u][j]
  BY <1>2 DEF Loads
<1> QED BY <1>1, <1>2, <1>3, <1>4 DEF OneCell, AtMostOne

LEMMA TakenCells == ASSUME Taken, OneLoad(g, stands) PROVE OneLoad(g, stands)'
<1> SUFFICES ASSUME NEW u \in Use, g'.def[u] \in Def, AffineRead(stands', scop, u),
                    NEW j \in g'.dom[g'.def[u]]
             PROVE  AtMostOne(UNION {scop.cells[v[1]][v[2]] : v \in stands'[u][j]})
  BY DEF OneLoad, Loads, Taken, AtMostOne
<1>1. g'.def[u] = g.def[u] /\ stands'[u] = stands[u] /\ j \in g.dom[g.def[u]]
  BY NoDefAssumption DEF Taken, Narrows
<1> QED BY <1>1 DEF OneLoad, Loads, AffineRead

LEMMA SplitCells == ASSUME DInv, NEW t \in Def, Split(t), OneLoad(g, stands) PROVE OneLoad(g, stands)'
<1>1. PICK c, keep, twin : /\ IsSplitOf(g, made, stands, t, c, keep, twin, g', stands')
                           /\ scop' = scop
  BY SplitIs
<1> SUFFICES ASSUME NEW u \in Use, g'.def[u] \in Def, AffineRead(stands', scop, u),
                    NEW j \in g'.dom[g'.def[u]]
             PROVE  AtMostOne(UNION {scop.cells[v[1]][v[2]] : v \in stands'[u][j]})
  BY <1>1 DEF OneLoad, Loads, AtMostOne
<1>2. /\ WasUse(twin, u) \in Use /\ g.def[WasUse(twin, u)] \in Def /\ j \in g.dom[g.def[WasUse(twin, u)]]
  BY <1>1, SplitParts
<1>3. stands'[u] = stands[WasUse(twin, u)]
  BY <1>1 DEF IsSplitOf
<1> QED BY <1>2, <1>3 DEF OneLoad, Loads, AffineRead
(* A reload: the one instance of the source that the read depends on, and what it loads. *)
LEMMA ReloadCells ==
    ASSUME DInv, LoadInv, SourceOK, GroupOK, NEW o \in Use, ReloadOperand(o),
           ~ Divided(ProgramReads), OneLoad(g, stands)
    PROVE  OneLoad(g, stands)'
<1> DEFINE k == run.edge
           R == g.raw[k]
           t == g.def[k[2]]
           need == Needed(R, o)
<1>1. /\ run.stage = "reload" /\ op = Idle /\ scop' = scop /\ Detached(k) /\ g \in Graph /\ Tied(g)
      /\ o \in run.loads
  BY ReloadSteps DEF ReloadOperand
<1>2. PICK n \in {CHOOSE m \in FreshUses : TRUE} \cup {m \in EqualOperands(t, need) : Subscripted(o)} :
         /\ g' = AddReload(g, o, n, R, t)
         /\ stands' = [stands EXCEPT ![n] = [j \in Inst |-> @[j] \cup need[j]]]
  BY DEF ReloadOperand
<1>3. /\ k \in Def \X Use /\ k = <<k[1], k[2]>> /\ k[1] \in Def /\ k[2] \in Use /\ t \in Def
      /\ \A d \in Def : g.ops[d] = {u \in Use : g.def[u] = d} \ {k[2]}
      /\ o \in g.ops[k[1]] /\ g.def[o] = k[1]
  <2>1. k \in Def \X Use /\ t \in Def /\ \A d \in Def : g.ops[d] = {u \in Use : g.def[u] = d} \ {k[2]}
    BY <1>1 DEF Detached
  <2>2. k = <<k[1], k[2]>> /\ k[1] \in Def /\ k[2] \in Use
    BY <2>1, PairFacts
  <2>3. o \in g.ops[k[1]]
    BY <1>1 DEF Detached
  <2> QED BY <2>1, <2>2, <2>3
<1>4. /\ n \in Use /\ stands \in [Use -> [Inst -> SUBSET ReadAt]]
      /\ g.def[n] = NoDef \/ (n \in EqualOperands(t, need) /\ g.def[n] = t)
  <2>1. FreshUses # {}
    BY DEF ReloadOperand
  <2>2. CASE n = CHOOSE m \in FreshUses : TRUE
    BY <2>1, <2>2 DEF FreshUses, DInv, StandsOK
  <2>3. CASE n \in EqualOperands(t, need)
    <3>1. n \in g.ops[t]
      BY <2>3 DEF EqualOperands
    <3> QED BY <1>3, <2>3, <3>1 DEF DInv, StandsOK
  <2> QED BY <1>2, <2>2, <2>3
<1>5. /\ \A u \in Use : g'.def[u] = IF u = n THEN t ELSE g.def[u]
      /\ g'.dom = g.dom
  <2>1. g.def[n] \in {NoDef, t}
    BY <1>4
  <2>2. \A d \in Def : UsedAgrees(g, d)
    BY DEF DInv, GInv, IInv, UsedCoherent, UsedAgrees
  <2>3. Reloaded(g, o, n, k, t, g')
    BY <1>1, <1>2, <1>3, <1>4, <2>1, <2>2, ReloadFacts
  <2> QED BY <2>3 DEF Reloaded
<1>6. /\ \A u \in Use : u # n => stands'[u] = stands[u]
      /\ \A j \in Inst : stands'[n][j] = stands[n][j] \cup need[j]
  BY <1>2, <1>4
<1> HIDE DEF need
<1> SUFFICES ASSUME NEW u \in Use, g'.def[u] \in Def, AffineRead(stands', scop, u),
                    NEW j \in g.dom[g'.def[u]]
             PROVE  AtMostOne(UNION {scop.cells[v[1]][v[2]] : v \in stands'[u][j]})
  BY <1>1, <1>5 DEF OneLoad, Loads, AtMostOne
<1>7. CASE u # n
  BY <1>5, <1>6, <1>7 DEF OneLoad, Loads, AffineRead
<1>8. CASE u = n /\ n \in EqualOperands(t, need) /\ g.def[n] = t
  <2>1. j \in g.dom[t]
    BY <1>5, <1>8
  <2>2. Loads(stands, n, j) = UNION {scop.cells[v[1]][v[2]] : v \in need[j]} /\ Subscripted(n)
    BY <1>8, <2>1 DEF EqualOperands
  <2>3. AtMostOne(Loads(stands, n, j))
    BY <1>3, <1>4, <1>8, <2>1, <2>2 DEF OneLoad, Subscripted, AffineRead
  <2>4. j \in Inst
    BY <1>1, <1>3, <2>1 DEF Graph
  <2>5. UNION {scop.cells[v[1]][v[2]] : v \in stands'[n][j]}
            = Loads(stands, n, j) \cup UNION {scop.cells[v[1]][v[2]] : v \in need[j]}
    BY <1>6, <2>4 DEF Loads
  <2> QED BY <1>8, <2>2, <2>3, <2>5
<1>9. CASE u = n /\ g.def[n] = NoDef
  <2>1. j \in g.dom[t] /\ j \in Inst
    BY <1>1, <1>3, <1>5, <1>9 DEF Graph
  <2>2. stands'[n][j] = need[j] /\ need[j] = UNION {stands[o][p[1]] : p \in {q \in R : q[2] = j}}
    BY <1>4, <1>6, <1>9, <2>1 DEF DInv, StandsOK, Needed, need
  <2>3. AffineRead(stands, scop, k[2])
    <3>1. run.edge \in run.edges /\ g.raw[run.edge] # {} /\ k[1] = run.src
      BY <1>1 DEF SourceOK, GroupOK, Linked
    <3> QED BY <1>3, <3>1 DEF GroupOK, Linked
  <2>4. stands[k[2]][j] \subseteq ProgramReads
    <3> SUFFICES ASSUME NEW v \in stands[k[2]][j] PROVE v \in ProgramReads
      OBVIOUS
    <3>1. v \in ReadAt
      BY <1>3, <1>4, <2>1
    <3>2. ReaderOf(scop, v) \in ScopPoints(scop)
      BY <1>3, <2>1 DEF LoadInv, ReadsOK, Flows
    <3> QED BY <3>1, <3>2 DEF ProgramReads
  <2>5. AtMostOne(SourcesAt(k[2], j))
    <3>1. AtMostOne(Loads(stands, k[2], j))
      BY <1>3, <2>1, <2>3 DEF OneLoad
    <3>2. ~ Divided(stands[k[2]][j])
      BY <2>4, DividedGrows
    <3> QED BY <1>1, <1>3, <2>1, <2>3, <3>1, <3>2, OneSourceHere
  <2>6. \A p, q \in R : p[2] = j /\ q[2] = j => p[1] = q[1]
    <3> SUFFICES ASSUME NEW p \in R, NEW q \in R, p[2] = j, q[2] = j PROVE p[1] = q[1]
      OBVIOUS
    <3>1. R = g.raw[<<k[1], k[2]>>] /\ R \subseteq Inst \X Inst
      BY <1>1, <1>3 DEF Graph, Map
    <3>2. p = <<p[1], j>> /\ p[1] \in Inst /\ q = <<q[1], j>> /\ q[1] \in Inst
      BY <3>1
    <3>3. <<k[1], p[1]>> \in SourcesAt(k[2], j) /\ <<k[1], q[1]>> \in SourcesAt(k[2], j)
      BY <1>3, <3>1, <3>2 DEF SourcesAt
    <3>4. <<k[1], p[1]>> = <<k[1], q[1]>>
      BY <2>5, <3>3 DEF AtMostOne
    <3> QED BY <3>4
  <2>7. CASE need[j] = {}
    BY <1>9, <2>2, <2>7 DEF AtMostOne
  <2>8. CASE need[j] # {}
    <3>1. PICK p \in R : p[2] = j /\ need[j] = stands[o][p[1]]
      <4>1. PICK p \in R : p[2] = j
        BY <2>2, <2>8
      <4>2. {stands[o][q[1]] : q \in {x \in R : x[2] = j}} = {stands[o][p[1]]}
        BY <2>6, <4>1
      <4>3. need[j] = stands[o][p[1]]
        BY <2>2, <4>2
      <4> QED BY <4>1, <4>3
    <3>2. p[1] \in g.dom[k[1]] /\ p[1] \in Inst
      BY <1>1, <1>3 DEF Tied, Graph
    <3>3. \E v \in stands[o][p[1]] : v[1] \in scop.affine
      BY <1>9, <2>1, <2>2, <2>8, <3>1 DEF AffineRead
    <3>4. AffineRead(stands, scop, o)
      BY <3>2, <3>3 DEF LoadInv, ReadsOK, Alike
    <3>5. AtMostOne(Loads(stands, o, p[1]))
      BY <1>3, <3>2, <3>4 DEF OneLoad
    <3> QED BY <1>9, <2>2, <3>1, <3>5 DEF Loads
  <2> QED BY <2>7, <2>8
<1> QED BY <1>4, <1>7, <1>8, <1>9

LEMMA RunCells == DInv /\ LoadInv /\ SourceOK /\ GroupInv /\ CellInv /\ [RunNext]_runVars => CellInv'
<1> SUFFICES ASSUME DInv, LoadInv, SourceOK, GroupInv, CellInv, [RunNext]_runVars PROVE CellInv'
  OBVIOUS
<1>1. CASE run.stage = "aborted" \/ run.blocked
  BY <1>1, GroupProgress DEF CellInv
<1>2. CASE Divided(ProgramReads)
  BY <1>2, StaysDivided DEF CellInv
<1>3. CASE GroupOK /\ OneLoad(g, stands) /\ ~ Divided(ProgramReads)
  <2>1. CASE Taken
    BY <1>3, <2>1, TakenCells DEF CellInv
  <2>2. CASE \E t \in Def : Split(t)
    BY <1>3, <2>2, SplitCells DEF CellInv
  <2>3. CASE \E o \in Use : ReloadOperand(o)
    BY <1>3, <2>3, ReloadCells DEF CellInv
  <2>4. CASE UNCHANGED <<scop, g, made, stands>>
    BY <1>3, <2>4, SameTakes, TakenCells DEF CellInv
  <2> QED BY <2>1, <2>2, <2>3, <2>4, RunSteps
<1> QED BY <1>1, <1>2, <1>3 DEF GroupInv, CellInv

-----------------------------------------------------------------------------
LEMMA OperandReads ==
    ASSUME DInv, NEW u \in AffineOperands
    PROVE  u \in Use /\ g.def[u] \in Def /\ AffineRead(stands, scop, u)
<1>1. g \in Graph
  BY InvHolds DEF Held
<1> QED BY <1>1 DEF AffineOperands, Subscripted, AffineRead, Graph

(***************************************************************************)
(* UseNode::verify: unless a blocked use was propagated, the value of an   *)
(* affine operand comes from one instance of one write, through every      *)
(* split, reload and deletion.  The excuse is a write between two of the   *)
(* reads it stands for that was deleted.                                   *)
(***************************************************************************)
THEOREM OneSourceCorrect == RunSpec => []OneSourceUnlessDivided
<1>1. RunInit => LoadInv /\ SourceOK /\ GroupInv /\ BarriersUnasked
  BY InitLoads, InitGroup DEF LoadInv, GroupInv
<1>2. DInv /\ LoadInv /\ GroupInv => OneSourceUnlessDivided
  <2> SUFFICES ASSUME DInv, LoadInv, GroupInv, Intact, NEW u \in AffineOperands, NEW j \in g.dom[g.def[u]],
                      AtMostOne(Loads(stands, u, j)), ~ Divided(stands[u][j])
               PROVE  AtMostOne(SourcesAt(u, j))
    BY DEF OneSourceUnlessDivided
  <2>1. op = Idle /\ GroupOK
    BY DEF Intact, GroupInv
  <2> QED BY <2>1, OperandReads, OneSourceHere
<1>3. DInv /\ LoadInv /\ SourceOK /\ BarriersUnasked /\ GroupInv /\ [RunNext]_runVars
         => LoadInv' /\ SourceOK' /\ BarriersUnasked' /\ GroupInv'
  BY RunReads, RunSource, RunUnasked, RunGroup
<1> QED BY <1>1, <1>2, <1>3, RunInvariance, PTL DEF RunSpec

(***************************************************************************)
(* addReloadAccesses finds one address to load an operand from: unless a   *)
(* blocked use was propagated or a write between two reads of its cell was *)
(* deleted, an affine operand loads one cell.                              *)
(***************************************************************************)
THEOREM OneCellCorrect == RunSpec => []OneCellUnlessDivided
<1>1. RunInit => LoadInv /\ SourceOK /\ GroupInv /\ BarriersUnasked /\ CellInv
  BY InitLoads, InitGroup, InitCells DEF LoadInv, GroupInv, CellInv
<1>2. DInv /\ CellInv => OneCellUnlessDivided
  BY OperandReads DEF OneCellUnlessDivided, CellInv, Intact, OneLoad
<1>3. DInv /\ LoadInv /\ SourceOK /\ BarriersUnasked /\ GroupInv /\ CellInv /\ [RunNext]_runVars
         => LoadInv' /\ SourceOK' /\ BarriersUnasked' /\ GroupInv' /\ CellInv'
  BY RunReads, RunSource, RunUnasked, RunGroup, RunCells
<1> QED BY <1>1, <1>2, <1>3, RunInvariance, PTL DEF RunSpec

-----------------------------------------------------------------------------
(* A set of instances that is inside of another one or outside of it. *)
WholeOrNone(S, T) == S \subseteq T \/ S \cap T = {}

(***************************************************************************)
(* What a cut is for: a piece of a statement is inside of each target      *)
(* domain it was cut along or outside of it, and no instance is in no      *)
(* piece.                                                                  *)
(***************************************************************************)
LEMMA CutDivides ==
    ASSUME NEW D, NEW s, IsPieces(s, D), NEW T
    PROVE  LET q == Cut(s, T)
           IN  /\ \A n \in 1..Len(q) : WholeOrNone(q[n], T) /\ \E m \in 1..Len(s) : q[n] \subseteq s[m]
               /\ \A m \in 1..Len(s) : \A x \in s[m] : \E n \in 1..Len(q) : x \in q[n]
<1> DEFINE q == Cut(s, T)
<1>1. PICK cut, at : IsCut(s, T, q, cut, at)
  BY CutParts
<1> HIDE DEF q
<1>2. cut = {n \in 1..Len(s) : s[n] \cap T # {} /\ ~ s[n] \subseteq T}
  BY <1>1 DEF IsCut
<1>3. \A n \in 1..Len(q) : \/ n \in 1..Len(s) /\ q[n] = IF n \in cut THEN s[n] \cap T ELSE s[n]
                           \/ \E m \in cut : n = at[m] /\ q[n] = s[m] \ T
  BY <1>1 DEF IsCut
<1>4. ASSUME NEW n \in 1..Len(q)
      PROVE  WholeOrNone(q[n], T) /\ \E m \in 1..Len(s) : q[n] \subseteq s[m]
  <2>1. CASE n \in 1..Len(s) /\ q[n] = IF n \in cut THEN s[n] \cap T ELSE s[n]
    BY <1>2, <2>1 DEF WholeOrNone
  <2>2. CASE \E m \in cut : n = at[m] /\ q[n] = s[m] \ T
    BY <1>2, <2>2 DEF WholeOrNone
  <2> QED BY <1>3, <2>1, <2>2
<1>5. ASSUME NEW m \in 1..Len(s), NEW x \in s[m] PROVE \E n \in 1..Len(q) : x \in q[n]
  <2>1. m \in 1..Len(q) /\ q[m] = IF m \in cut THEN s[m] \cap T ELSE s[m]
    BY <1>1 DEF IsCut
  <2>2. CASE m \notin cut \/ x \in T
    BY <2>1, <2>2
  <2>3. CASE m \in cut /\ x \notin T
    <3>1. at[m] \in 1..Len(q) /\ q[at[m]] = s[m] \ T
      BY <1>1, <2>3 DEF IsCut
    <3> QED BY <2>3, <3>1
  <2> QED BY <2>2, <2>3
<1> QED BY <1>4, <1>5 DEF q

-----------------------------------------------------------------------------
(***************************************************************************)
(* The pieces of a statement that is not split any more: its domain.       *)
(***************************************************************************)
PiecesOf(s, D) == IF s = <<>> THEN {D} ELSE {s[n] : n \in 1..Len(s)}
Pieces(t)      == PiecesOf(run.splits[t], g.dom[t])

(***************************************************************************)
(* No instance of a target is forgotten when it is split.  Targeted: every *)
(* edge to propagate has its target cut along its target domain, or this   *)
(* is on the list.  Covered: it reaches all of the instances of a piece or *)
(* none, which holds on until the edge is propagated.                      *)
(***************************************************************************)
Exhausts(s, D) == \A j \in D : \E S \in PiecesOf(s, D) : j \in S

Exhausted == \A t \in Def : Exhausts(run.splits[t], g.dom[t])

Targeted ==
    \A d \in Unpropagated, u \in Use :
        g.raw[<<d, u>>] # {} /\ ~ Barred(g, stands, scop, run.nonTrgs, u) =>
            /\ run.splits[g.def[u]] # <<>>
            /\ \/ TargetDomain(<<d, u>>) \in run.cuts[g.def[u]]
               \/ \A S \in Pieces(g.def[u]) : WholeOrNone(S, TargetDomain(<<d, u>>))

Covered ==
    \A d \in Unpropagated, u \in Use :
        g.def[u] \in Def /\ ~ Barred(g, stands, scop, run.nonTrgs, u) =>
            \A S \in Pieces(g.def[u]) : WholeOrNone(S, EdgeRange(g.raw[<<d, u>>]))

CoverOK ==
    /\ run.stage \in {"cut", "split"} => Exhausted
    /\ run.stage = "cut" => Targeted
    /\ Propagating => Covered

CoverInv == run.stage = "aborted" \/ run.blocked \/ CoverOK

LEMMA PiecesInside ==
    ASSUME NEW D, NEW s, IsPieces(s, D), NEW S \in PiecesOf(s, D)
    PROVE  S \subseteq D
<1>1. s \in Seq(SUBSET D)
  BY DEF IsPieces
<1>2. \A n \in 1..Len(s) : s[n] \in SUBSET D
  BY <1>1
<1> QED BY <1>2 DEF PiecesOf

(* An edge that loses only what ends outside of X is whole on X if it was on more. *)
LEMMA WholeKept ==
    ASSUME NEW S, NEW X \in SUBSET S, NEW R, NEW Q \in SUBSET R, WholeOrNone(S, EdgeRange(R)),
           \A p \in R : p[2] \in X => p \in Q
    PROVE  WholeOrNone(X, EdgeRange(Q))
<1>1. EdgeRange(Q) \subseteq EdgeRange(R)
  BY DEF EdgeRange
<1>2. CASE S \cap EdgeRange(R) = {}
  BY <1>1, <1>2 DEF WholeOrNone
<1>3. CASE S \subseteq EdgeRange(R)
  <2>1. ASSUME NEW x \in X PROVE x \in EdgeRange(Q)
    <3>1. PICK p \in R : p[2] = x
      BY <1>3 DEF EdgeRange
    <3>2. p \in Q
      BY <3>1
    <3> QED BY <3>1, <3>2 DEF EdgeRange
  <2> QED BY <2>1 DEF WholeOrNone
<1> QED BY <1>2, <1>3 DEF WholeOrNone

(* A step that takes away, but of the edges only what ends in an instance that is gone. *)
LEMMA CoverTaken ==
    ASSUME DInv', Covered, Taken, Unpropagated' \subseteq Unpropagated, Unpropagated \in SUBSET Def,
           run'.nonTrgs = run.nonTrgs,
           \A t \in Def : \A X \in PiecesOf(run'.splits[t], g'.dom[t]) : \E S \in Pieces(t) : X \subseteq S,
           \A d \in Def, u \in Use : g'.def[u] \in Def =>
               \A p \in g.raw[<<d, u>>] : p[2] \in g'.dom[g'.def[u]] => p \in g'.raw[<<d, u>>]
    PROVE  Covered'
<1> SUFFICES ASSUME NEW d \in Unpropagated', NEW u \in Use, g'.def[u] \in Def,
                    ~ Barred(g', stands', scop', run'.nonTrgs, u),
                    NEW X \in PiecesOf(run'.splits[g'.def[u]], g'.dom[g'.def[u]])
             PROVE  WholeOrNone(X, EdgeRange(g'.raw[<<d, u>>]))
  BY DEF Covered, Pieces
<1>1. PICK t \in Def : t = g'.def[u]
  OBVIOUS
<1>2. d \in Unpropagated /\ d \in Def /\ scop' = scop
  BY DEF Taken
<1>3. t = g.def[u] /\ stands'[u] = stands[u] /\ g'.raw[<<d, u>>] \subseteq g.raw[<<d, u>>]
  BY <1>1, <1>2, NoDefAssumption DEF Taken, Narrows
<1>4. ~ Barred(g, stands, scop, run.nonTrgs, u)
  BY <1>1, <1>2, <1>3 DEF Barred, AffineRead
<1>5. PICK S \in Pieces(t) : X \subseteq S
  BY <1>1
<1>6. WholeOrNone(S, EdgeRange(g.raw[<<d, u>>]))
  BY <1>2, <1>3, <1>4, <1>5 DEF Covered
<1>7. X \subseteq g'.dom[t]
  <2>1. IsPieces(run'.splits[t], g'.dom[t])
    BY <1>1 DEF DInv, SplitsOK
  <2> QED BY <1>1, <2>1, PiecesInside
<1>8. \A p \in g.raw[<<d, u>>] : p[2] \in X => p \in g'.raw[<<d, u>>]
  BY <1>1, <1>2, <1>7
<1> QED BY <1>3, <1>5, <1>6, <1>8, WholeKept

(* What is left of the domain is in the pieces that there are. *)
LEMMA ExhaustedLess ==
    ASSUME NEW D, NEW E \in SUBSET D, NEW s, Exhausts(s, D)
    PROVE  Exhausts(s, E)
BY DEF Exhausts, PiecesOf

(* A setDomain: its beginning, after a source was propagated, or a visit of an edge. *)
LEMMA StepCover ==
    ASSUME DInv, DInv', CoverOK, run.stage \in {"split", "propagate"}, [Next]_vars,
           stands' = stands, made' = made, run'.stage = run.stage, Unpropagated' \subseteq Unpropagated,
           run'.nonTrgs = run.nonTrgs, run'.splits = run.splits
    PROVE  CoverOK'
<1>1. EInv /\ Taken /\ Unpropagated \in SUBSET Def
  BY RestrictTakes, UnpropagatedIn DEF DInv, OperandsOK, EInv
<1>2. ReadsStep(g, g')
  BY <1>1, StepEdges
<1>3. ASSUME NEW d \in Def, NEW u \in Use, g'.def[u] \in Def, NEW p \in g.raw[<<d, u>>],
             p[2] \in g'.dom[g'.def[u]]
      PROVE  p \in g'.raw[<<d, u>>]
  <2>1. <<d, u>> \in Def \X Use /\ <<d, u>>[2] = u
    OBVIOUS
  <2> QED BY <1>2, <1>3, <2>1 DEF ReadsStep
<1>4. ASSUME NEW t \in Def, NEW X \in PiecesOf(run'.splits[t], g'.dom[t])
      PROVE  \E S \in Pieces(t) : X \subseteq S
  BY <1>2 DEF PiecesOf, Pieces, ReadsStep
<1>5. Covered'
  <2>1. Covered
    BY DEF CoverOK, Propagating
  <2> QED BY <1>1, <1>3, <1>4, <2>1, CoverTaken
<1>6. run'.stage = "split" => Exhausted'
  BY <1>2, ExhaustedLess DEF CoverOK, Exhausted, ReadsStep
<1> QED BY <1>5, <1>6 DEF CoverOK

(* A step that leaves the nodes and the edges. *)
LEMMA SameCover ==
    ASSUME DInv, DInv', CoverOK, run.stage \in {"propagate", "reload"}, run'.stage \in {"propagate", "reload"},
           Taken, g'.dom = g.dom, \A d \in Def, u \in Use : g'.def[u] \in Def => g'.raw[<<d, u>>] = g.raw[<<d, u>>],
           Unpropagated' \subseteq Unpropagated, run'.nonTrgs = run.nonTrgs, run'.splits = run.splits
    PROVE  CoverOK'
<1>1. \A t \in Def : \A X \in PiecesOf(run'.splits[t], g'.dom[t]) : \E S \in Pieces(t) : X \subseteq S
  BY DEF Pieces
<1>2. Covered /\ Unpropagated \in SUBSET Def
  BY UnpropagatedIn DEF CoverOK, Propagating
<1>3. Covered'
  BY <1>1, <1>2, CoverTaken
<1> QED BY <1>3 DEF CoverOK

-----------------------------------------------------------------------------
(* A setDomain, or nothing at all. *)
LEMMA VisitCover ==
    ASSUME DInv, DInv', SourceOK, CoverOK,
           ((VisitEdge \/ NextPhase) /\ UNCHANGED <<run, made, stands>>) \/ UNCHANGED runVars
    PROVE  CoverOK'
<1>1. CASE UNCHANGED runVars
  <2>1. UNCHANGED <<scop, g, must, op, run, made, stands>>
    BY <1>1 DEF runVars
  <2>2. Exhausted => Exhausted'
    BY <2>1 DEF Exhausted, Exhausts
  <2>3. Unpropagated' = Unpropagated /\ \A t : Pieces(t)' = Pieces(t)
    BY <2>1 DEF Unpropagated, Pieces
  <2>4. \A k : TargetDomain(k)' = TargetDomain(k)
    BY <2>1 DEF TargetDomain
  <2>5. \A u : Barred(g', stands', scop', run'.nonTrgs, u) <=> Barred(g, stands, scop, run.nonTrgs, u)
    BY <2>1
  <2>6. Targeted => Targeted'
    BY <2>1, <2>3, <2>4, <2>5 DEF Targeted
  <2>7. Covered => Covered'
    BY <2>1, <2>3, <2>5 DEF Covered
  <2> QED BY <2>1, <2>2, <2>6, <2>7 DEF CoverOK, Propagating
<1>2. CASE (VisitEdge \/ NextPhase) /\ UNCHANGED <<run, made, stands>>
  <2>1. op # Idle
    BY <1>2 DEF VisitEdge, NextPhase, Idle
  <2>2. run.stage \notin {"reload", "cut"}
    BY <2>1 DEF DInv, OperandsOK, Detached, SourceOK
  <2>3. CASE run.stage \in {"split", "propagate"}
    BY <1>2, <2>3, StepCover DEF Next, Unpropagated
  <2>4. CASE run.stage \notin {"split", "propagate"}
    BY <1>2, <2>2, <2>4 DEF CoverOK, Propagating
  <2> QED BY <2>3, <2>4
<1> QED BY <1>1, <1>2

LEMMA FinishSourceCover ==
    ASSUME DInv, DInv', CoverOK, FinishSource
    PROVE  CoverOK'
<1>1. /\ run.stage = "propagate" /\ run.src # NoDef /\ RestrictOnce(run.src)
      /\ run \in RunRecord /\ UNCHANGED <<made, stands>>
      /\ run' = [run EXCEPT !.src = NoDef]
  BY DEF FinishSource, RestrictOnce, DInv, RunOK
<1>2. /\ run'.stage = "propagate" /\ run'.src = NoDef /\ run'.splits = run.splits
      /\ run'.nonTrgs = run.nonTrgs /\ run'.todo = run.todo /\ run.src \in Def
  BY <1>1 DEF RunRecord
<1>3. [Next]_vars
  BY <1>1, <1>2 DEF RestrictOnce, Next
<1>4. Unpropagated' \subseteq Unpropagated
  BY <1>2, NoDefAssumption DEF Unpropagated
<1> QED BY <1>1, <1>2, <1>3, <1>4, StepCover

(* A source is taken up, and its edges are propagated one by one. *)
LEMMA PickSourceCover ==
    ASSUME DInv, DInv', CoverOK, NEW d \in Def, PickSource(d)
    PROVE  CoverOK'
<1>1. /\ run.stage = "propagate" /\ run.src = NoDef /\ d \in run.todo /\ run \in RunRecord
      /\ UNCHANGED <<scop, g, made, stands>>
      /\ run'.stage = "propagate" /\ run'.src = d /\ run'.todo = run.todo \ {d}
      /\ run'.splits = run.splits /\ run'.nonTrgs = run.nonTrgs
  BY PickSourceFacts DEF PickSource, DInv, RunOK
<1>2. Unpropagated' \subseteq Unpropagated
  BY <1>1 DEF Unpropagated
<1>3. Taken
  BY <1>1, SameTakes
<1> QED BY <1>1, <1>2, <1>3, SameCover

LEMMA PropagateEdgeCover ==
    ASSUME DInv, DInv', CoverOK, NEW k \in Def \X Use, PropagateEdge(k)
    PROVE  CoverOK'
<1>1. /\ run.stage = "propagate" /\ g' = RemoveOperand(g, k[2]) /\ run \in RunRecord
      /\ run' = [run EXCEPT !.stage = "reload", !.edge = k, !.loads = g.ops[k[1]] \ {k[2]}]
  BY DEF PropagateEdge, DInv, RunOK
<1>2. /\ run'.stage = "reload" /\ run'.src = run.src /\ run'.todo = run.todo
      /\ run'.splits = run.splits /\ run'.nonTrgs = run.nonTrgs
  BY <1>1 DEF RunRecord
<1>3. g'.raw = g.raw /\ g'.dom = g.dom
  BY <1>1, InvHolds DEF Held, RemoveOperand, Graph
<1>4. Unpropagated' = Unpropagated
  BY <1>2 DEF Unpropagated
<1>5. Taken
  BY RemoveTakes
<1> QED BY <1>1, <1>2, <1>3, <1>4, <1>5, SameCover

LEMMA FinishEdgeCover ==
    ASSUME DInv, DInv', CoverOK, FinishEdge
    PROVE  CoverOK'
<1>1. /\ run.stage = "reload" /\ op = Idle /\ run \in RunRecord /\ g' = ClearPropagated(g, run.edge)
      /\ run' = [run EXCEPT !.stage = "propagate", !.edges = @ \ {run.edge}, !.edge = NoEdge]
  BY DEF FinishEdge, DInv, RunOK
<1>2. /\ run'.stage = "propagate" /\ run'.src = run.src /\ run'.todo = run.todo
      /\ run'.splits = run.splits /\ run'.nonTrgs = run.nonTrgs
  BY <1>1 DEF RunRecord
<1>3. Taken /\ \A u \in Use : g'.def[u] # NoDef => u # run.edge[2]
  BY ClearTakes
<1>4. PICK k : k = run.edge
  OBVIOUS
<1>5. g \in Graph /\ k \in Def \X Use
  BY <1>1, <1>4, InvHolds DEF Held, DInv, OperandsOK, Detached
<1>6. g'.dom = g.dom /\ \A e \in Def \X Use : e # k => g'.raw[e] = g.raw[e]
  BY <1>1, <1>4, <1>5 DEF ClearPropagated, Graph
<1>7. ASSUME NEW d \in Def, NEW u \in Use, g'.def[u] \in Def PROVE g'.raw[<<d, u>>] = g.raw[<<d, u>>]
  <2>1. u # k[2]
    BY <1>3, <1>4, <1>7, NoDefAssumption
  <2>2. <<d, u>> # k
    BY <2>1
  <2> QED BY <1>6, <2>2
<1>8. Unpropagated' = Unpropagated
  BY <1>2 DEF Unpropagated
<1> QED BY <1>1, <1>2, <1>3, <1>6, <1>7, <1>8, SameCover

-----------------------------------------------------------------------------
(* When no statement is to be split any more, each is the one piece that is left. *)
LEMMA OnlyPiece ==
    ASSUME NEW D, NEW s, IsPieces(s, D), Len(s) <= 1, Exhausts(s, D)
    PROVE  D \in PiecesOf(s, D)
<1>1. Len(s) \in Nat /\ s \in Seq(SUBSET D)
  BY DEF IsPieces
<1>2. CASE s = <<>>
  BY <1>2 DEF PiecesOf
<1>3. CASE s # <<>>
  <2>1. Len(s) = 1
    <3>1. Len(s) # 0
      BY <1>1, <1>3, EmptySeq
    <3>2. \A n \in Nat : n <= 1 /\ n # 0 => n = 1
      OBVIOUS
    <3> QED BY <1>1, <3>1, <3>2
  <2>2. PiecesOf(s, D) = {s[1]} /\ s[1] \in SUBSET D
    BY <1>1, <1>3, <2>1 DEF PiecesOf
  <2>3. D \subseteq s[1]
    BY <2>2 DEF Exhausts
  <2>4. s[1] = D
    BY <2>2, <2>3
  <2> QED BY <2>2, <2>4
<1> QED BY <1>2, <1>3

LEMMA StartPropagationCover ==
    ASSUME DInv, DInv', CoverOK, StartPropagation
    PROVE  CoverOK'
<1>1. /\ run.stage = "split" /\ UNCHANGED <<scop, g, made, stands>> /\ run \in RunRecord
      /\ \A t \in Def : Len(run.splits[t]) <= 1
      /\ run' = [run EXCEPT !.stage = "propagate", !.splits = [t \in Def |-> <<>>]]
  BY DEF StartPropagation, DInv, RunOK
<1>2. /\ run'.stage = "propagate" /\ run'.src = run.src /\ run'.todo = run.todo
      /\ run'.nonTrgs = run.nonTrgs /\ \A t \in Def : run'.splits[t] = <<>>
  BY <1>1 DEF RunRecord
<1>3. Covered /\ Exhausted /\ Unpropagated \in SUBSET Def
  BY <1>1, UnpropagatedIn DEF CoverOK, Propagating
<1>4. ASSUME NEW t \in Def, NEW X \in PiecesOf(run'.splits[t], g'.dom[t])
      PROVE  \E S \in Pieces(t) : X \subseteq S
  <2>1. X = g.dom[t]
    BY <1>1, <1>2, <1>4 DEF PiecesOf
  <2>2. g.dom[t] \in Pieces(t)
    BY <1>1, <1>3, OnlyPiece DEF Exhausted, Pieces, DInv, SplitsOK
  <2> QED BY <2>1, <2>2
<1>5. Unpropagated' = Unpropagated
  BY <1>2 DEF Unpropagated
<1>6. Covered'
  BY <1>1, <1>2, <1>3, <1>4, <1>5, SameTakes, CoverTaken
<1> QED BY <1>2, <1>6 DEF CoverOK

(* The operand that is reloaded gets a source in the group only through a read that is not affine. *)
LEMMA ReloadCover ==
    ASSUME DInv, LoadInv, SourceOK, GroupOK, CoverOK, NEW o \in Use, ReloadOperand(o)
    PROVE  CoverOK'
<1>1. PICK k : k = run.edge
  OBVIOUS
<1>2. PICK n, t : /\ IsReloadOf(g, stands, scop, o, n, k, t, g', stands')
                  /\ UNCHANGED <<scop, must, op, made>>
  BY <1>1, ReloadIs
<1>3. run.stage = "reload" /\ run \in RunRecord /\ run' = [run EXCEPT !.loads = @ \ {o}]
  BY DEF ReloadOperand, DInv, RunOK
<1>4. /\ run'.stage = "reload" /\ run'.src = run.src /\ run'.todo = run.todo
      /\ run'.nonTrgs = run.nonTrgs /\ run'.splits = run.splits
  BY <1>3 DEF RunRecord
<1>5. Unpropagated' = Unpropagated /\ Unpropagated \in SUBSET Def
  BY <1>4, UnpropagatedIn DEF Unpropagated
<1>6. IsGroupReload(g, made, stands, scop, o, n, k, t, g', stands', run.nonTrgs, Unpropagated)
  BY <1>1, <1>2, <1>3, ReloadInGroup
<1>7. /\ g' \in Graph /\ g'.dom = g.dom
      /\ \A u \in Use : g'.def[u] = IF u = n THEN t ELSE g.def[u]
      /\ \A e \in Def, u \in Use : u # n => g'.raw[<<e, u>>] = g.raw[<<e, u>>]
  BY <1>2, ReloadEdges
<1>8. /\ k[1] \in Unpropagated /\ Chained(g, stands, scop, run.nonTrgs, Unpropagated)
      /\ \A u \in Use : u # n => stands'[u] = stands[u]
      /\ n \in Use /\ Reloaded(g, o, n, k, t, g')
  BY <1>2, <1>6 DEF IsGroupReload, IsReloadOf
<1>9. Covered
  BY <1>3 DEF CoverOK, Propagating
<1>10. ASSUME NEW d \in Unpropagated, NEW u \in Use, g'.def[u] \in Def,
              ~ Barred(g', stands', scop, run.nonTrgs, u), NEW X \in Pieces(g'.def[u])
       PROVE  WholeOrNone(X, EdgeRange(g'.raw[<<d, u>>]))
  <2>1. CASE u # n
    <3>1. g'.def[u] = g.def[u] /\ stands'[u] = stands[u] /\ g'.raw[<<d, u>>] = g.raw[<<d, u>>]
      BY <1>5, <1>7, <1>8, <2>1
    <3>2. ~ Barred(g, stands, scop, run.nonTrgs, u)
      BY <1>10, <3>1 DEF Barred, AffineRead
    <3> QED BY <1>9, <1>10, <3>1, <3>2 DEF Covered
  <2>2. CASE u = n /\ g'.raw[<<d, u>>] = {}
    BY <2>2 DEF WholeOrNone, EdgeRange
  <2>3. CASE u = n /\ g'.raw[<<d, u>>] # {}
    <3>1. scop.array[d] = scop.array[k[1]] /\ d \in Def /\ AffineRead(stands', scop, n)
      BY <1>5, <1>8, <1>10, <2>3 DEF Chained, Barred
    <3>2. \A i, j \in Inst : <<i, j>> \in g'.raw[<<d, n>>] =>
             <<i, j>> \in g.raw[<<d, n>>] /\ g.def[n] = t /\ AffineRead(stands, scop, n)
      <4> SUFFICES ASSUME NEW i \in Inst, NEW j \in Inst, <<i, j>> \in g'.raw[<<d, n>>]
                   PROVE  <<i, j>> \in g.raw[<<d, n>>] /\ g.def[n] = t /\ AffineRead(stands, scop, n)
        OBVIOUS
      <4>1. d \in Def /\ scop.array[d] = scop.array[k[1]]
        BY <3>1
      <4>2. \/ <<i, j>> \in g.raw[<<d, n>>] /\ g.def[n] = t /\ AffineRead(stands, scop, n)
            \/ ~ AffineRead(stands', scop, n) /\ ~ AffineRead(stands, scop, o) /\ g.raw[<<d, o>>] # {}
        BY <1>6, <4>1, ReloadNewEdge
      <4> QED BY <3>1, <4>2
    <3>3. \E i, j \in Inst : <<i, j>> \in g'.raw[<<d, n>>]
      BY <1>7, <1>8, <2>3, <3>1, EdgePair
    <3>4. g.def[n] = t /\ AffineRead(stands, scop, n) /\ g'.def[n] = t
      BY <1>7, <1>8, <3>2, <3>3
    <3>5. g'.raw[<<d, n>>] = g.raw[<<d, n>>]
      <4>1. <<d, n>> \in Def \X Use /\ <<d, n>>[2] = n
        BY <1>8, <3>1
      <4>2. g'.raw[<<d, n>>] \in SUBSET (Inst \X Inst)
        BY <1>7, <4>1 DEF Graph, Map
      <4>3. g.raw[<<d, n>>] \subseteq g'.raw[<<d, n>>]
        BY <1>8, <4>1 DEF Reloaded
      <4>4. \A p \in g'.raw[<<d, n>>] : p \in g.raw[<<d, n>>]
        BY <3>2, <4>2
      <4> QED BY <4>3, <4>4
    <3>6. ~ Barred(g, stands, scop, run.nonTrgs, n)
      BY <1>10, <2>3, <3>4 DEF Barred
    <3> QED BY <1>8, <1>9, <1>10, <2>3, <3>4, <3>5, <3>6 DEF Covered
  <2> QED BY <2>1, <2>2, <2>3
<1>11. \A t1 : Pieces(t1)' = Pieces(t1)
  BY <1>4, <1>7 DEF Pieces
<1>12. Covered'
  BY <1>2, <1>4, <1>5, <1>10, <1>11 DEF Covered
<1> QED BY <1>4, <1>12 DEF CoverOK

-----------------------------------------------------------------------------
LEMMA CutCovers ==
    ASSUME NEW D, NEW s, IsPieces(s, D), s # <<>>, NEW T
    PROVE  LET q == Cut(s, T)
           IN  /\ q # <<>>
               /\ \A X \in PiecesOf(q, D) : WholeOrNone(X, T) /\ \E S \in PiecesOf(s, D) : X \subseteq S
               /\ Exhausts(s, D) => Exhausts(q, D)
<1> DEFINE q == Cut(s, T)
<1>1. /\ \A n \in 1..Len(q) : WholeOrNone(q[n], T) /\ \E m \in 1..Len(s) : q[n] \subseteq s[m]
      /\ \A m \in 1..Len(s) : \A x \in s[m] : \E n \in 1..Len(q) : x \in q[n]
  BY CutDivides
<1> HIDE DEF q
<1>2. PiecesOf(s, D) = {s[n] : n \in 1..Len(s)}
  BY DEF PiecesOf
<1>3. q # <<>>
  <2>1. s \in Seq(SUBSET D)
    BY DEF IsPieces
  <2>2. Len(s) \in Nat \ {0}
    BY <2>1, EmptySeq
  <2>3. 1 \in 1..Len(s)
    BY <2>2
  <2>4. PICK x : x \in s[1]
    BY <2>3 DEF IsPieces
  <2>5. PICK n \in 1..Len(q) : x \in q[n]
    BY <1>1, <2>3, <2>4
  <2>6. q = <<>> => Len(q) = 0 /\ 1..0 = {}
    OBVIOUS
  <2> QED BY <2>5, <2>6
<1>4. PiecesOf(q, D) = {q[n] : n \in 1..Len(q)}
  BY <1>3 DEF PiecesOf
<1>5. ASSUME NEW X \in PiecesOf(q, D) PROVE WholeOrNone(X, T) /\ \E S \in PiecesOf(s, D) : X \subseteq S
  <2>1. PICK n \in 1..Len(q) : X = q[n]
    BY <1>4
  <2>2. PICK m \in 1..Len(s) : q[n] \subseteq s[m]
    BY <1>1
  <2>3. s[m] \in PiecesOf(s, D) /\ WholeOrNone(q[n], T)
    BY <1>1, <1>2
  <2> QED BY <2>1, <2>2, <2>3
<1>6. ASSUME Exhausts(s, D), NEW j \in D PROVE \E X \in PiecesOf(q, D) : j \in X
  <2>1. PICK m \in 1..Len(s) : j \in s[m]
    BY <1>2, <1>6 DEF Exhausts
  <2>2. PICK n \in 1..Len(q) : j \in q[n]
    BY <1>1, <2>1
  <2> QED BY <1>4, <2>2
<1>7. Exhausts(s, D) => Exhausts(q, D)
  BY <1>6 DEF Exhausts
<1> QED BY <1>3, <1>5, <1>7 DEF q

LEMMA CutTargetCover ==
    ASSUME DInv, CoverOK, CutTarget
    PROVE  CoverOK'
<1>1. run.stage = "cut" /\ run \in RunRecord /\ UNCHANGED <<scop, g, must, op, made, stands>>
  BY DEF CutTarget, DInv, RunOK
<1>2. PICK D, t : t \in Def /\ run' = [run EXCEPT !.splits[t] = Cut(@, D), !.cuts[t] = @ \ {D}]
  BY DEF CutTarget
<1>3. /\ run'.stage = "cut" /\ run'.src = run.src /\ run'.todo = run.todo
      /\ run'.nonTrgs = run.nonTrgs
      /\ \A x \in Def : run'.splits[x] = IF x = t THEN Cut(run.splits[t], D) ELSE run.splits[x]
      /\ \A x \in Def : run'.cuts[x] = IF x = t THEN run.cuts[t] \ {D} ELSE run.cuts[x]
  BY <1>1, <1>2 DEF RunRecord
<1>4. Unpropagated' = Unpropagated /\ Unpropagated \in SUBSET Def /\ Exhausted /\ Targeted
  BY <1>1, <1>3, UnpropagatedIn DEF Unpropagated, CoverOK
<1>5. IsPieces(run.splits[t], g.dom[t])
  BY <1>2 DEF DInv, SplitsOK
<1>6. \A x \in Def : Exhausts(run'.splits[x], g.dom[x])
  <2>1. Exhausts(run.splits[t], g.dom[t]) => Exhausts(Cut(run.splits[t], D), g.dom[t])
    <3>1. CASE run.splits[t] = <<>>
      BY <3>1, CutNone
    <3>2. CASE run.splits[t] # <<>>
      BY <1>5, <3>2, CutCovers
    <3> QED BY <3>1, <3>2
  <2> QED BY <1>2, <1>3, <1>4, <2>1 DEF Exhausted
<1>7. ASSUME NEW d \in Unpropagated, NEW u \in Use, g.raw[<<d, u>>] # {},
             ~ Barred(g, stands, scop, run.nonTrgs, u)
      PROVE  /\ run'.splits[g.def[u]] # <<>>
             /\ \/ TargetDomain(<<d, u>>) \in run'.cuts[g.def[u]]
                \/ \A S \in PiecesOf(run'.splits[g.def[u]], g.dom[g.def[u]]) :
                      WholeOrNone(S, TargetDomain(<<d, u>>))
  <2>1. PICK e, T : e = g.def[u] /\ T = TargetDomain(<<d, u>>)
    OBVIOUS
  <2>2. /\ run.splits[e] # <<>>
        /\ T \in run.cuts[e] \/ \A S \in PiecesOf(run.splits[e], g.dom[e]) : WholeOrNone(S, T)
    BY <1>4, <1>7, <2>1 DEF Targeted, Pieces
  <2>3. e \in Def
    <3>1. op.phase = 0 /\ <<d, u>> \in Def \X Use /\ <<d, u>>[2] = u
      BY <1>4 DEF CutTarget, Idle
    <3> QED BY <1>7, <2>1, <3>1, TargetExists DEF DInv
  <2>4. CASE e # t
    BY <1>3, <2>1, <2>2, <2>3, <2>4
  <2>5. CASE e = t
    <3>1. /\ run'.splits[t] # <<>>
          /\ \A X \in PiecesOf(run'.splits[t], g.dom[t]) :
                WholeOrNone(X, D) /\ \E S \in PiecesOf(run.splits[t], g.dom[t]) : X \subseteq S
      BY <1>2, <1>3, <1>5, <2>2, <2>5, CutCovers
    <3>2. CASE T \in run.cuts[t] /\ T # D
      BY <1>2, <1>3, <2>1, <2>5, <3>1, <3>2
    <3>3. CASE T = D
      BY <2>1, <2>5, <3>1, <3>3
    <3>4. CASE \A S \in PiecesOf(run.splits[t], g.dom[t]) : WholeOrNone(S, T)
      BY <2>1, <2>5, <3>1, <3>4 DEF WholeOrNone
    <3> QED BY <2>2, <2>5, <3>2, <3>3, <3>4
  <2> QED BY <2>4, <2>5
<1>8. Exhausted'
  BY <1>1, <1>6 DEF Exhausted
<1>9. Targeted'
  <2>1. \A k : TargetDomain(k)' = TargetDomain(k)
    BY <1>1 DEF TargetDomain
  <2> QED BY <1>1, <1>3, <1>4, <1>7, <2>1 DEF Targeted, Pieces
<1> QED BY <1>3, <1>8, <1>9 DEF CoverOK, Propagating

(* No edge of the group is blocked: all it reaches of a target is in the target domain. *)
LEMMA StartSplitsCover ==
    ASSUME DInv, SourceOK, CoverOK, StartSplits, ~ run'.blocked
    PROVE  CoverOK'
<1>1. /\ run.stage = "cut" /\ UNCHANGED <<scop, g, must, op, made, stands>> /\ run \in RunRecord
      /\ \A t \in Def : run.cuts[t] = {}
  BY DEF StartSplits, AllCut, DInv, RunOK
<1>2. /\ run'.stage = "split" /\ run'.src = run.src /\ run'.todo = run.todo
      /\ run'.nonTrgs = run.nonTrgs /\ run'.splits = run.splits
      /\ run'.blocked = (run.blocked \/ \E k \in OutEdges(run.todo) : ~ Unblocked(k))
  BY <1>1 DEF StartSplits, RunRecord
<1>3. run.src = NoDef
  BY <1>1 DEF SourceOK
<1>4. Unpropagated' = Unpropagated /\ Unpropagated = run.todo /\ Unpropagated \in SUBSET Def
  BY <1>2, <1>3, NoDefAssumption, UnpropagatedIn DEF Unpropagated
<1>5. Exhausted /\ Targeted
  BY <1>1 DEF CoverOK
<1>6. ASSUME NEW d \in Unpropagated, NEW u \in Use, g.def[u] \in Def,
             ~ Barred(g, stands, scop, run.nonTrgs, u), NEW S \in Pieces(g.def[u])
      PROVE  WholeOrNone(S, EdgeRange(g.raw[<<d, u>>]))
  <2>1. CASE g.raw[<<d, u>>] = {}
    BY <2>1 DEF WholeOrNone, EdgeRange
  <2>2. CASE g.raw[<<d, u>>] # {}
    <3>1. <<d, u>> \in OutEdges(run.todo)
      BY <1>4, <2>2 DEF OutEdges
    <3>2. RecomputeUses(scop, g, <<d, u>>) = g.raw[<<d, u>>]
      BY <1>2, <3>1 DEF Unblocked
    <3>3. TargetDomain(<<d, u>>) = EdgeRange(g.raw[<<d, u>>])
      BY <3>2 DEF TargetDomain, RecomputeDomain, EdgeDomain, EdgeRange
    <3>4. WholeOrNone(S, TargetDomain(<<d, u>>))
      BY <1>1, <1>5, <1>6, <2>2 DEF Targeted
    <3> QED BY <3>3, <3>4
  <2> QED BY <2>1, <2>2
<1>7. Covered'
  BY <1>1, <1>2, <1>4, <1>6 DEF Covered, Pieces
<1>8. Exhausted'
  BY <1>1, <1>2, <1>5 DEF Exhausted
<1> QED BY <1>2, <1>7, <1>8 DEF CoverOK

(* Out of a group nothing is asked. *)
LEMMA OutsideCover ==
    ASSUME DInv, run.stage # "aborted",
           (\E d \in Def : RestrictNode(d)) \/ EndLoop \/ EndWorklist \/ GiveUp \/ FinishGroup \/ Abort
    PROVE  CoverOK'
<1>1. run \in RunRecord
  BY DEF DInv, RunOK
<1>2. run'.stage \in {"create", "worklist", "delete", "done", "aborted"}
  <2>1. CASE \E d \in Def : RestrictNode(d)
    BY <1>1, <2>1 DEF RestrictNode, RunRecord
  <2>2. CASE EndLoop \/ EndWorklist \/ GiveUp \/ FinishGroup \/ Abort
    BY <1>1, <2>2 DEF EndLoop, EndWorklist, GiveUp, FinishGroup, Abort, RunRecord
  <2> QED BY <2>1, <2>2
<1> QED BY <1>2 DEF CoverOK, Propagating

-----------------------------------------------------------------------------
(* The copy of a statement that is split has all of its pieces but the second one. *)
LEMMA PiecesSplit ==
    ASSUME NEW D, NEW s, IsPieces(s, D), Len(s) > 1
    PROVE  LET q == <<s[1]>> \o SubSeq(s, 3, Len(s))
           IN  /\ q # <<>>
               /\ \A X \in PiecesOf(q, D \ s[2]) : X \in PiecesOf(s, D)
               /\ Exhausts(s, D) => Exhausts(q, D \ s[2])
<1> DEFINE q == <<s[1]>> \o SubSeq(s, 3, Len(s))
<1>1. s \in Seq(SUBSET D) /\ Len(s) \in Nat
  BY DEF IsPieces
<1>2. \A n \in 1..Len(s) : s[n] \in SUBSET D
  BY <1>1
<1>3. /\ Len(q) = Len(s) - 1 /\ q[1] = s[1] /\ q \in Seq(SUBSET D)
      /\ \A n \in 2..Len(s) - 1 : q[n] = s[n + 1]
  <2> DEFINE r == SubSeq(s, 3, Len(s))
             E == SUBSET D
  <2>1. 3 \in Int /\ Len(s) \in Int /\ \A n \in 3..Len(s) : s[n] \in E
    BY <1>1, <1>2
  <2> HIDE DEF E
  <2>2. /\ r \in Seq(E)
        /\ Len(r) = IF 3 <= Len(s) THEN Len(s) - 3 + 1 ELSE 0
        /\ \A n \in 1..Len(s) - 3 + 1 : r[n] = s[3 + n - 1]
    BY ONLY <2>1, SubSeqProperties DEF r
  <2> HIDE DEF r
  <2>3. Len(r) = Len(s) - 2
    <3>1. CASE 3 <= Len(s)
      <4>1. Len(r) = Len(s) - 3 + 1
        BY <2>2, <3>1
      <4> QED BY <1>1, <4>1
    <3>2. CASE ~ (3 <= Len(s))
      <4>1. Len(r) = 0
        BY <2>2, <3>2
      <4>2. PICK L \in Nat : L = Len(s)
        BY <1>1
      <4> QED BY <3>2, <4>1, <4>2
    <3> QED BY <3>1, <3>2
  <2>4. \A n \in 1..Len(s) - 2 : r[n] = s[n + 2]
    BY <1>1, <2>2
  <2>5. <<s[1]>> \in Seq(E) /\ Len(<<s[1]>>) = 1
    BY <1>1, <1>2 DEF E
  <2>6. /\ <<s[1]>> \o r \in Seq(E) /\ Len(<<s[1]>> \o r) = 1 + Len(r)
        /\ \A n \in 1..1 + Len(r) : (<<s[1]>> \o r)[n] = IF n <= 1 THEN <<s[1]>>[n] ELSE r[n - 1]
    BY <2>2, <2>5, ConcatProperties
  <2>7. q = <<s[1]>> \o r
    BY DEF r
  <2> HIDE DEF q
  <2> QED BY <1>1, <2>3, <2>4, <2>6, <2>7 DEF E
<1> HIDE DEF q
<1>4. q # <<>>
  <2>1. q = <<>> => Len(q) = 0
    OBVIOUS
  <2>2. \A n \in Nat : n > 1 => n - 1 # 0
    OBVIOUS
  <2> QED BY <1>1, <1>3, <2>1, <2>2
<1>5. PiecesOf(q, D \ s[2]) = {q[n] : n \in 1..Len(q)}
  BY <1>4 DEF PiecesOf
<1>6. PiecesOf(s, D) = {s[n] : n \in 1..Len(s)}
  <2>1. s = <<>> => Len(s) = 0
    OBVIOUS
  <2>2. s # <<>>
    BY <1>1, <2>1
  <2> QED BY <2>2 DEF PiecesOf
<1>7. ASSUME NEW n \in 1..Len(q) PROVE \E m \in 1..Len(s) : q[n] = s[m]
  <2>1. CASE n = 1
    BY <1>1, <1>3, <2>1
  <2>2. CASE n # 1
    <3>1. n \in 2..Len(s) - 1 /\ n + 1 \in 1..Len(s)
      BY <1>1, <1>3, <2>2
    <3> QED BY <1>3, <3>1
  <2> QED BY <2>1, <2>2
<1>8. ASSUME NEW m \in 1..Len(s), m # 2 PROVE \E n \in 1..Len(q) : q[n] = s[m]
  <2>1. CASE m = 1
    BY <1>1, <1>3, <2>1
  <2>2. CASE m # 1
    <3>1. m - 1 \in 2..Len(s) - 1 /\ m - 1 \in 1..Len(q) /\ m - 1 + 1 = m
      BY <1>1, <1>3, <1>8, <2>2
    <3> QED BY <1>3, <3>1
  <2> QED BY <2>1, <2>2
<1>9. ASSUME Exhausts(s, D), NEW j \in D, j \notin s[2]
      PROVE  \E X \in PiecesOf(q, D \ s[2]) : j \in X
  <2>1. PICK m \in 1..Len(s) : j \in s[m]
    BY <1>6, <1>9 DEF Exhausts
  <2>2. PICK n \in 1..Len(q) : q[n] = s[m]
    BY <1>8, <1>9, <2>1
  <2> QED BY <1>5, <2>1, <2>2
<1>10. Exhausts(s, D) => Exhausts(q, D \ s[2])
  BY <1>9 DEF Exhausts
<1>11. \A X \in PiecesOf(q, D \ s[2]) : X \in PiecesOf(s, D)
  BY <1>5, <1>6, <1>7
<1> QED BY <1>4, <1>10, <1>11 DEF q

IsCopyOf(q, s) == q = <<s[1]>> \o SubSeq(s, 3, Len(s))

(* The pieces after a split: one of the statement is its domain, the copy has the others. *)
LEMMA SplitPieces ==
    ASSUME DInv, SourceOK, Exhausted, NEW t \in Def, Split(t),
           NEW c, NEW keep, NEW twin, IsSplitOf(g, made, stands, t, c, keep, twin, g', stands'),
           NEW q, IsCopyOf(q, run.splits[t]),
           \A x \in Def : run'.splits[x] = IF x = c THEN q ELSE IF x = t THEN <<>> ELSE run.splits[x]
    PROVE  /\ \A x \in Def : Exhausts(run'.splits[x], g'.dom[x])
           /\ \A x \in Def : \A X \in PiecesOf(run'.splits[x], g'.dom[x]) :
                 \E S \in Pieces(WasDef(t, c, x)) : X \subseteq S
<1>1. PICK s : s = run.splits[t]
  OBVIOUS
<1>2. q = <<s[1]>> \o SubSeq(s, 3, Len(s))
  BY <1>1 DEF IsCopyOf
<1>3. /\ Len(s) > 1 /\ run \in RunRecord /\ IsPieces(s, g.dom[t]) /\ op = Idle
      /\ \A x \in Def : IsPieces(run.splits[x], g.dom[x])
  BY <1>1 DEF Split, DInv, RunOK, SplitsOK
<1>4. \A x \in Def : run'.splits[x] = IF x = c THEN q ELSE IF x = t THEN <<>> ELSE run.splits[x]
  BY <1>1, <1>2
<1>5. g'.dom[t] = s[2]
  <2>1. PICK c0, twin0 : g' = KeepInstances(SplitDef(g, t, c0, s[2], twin0), t, s[2])
    BY <1>1 DEF Split
  <2>2. PICK h : h = SplitDef(g, t, c0, s[2], twin0)
    OBVIOUS
  <2>3. DOMAIN h = DOMAIN g /\ h.dom = [g.dom EXCEPT ![c0] = g.dom[t] \ s[2]]
    <3>1. g \in Graph
      BY DEF IsSplitOf
    <3> QED BY <2>2, <3>1 DEF SplitDef, Graph
  <2>4. "dom" \in DOMAIN h /\ DOMAIN h.dom = Def
    <3>1. g \in Graph
      BY DEF IsSplitOf
    <3> QED BY <2>3, <3>1 DEF Graph
  <2>5. g' = KeepInstances(h, t, s[2])
    BY <2>1, <2>2
  <2> QED BY <2>4, <2>5 DEF KeepInstances
<1>6. /\ c \in Def /\ c # t /\ g'.dom[t] \cap g'.dom[c] = {}
      /\ \A x \in Def : /\ x # c /\ x # t => g'.dom[x] = g.dom[x]
                        /\ g'.dom[x] \subseteq g.dom[WasDef(t, c, x)]
  <2>1. c \in Def /\ c # t /\ g'.dom[t] \cap g'.dom[c] = {}
    BY SplitParts
  <2>2. ASSUME NEW x \in Def PROVE x # c /\ x # t => g'.dom[x] = g.dom[x]
    BY SplitParts
  <2>3. ASSUME NEW x \in Def PROVE g'.dom[x] \subseteq g.dom[WasDef(t, c, x)]
    <3>1. \A i \in g'.dom[x] : i \in g.dom[WasDef(t, c, x)]
      BY SplitParts
    <3> QED BY <3>1
  <2> QED BY <2>1, <2>2, <2>3
<1>7. g'.dom[c] \subseteq g.dom[t] \ s[2]
  BY <1>5, <1>6 DEF WasDef
<1>8. /\ q # <<>>
      /\ \A X \in PiecesOf(q, g.dom[t] \ s[2]) : X \in PiecesOf(s, g.dom[t])
      /\ Exhausts(s, g.dom[t]) => Exhausts(q, g.dom[t] \ s[2])
  BY <1>2, <1>3, PiecesSplit
<1>9. Exhausts(q, g'.dom[c])
  BY <1>1, <1>7, <1>8, ExhaustedLess DEF Exhausted
<1>10. \A X \in PiecesOf(q, g'.dom[c]) : X \in Pieces(t)
  BY <1>1, <1>8 DEF PiecesOf, Pieces
<1>11. Exhausts(<<>>, g'.dom[t]) /\ PiecesOf(<<>>, g'.dom[t]) = {s[2]}
  BY <1>5 DEF Exhausts, PiecesOf
<1>12. s[2] \in Pieces(t)
  <2>1. Len(s) \in Nat
    BY <1>3 DEF IsPieces
  <2>2. 2 \in 1..Len(s) /\ Len(s) # 0
    BY <1>3, <2>1
  <2>3. s # <<>>
    BY <2>2
  <2> QED BY <1>1, <2>2, <2>3 DEF Pieces, PiecesOf
<1>13. ASSUME NEW x \in Def PROVE Exhausts(run'.splits[x], g'.dom[x])
  BY <1>4, <1>6, <1>9, <1>11 DEF Exhausted
<1>14. ASSUME NEW x \in Def, NEW X \in PiecesOf(run'.splits[x], g'.dom[x])
       PROVE  \E S \in Pieces(WasDef(t, c, x)) : X \subseteq S
  <2>1. CASE x = c
    BY <1>4, <1>10, <1>14, <2>1 DEF WasDef
  <2>2. CASE x = t
    BY <1>4, <1>6, <1>11, <1>12, <1>14, <2>2 DEF WasDef
  <2>3. CASE x # c /\ x # t
    BY <1>4, <1>6, <1>14, <2>3 DEF WasDef, Pieces
  <2> QED BY <2>1, <2>2, <2>3
<1> QED BY <1>13, <1>14

(* What a statement that is split gives is not propagated, and an edge of another is not cut. *)
LEMMA SplitCover ==
    ASSUME DInv, DInv', LoadInv, SourceOK, GroupOK, CoverOK, NEW t \in Def, Split(t)
    PROVE  CoverOK'
<1>1. /\ run.stage = "split" /\ Len(run.splits[t]) > 1 /\ run \in RunRecord /\ run.src = NoDef
  BY DEF Split, DInv, RunOK, SourceOK
<1>2. PICK c, keep, twin :
         /\ IsSplitOf(g, made, stands, t, c, keep, twin, g', stands')
         /\ c \in Def \ made /\ Orig[c] = Orig[t]
         /\ c = CHOOSE e \in Def \ made : Orig[e] = Orig[t]
         /\ made' = made \cup {c} /\ scop' = scop
  BY SplitIs
<1>3. PICK q : /\ IsCopyOf(q, run.splits[t])
               /\ run' = [run EXCEPT !.splits[t] = <<>>, !.splits[c] = q,
                         !.todo = IF \E d \in @ : scop.array[d] = scop.array[t] THEN @ \cup {c} ELSE @]
  BY <1>2 DEF Split, IsCopyOf
<1>4. /\ run'.stage = "split" /\ run'.src = NoDef /\ run'.nonTrgs = run.nonTrgs
      /\ run'.todo = IF \E d \in run.todo : scop.array[d] = scop.array[t] THEN run.todo \cup {c} ELSE run.todo
      /\ \A x \in Def : run'.splits[x] = IF x = c THEN q ELSE IF x = t THEN <<>> ELSE run.splits[x]
  BY <1>1, <1>2, <1>3 DEF RunRecord
<1>5. Unpropagated = run.todo /\ Unpropagated' = run'.todo /\ Unpropagated \subseteq made /\ made \subseteq Def
  BY <1>1, <1>4, NoDefAssumption DEF Unpropagated, DInv, RunOK, NodesOK
<1>6. run.splits[t] # <<>>
  <2>1. run.splits[t] = <<>> => Len(run.splits[t]) = 0
    OBVIOUS
  <2> QED BY <1>1, <2>1
<1>7. t \notin run.nonTrgs /\ scop.array[c] = scop.array[t]
  BY <1>2, <1>6, CopiesAssumption, InvHolds DEF SourceOK, Held
<1>8. Refusing /\ Exhausted /\ Covered
  BY <1>1 DEF GroupOK, CoverOK, Propagating
<1>9. /\ \A x \in Def : Exhausts(run'.splits[x], g'.dom[x])
      /\ \A x \in Def : \A X \in PiecesOf(run'.splits[x], g'.dom[x]) :
            \E S \in Pieces(WasDef(t, c, x)) : X \subseteq S
  <2>1. IsSplitOf(g, made, stands, t, c, keep, twin, g', stands') /\ IsCopyOf(q, run.splits[t])
    BY <1>2, <1>3
  <2>2. \A x \in Def : run'.splits[x] = IF x = c THEN q ELSE IF x = t THEN <<>> ELSE run.splits[x]
    BY <1>4
  <2> QED BY <1>8, <2>1, <2>2, SplitPieces
<1>10. ASSUME NEW d \in Unpropagated', NEW u \in Use, g'.def[u] \in Def,
              ~ Barred(g', stands', scop, run.nonTrgs, u),
              NEW X \in PiecesOf(run'.splits[g'.def[u]], g'.dom[g'.def[u]])
       PROVE  WholeOrNone(X, EdgeRange(g'.raw[<<d, u>>]))
  <2>1. d \in Def /\ WasDef(t, c, d) \in Def
    BY <1>2, <1>4, <1>5 DEF WasDef
  <2>2. CASE WasDef(t, c, d) = t
    <3>1. PICK y \in Unpropagated : scop.array[y] = scop.array[t]
      BY <1>4, <1>5, <1>7, <2>2 DEF WasDef
    <3>2. OutRefused(g, run.nonTrgs, t)
      BY <1>6, <1>8, <3>1 DEF Refusing
    <3>3. OutRefused(g', run.nonTrgs, d)
      BY <1>2, <1>7, <2>1, <2>2, <3>2, SplitRefused
    <3>4. g'.raw[<<d, u>>] = {}
      BY <1>10, <3>3 DEF OutRefused, Barred
    <3> QED BY <3>4 DEF WholeOrNone, EdgeRange
  <2>3. CASE WasDef(t, c, d) # t
    <3>1. d # t /\ d # c /\ d \in Unpropagated /\ WasDef(t, c, d) = d
      BY <1>4, <1>5, <2>3 DEF WasDef
    <3>2. PICK w : w = WasUse(twin, u)
      OBVIOUS
    <3>3. PICK f \in Def : f = g'.def[u]
      BY <1>10
    <3>4. /\ w \in Use /\ g.def[w] \in Def /\ g.def[w] = WasDef(t, c, f)
          /\ \A j \in g'.dom[f] : HasUse(g, t, keep, twin, u, j)
      BY <1>2, <1>10, <3>2, <3>3, SplitParts
    <3>5. \A p : p \in g'.raw[<<d, u>>] <=>
                   p \in g.raw[<<d, w>>] /\ HasUse(g, t, keep, twin, u, p[2])
      <4>1. \A i : HasDef(g, t, c, keep, d, i)
        BY <3>1 DEF HasDef
      <4>2. \A p : p \in g'.raw[<<d, u>>] <=>
                     /\ p \in g.raw[<<WasDef(t, c, d), WasUse(twin, u)>>]
                     /\ HasDef(g, t, c, keep, d, p[1]) /\ HasUse(g, t, keep, twin, u, p[2])
        BY <1>2, <2>1, SplitParts
      <4> QED BY <3>1, <3>2, <4>1, <4>2
    <3>6. ~ Barred(g, stands, scop, run.nonTrgs, w)
      BY <1>2, <1>7, <1>10, <3>2, SplitBarred
    <3>7. PICK S \in Pieces(g.def[w]) : X \subseteq S
      BY <1>9, <1>10, <3>3, <3>4
    <3>8. WholeOrNone(S, EdgeRange(g.raw[<<d, w>>]))
      BY <1>8, <3>1, <3>4, <3>6, <3>7 DEF Covered
    <3>9. X \subseteq g'.dom[f]
      <4>1. IsPieces(run'.splits[f], g'.dom[f])
        BY DEF DInv, SplitsOK
      <4> QED BY <1>10, <3>3, <4>1, PiecesInside
    <3>10. g'.raw[<<d, u>>] \subseteq g.raw[<<d, w>>]
      BY <3>5
    <3>11. \A p \in g.raw[<<d, w>>] : p[2] \in X => p \in g'.raw[<<d, u>>]
      BY <3>4, <3>5, <3>9
    <3> QED BY <3>7, <3>8, <3>10, <3>11, WholeKept
  <2> QED BY <2>2, <2>3
<1>11. Covered'
  BY <1>2, <1>4, <1>10 DEF Covered, Pieces
<1>12. Exhausted'
  BY <1>9 DEF Exhausted
<1> QED BY <1>4, <1>11, <1>12 DEF CoverOK

-----------------------------------------------------------------------------
(* To ask for what is known already, or is not cached, changes no target domain. *)
LEMMA AskedTarget ==
    ASSUME DInv, NEW K, Ask(K), NEW d \in Def, g.barrier[d] = Miss, NEW u \in Use
    PROVE  TargetDomain(<<d, u>>)' = TargetDomain(<<d, u>>)
<1> DEFINE D == {k[1] : k \in K}
<1>1. g \in Graph /\ g' = AskBarriers(g, D) /\ scop' = scop
  BY InvHolds DEF Held, Ask
<1> HIDE DEF D
<1>2. g'.raw = g.raw /\ g'.war = g.war /\ g'.waw = g.waw /\ g'.def = g.def /\ g'.ops = g.ops /\ g'.dom = g.dom
  BY <1>1 DEF AskBarriers, Graph
<1>3. g'.barrier[d] \in {Miss, WarTimes(g, d)}
  <2>1. FillBarrier(g, d).barrier[d] \in {Miss, WarTimes(g, d)}
    BY <1>1 DEF FillBarrier, Barrier, Graph
  <2> QED BY <1>1, <2>1 DEF AskBarriers, Graph
<1>4. g'.over[d] \in {g.over[d], OverwrittenSet(g, d)}
  BY <1>1 DEF AskBarriers, Graph
<1>5. WarTimes(g', d) = WarTimes(g, d)
  BY <1>2 DEF WarTimes
<1>6. Barrier(g', d) = Barrier(g, d)
  BY <1>3, <1>5 DEF Barrier
<1>7. SelfWAR(g', d) = SelfWAR(g, d)
  BY <1>2 DEF SelfWAR
<1>8. OverwrittenSet(g', d) = OverwrittenSet(g, d)
  <2>1. WawDomain(g', d) = WawDomain(g, d)
    BY <1>2 DEF WawDomain
  <2> QED BY <1>4, <2>1 DEF OverwrittenSet
<1>9. PropDomain(g', <<d, u>>) = PropDomain(g, <<d, u>>)
  BY <1>2, <1>7, <1>8 DEF PropDomain
<1>10. RecomputeUses(scop, g', <<d, u>>) = RecomputeUses(scop, g, <<d, u>>)
  <2> DEFINE k == <<d, u>>
             uses(h) == {p \in h.raw[k] : /\ p[1] \in h.dom[d] /\ p[2] \in h.dom[h.def[u]]
                                          /\ SelfWAR(h, d) # {} => p[1] \in PropDomain(h, k)}
             stay(h) == {b \in Barrier(h, d) : SelfWAR(h, d) # {} => TimeOf(scop, b[2]) # TimeOf(scop, <<d, b[1]>>)}
             blocked(h) == {TimeOf(scop, <<h.def[u], p[2]>>) : p \in {q \in uses(h) :
                               \E b \in stay(h) : b[1] = q[1] /\ TimeOf(scop, b[2]) < TimeOf(scop, <<h.def[u], q[2]>>)}}
  <2>1. \A h : RecomputeUses(scop, h, k) = IF Barrier(h, d) = {} THEN h.raw[k]
                  ELSE {p \in uses(h) : TimeOf(scop, <<h.def[u], p[2]>>) \notin blocked(h)}
    BY DEF RecomputeUses
  <2>2. uses(g') = uses(g)
    BY <1>2, <1>7, <1>9
  <2>3. stay(g') = stay(g)
    BY <1>6, <1>7
  <2> HIDE DEF uses, stay
  <2>4. blocked(g') = blocked(g)
    BY <1>2, <2>2, <2>3
  <2> HIDE DEF blocked
  <2>5. {p \in uses(g') : TimeOf(scop, <<g'.def[u], p[2]>>) \notin blocked(g')}
           = {p \in uses(g) : TimeOf(scop, <<g.def[u], p[2]>>) \notin blocked(g)}
    BY <1>2, <2>2, <2>4
  <2> QED BY <1>2, <1>6, <2>1, <2>5
<1>11. RecomputeDomain(scop', g', <<d, u>>) = RecomputeDomain(scop, g, <<d, u>>)
  BY <1>1, <1>10 DEF RecomputeDomain
<1>12. TargetDomain(<<d, u>>)' = {p[2] : p \in {q \in g'.raw[<<d, u>>] : q[1] \in RecomputeDomain(scop', g', <<d, u>>)}}
  BY Zenon DEF TargetDomain
<1>13. TargetDomain(<<d, u>>) = {p[2] : p \in {q \in g.raw[<<d, u>>] : q[1] \in RecomputeDomain(scop, g, <<d, u>>)}}
  BY Zenon DEF TargetDomain
<1> QED BY <1>2, <1>11, <1>12, <1>13

(* A group is taken up: its targets are whole, to be cut along the target domain of every edge. *)
LEMMA PropagateEdgesCover ==
    ASSUME DInv, SourceOK, BarriersUnasked, NEW a \in Array, PropagateEdges(a)
    PROVE  CoverOK'
<1>1. /\ run.stage = "worklist" /\ op = Idle /\ run \in RunRecord /\ made \in SUBSET Def
      /\ run.src = NoDef /\ a \in run.groups
  BY InvHolds DEF PropagateEdges, DInv, RunOK, SourceOK, Held
<1>2. ASSUME run' = [run EXCEPT !.groups = @ \ {a}] PROVE CoverOK'
  <2>1. run'.stage = "worklist"
    BY <1>1, <1>2 DEF RunRecord
  <2> QED BY <2>1 DEF CoverOK, Propagating
<1>3. CASE ~ Skip(a)
  <2>1. PICK unworthy : Ask(PropEdges(a, NonPropTrgs(a, unworthy)))
                        /\ Plan(a, PropEdges(a, NonPropTrgs(a, unworthy)), NonPropTrgs(a, unworthy))
    BY <1>3 DEF PropagateEdges
  <2>2. PICK N : N = NonPropTrgs(a, unworthy)
    OBVIOUS
  <2>3. Taken /\ Ask(PropEdges(a, N))
    BY <2>1, <2>2, AskTakes
  <2> DEFINE K       == PropEdges(a, N)
             srcs    == Nodes(a) \ NonPropSrcs(a, N)
             trgs    == {g.def[k[2]] : k \in K}
             along(t) == {TargetDomain(k) : k \in {e \in K : e[1] \in srcs /\ g.def[e[2]] = t}}
             cuts    == [t \in Def |-> along(t)]
             splits  == [t \in Def |-> IF t \in trgs THEN <<g.dom[t]>> ELSE <<>>]
  <2>4. \/ run' = [run EXCEPT !.stage = "cut", !.groups = @ \ {a}, !.todo = srcs,
                              !.cuts = cuts, !.splits = splits, !.nonTrgs = N]
        \/ run' = [run EXCEPT !.groups = @ \ {a}]
    BY <2>1, <2>2 DEF Plan
  <2>5. /\ srcs \in SUBSET Nodes(a)
        /\ \A t \in Def : splits[t] \in {<<>>, <<g.dom[t]>>}
        /\ \A k \in K : g.def[k[2]] \in Def =>
              /\ splits[g.def[k[2]]] = <<g.dom[g.def[k[2]]]>>
              /\ k[1] \in srcs => TargetDomain(k) \in cuts[g.def[k[2]]]
    OBVIOUS
  <2> HIDE DEF srcs, trgs, cuts, splits
  <2>6. CASE run' = [run EXCEPT !.stage = "cut", !.groups = @ \ {a}, !.todo = srcs,
                                !.cuts = cuts, !.splits = splits, !.nonTrgs = N]
    <3>1. /\ run'.stage = "cut" /\ run'.src = NoDef /\ run'.todo = srcs
          /\ run'.splits = splits /\ run'.nonTrgs = N /\ run'.cuts = cuts
      BY <1>1, <2>6 DEF RunRecord
    <3>2. Unpropagated' = srcs /\ ~ Propagating' /\ \A d \in srcs : d \in Nodes(a) /\ d \in Def /\ scop.array[d] = a
      BY <1>1, <2>5, <3>1, NoDefAssumption DEF Unpropagated, Propagating, Nodes
    <3>3. /\ g'.raw = g.raw /\ g'.dom = g.dom /\ g'.def = g.def
          /\ scop' = scop /\ stands' = stands
      <4>1. g \in Graph
        BY InvHolds DEF Held
      <4> QED BY <2>3, <4>1, AskFacts DEF Ask, SameNodes
    <3>4. Exhausted'
      <4>1. \A t \in Def : Exhausts(splits[t], g.dom[t])
        <5>1. \A D : Exhausts(<<>>, D)
          BY DEF Exhausts, PiecesOf
        <5>2. ASSUME NEW D PROVE Exhausts(<<D>>, D)
          <6>1. <<D>> # <<>> /\ 1 \in 1..Len(<<D>>) /\ <<D>>[1] = D
            OBVIOUS
          <6> QED BY <6>1 DEF Exhausts, PiecesOf
        <5> QED BY <2>5, <5>1, <5>2
      <4> QED BY <3>1, <3>3, <4>1 DEF Exhausted
    <3>5. Targeted'
      <4> SUFFICES ASSUME NEW d \in srcs, NEW u \in Use, g.raw[<<d, u>>] # {},
                          ~ Barred(g', stands', scop', N, u)
                   PROVE  /\ splits[g.def[u]] # <<>>
                          /\ TargetDomain(<<d, u>>)' \in cuts[g.def[u]]
        BY <3>1, <3>2, <3>3 DEF Targeted
      <4>1. <<d, u>> \in K /\ <<d, u>>[1] = d /\ <<d, u>>[2] = u
        <5>1. Subscripted(u) /\ g.def[u] \notin N
          BY <3>3 DEF Barred, AffineRead, Subscripted
        <5>2. <<d, u>> \in OutEdges(Nodes(a))
          BY <3>2 DEF OutEdges
        <5> QED BY <5>1, <5>2 DEF PropEdges
      <4>2. g.def[u] \in Def
        <5>1. op.phase = 0 /\ <<d, u>> \in Def \X Use
          BY <1>1, <3>2 DEF Idle
        <5> QED BY <4>1, <5>1, TargetExists DEF DInv
      <4>3. TargetDomain(<<d, u>>)' = TargetDomain(<<d, u>>)
        <5>1. g.barrier[d] = Miss
          BY <1>1, <3>2 DEF BarriersUnasked
        <5> QED BY <2>3, <3>2, <5>1, AskedTarget
      <4>4. /\ splits[g.def[u]] = <<g.dom[g.def[u]]>>
            /\ TargetDomain(<<d, u>>) \in cuts[g.def[u]]
        BY <2>5, <4>1, <4>2
      <4> QED BY <4>3, <4>4
    <3> QED BY <3>1, <3>2, <3>4, <3>5 DEF CoverOK
  <2> QED BY <1>2, <2>4, <2>6
<1> QED BY <1>2, <1>3 DEF Skip

-----------------------------------------------------------------------------
LEMMA RunCover ==
    DInv /\ LoadInv /\ SourceOK /\ BarriersUnasked /\ GroupInv /\ CoverInv /\ [RunNext]_runVars => CoverInv'
<1> SUFFICES ASSUME DInv, LoadInv, SourceOK, BarriersUnasked, GroupInv, CoverInv, [RunNext]_runVars,
                    run'.stage # "aborted", ~ run'.blocked
             PROVE  CoverOK'
  BY DEF CoverInv
<1>1. GroupOK /\ CoverOK /\ run.stage # "aborted" /\ DInv'
  BY GroupProgress, RunStep DEF GroupInv, CoverInv
<1>2. CASE \E d \in Def : RestrictNode(d)
  BY <1>1, <1>2, OutsideCover
<1>3. CASE \E d \in Def : Split(d)
  BY <1>1, <1>3, SplitCover
<1>4. CASE \E d \in Def : PickSource(d)
  BY <1>1, <1>4, PickSourceCover
<1>5. CASE \E a \in Array : PropagateEdges(a)
  BY <1>5, PropagateEdgesCover
<1>6. CASE CutTarget
  BY <1>1, <1>6, CutTargetCover
<1>7. CASE StartSplits
  BY <1>1, <1>7, StartSplitsCover
<1>8. CASE \E k \in Def \X Use : PropagateEdge(k)
  BY <1>1, <1>8, PropagateEdgeCover
<1>9. CASE \E o \in Use : ReloadOperand(o)
  BY <1>1, <1>9, ReloadCover
<1>10. CASE StartPropagation
  BY <1>1, <1>10, StartPropagationCover
<1>11. CASE FinishEdge
  BY <1>1, <1>11, FinishEdgeCover
<1>12. CASE FinishSource
  BY <1>1, <1>12, FinishSourceCover
<1>13. CASE EndLoop \/ EndWorklist \/ GiveUp \/ FinishGroup \/ Abort
  BY <1>1, <1>13, OutsideCover
<1>14. CASE ((VisitEdge \/ NextPhase) /\ UNCHANGED <<run, made, stands>>) \/ UNCHANGED runVars \/ Finished
  BY <1>1, <1>14, VisitCover DEF Finished
<1> QED BY <1>2, <1>3, <1>4, <1>5, <1>6, <1>7, <1>8, <1>9, <1>10, <1>11, <1>12, <1>13, <1>14 DEF RunNext

(* An edge that is about to be propagated reaches something of its target, which is in one piece. *)
LEMMA CoveredHere ==
    ASSUME DInv, SourceOK, GroupInv, CoverInv
    PROVE  PropagatedEdgesCover
<1> SUFFICES ASSUME run.stage = "propagate", op = Idle, ~ run.blocked, NEW k \in run.edges, AssertionsHold(k)
             PROVE  g.dom[g.def[k[2]]] \subseteq EdgeRange(g.raw[k])
  BY DEF PropagatedEdgesCover
<1>1. GroupOK /\ CoverOK
  BY DEF GroupInv, CoverInv
<1>2. /\ k \in Def \X Use /\ k[1] = run.src /\ k = <<k[1], k[2]>> /\ k[1] \in Def /\ k[2] \in Use
      /\ k[1] \in Unpropagated
  <2>1. k \in Def \X Use
    BY DEF DInv, RunOK, RunRecord
  <2>2. k[1] = run.src
    BY DEF SourceOK
  <2> QED BY <2>1, <2>2 DEF Unpropagated
<1>3. g.raw[k] # {} /\ g.def[k[2]] \notin run.nonTrgs
  <2>1. k[1] \in Sources(k[2])
    BY DEF AssertionsHold
  <2> QED BY <1>2, <2>1 DEF Sources, AssertionsHold
<1>4. AffineRead(stands, scop, k[2])
  <2>1. g.raw[<<run.src, k[2]>>] # {}
    BY <1>2, <1>3
  <2> QED BY <1>1, <1>2, <2>1 DEF GroupOK, Linked
<1>5. Tied(g)
  BY InvHolds DEF Held
<1>6. PICK p \in g.raw[k] : g.def[k[2]] \in Def /\ p[2] \in g.dom[g.def[k[2]]]
  BY <1>2, <1>3, <1>5 DEF Tied
<1>7. ~ Barred(g, stands, scop, run.nonTrgs, k[2])
  BY <1>3, <1>4 DEF Barred
<1>8. g.dom[g.def[k[2]]] \in Pieces(g.def[k[2]])
  BY <1>6 DEF DInv, SplitsOK, Pieces, PiecesOf
<1>9. WholeOrNone(g.dom[g.def[k[2]]], EdgeRange(g.raw[k]))
  <2>1. \A S \in Pieces(g.def[k[2]]) : WholeOrNone(S, EdgeRange(g.raw[<<k[1], k[2]>>]))
    BY <1>1, <1>2, <1>6, <1>7 DEF CoverOK, Covered, Propagating
  <2> QED BY <1>2, <1>8, <2>1
<1>10. p[2] \in EdgeRange(g.raw[k])
  BY <1>6 DEF EdgeRange
<1> QED BY <1>6, <1>9, <1>10 DEF WholeOrNone

LEMMA InitCover == RunInit => CoverInv
BY DEF RunInit, CoverInv, CoverOK, Propagating

(***************************************************************************)
(* propagateEdge erases the read: unless a blocked use was propagated, the *)
(* source of the edge computes what every instance of the target reads, as *)
(* the target was cut along the target domain of the edge.                 *)
(***************************************************************************)
THEOREM CoverCorrect == RunSpec => []PropagatedEdgesCover
<1>1. RunInit => LoadInv /\ SourceOK /\ GroupInv /\ BarriersUnasked /\ CoverInv
  BY InitLoads, InitGroup, InitCover DEF LoadInv, GroupInv
<1>2. DInv /\ SourceOK /\ GroupInv /\ CoverInv => PropagatedEdgesCover
  BY CoveredHere
<1>3. DInv /\ LoadInv /\ SourceOK /\ BarriersUnasked /\ GroupInv /\ CoverInv /\ [RunNext]_runVars
         => LoadInv' /\ SourceOK' /\ BarriersUnasked' /\ GroupInv' /\ CoverInv'
  BY RunReads, RunSource, RunUnasked, RunGroup, RunCover
<1> QED BY <1>1, <1>2, <1>3, RunInvariance, PTL DEF RunSpec

-----------------------------------------------------------------------------
(***************************************************************************)
(* The edges that are left run forward in the old order.  Those between    *)
(* writes always do: cutting one chains it with others, and the copies of  *)
(* a statement run when it did.                                            *)
(***************************************************************************)
Later(d, e, i, j) == scop.time[d][i] < scop.time[e][j]

WawLater == \A d, e \in Def : \A i, j \in Inst : <<i, j>> \in g.waw[<<d, e>>] => Later(d, e, i, j)

LEMMA LaterChain ==
    ASSUME IsScop(scop), NEW d \in Def, NEW m \in Def, NEW e \in Def,
           NEW i \in Inst, NEW l \in Inst, NEW j \in Inst, Later(d, m, i, l), Later(m, e, l, j)
    PROVE  Later(d, e, i, j)
<1>1. scop.time[d][i] \in Nat /\ scop.time[m][l] \in Nat /\ scop.time[e][j] \in Nat
  BY DEF IsScop
<1> QED BY <1>1 DEF Later

LEMMA VisitLater ==
    ASSUME EInv, IsScop(scop), WawLater, op.phase \in 1..5, NEW k \in op.todo,
           NEW r, r = Shrink(g, op.def, Phases[op.phase], k),
           NEW d \in Def, NEW e \in Def, NEW i \in Inst, NEW j \in Inst, <<i, j>> \in r.waw[<<d, e>>]
    PROVE  Later(d, e, i, j)
<1> DEFINE D == g.dom[op.def]
<1>1. g \in Graph /\ k \in KeysOf(g, op.def, op.phase) /\ op.def \in Def
  BY DEF EInv, GInv, IInv, TypeOK, TodoOK
<1>2. \A m, n \in Def : \A x, y \in Inst : <<x, y>> \in g.waw[<<m, n>>] => Later(m, n, x, y)
  BY DEF WawLater
<1> HIDE DEF D
<1>3. CASE op.phase = 3
  <2> DEFINE out == IF k[1] = op.def THEN ShrinkWawDomain(g, k, D) ELSE g
  <2>1. k \in Def \X Def /\ r = IF k[2] = op.def THEN ShrinkWawRange(out, k, D) ELSE out
    BY <1>1, <1>3 DEF Shrink, ShrinkWaw, Phases, KeysOf, D
  <2>2. k = <<k[1], k[2]>> /\ k[1] \in Def /\ k[2] \in Def
    BY <2>1, PairFacts
  <2>3. out \in Graph
    BY <1>1, <2>1, ShrinkWawDomainFacts
  <2>4. ASSUME NEW m \in Def, NEW n \in Def, NEW x \in Inst, NEW y \in Inst, <<x, y>> \in out.waw[<<m, n>>]
        PROVE  Later(m, n, x, y)
    <3>1. CASE k[1] = op.def
      <4>1. out = ShrinkWawDomain(g, k, D)
        BY <3>1
      <4>2. \/ <<x, y>> \in g.waw[<<m, n>>]
            \/ n = k[2] /\ \E l \in Inst : <<x, l>> \in g.waw[<<m, k[1]>>] /\ <<l, y>> \in g.waw[k]
        <5> HIDE DEF out
        <5> QED BY <1>1, <2>1, <2>4, <4>1, ShrinkWawDomainSound
      <4>3. CASE <<x, y>> \in g.waw[<<m, n>>]
        BY <1>2, <4>3
      <4>4. CASE n = k[2] /\ \E l \in Inst : <<x, l>> \in g.waw[<<m, k[1]>>] /\ <<l, y>> \in g.waw[k]
        <5>1. PICK l \in Inst : <<x, l>> \in g.waw[<<m, k[1]>>] /\ <<l, y>> \in g.waw[<<k[1], k[2]>>]
          BY <2>2, <4>4
        <5>2. Later(m, k[1], x, l) /\ Later(k[1], n, l, y)
          BY <1>2, <2>2, <4>4, <5>1
        <5> QED BY <2>2, <5>2, LaterChain
      <4> QED BY <4>2, <4>3, <4>4
    <3>2. CASE k[1] # op.def
      BY <1>2, <2>4, <3>2
    <3> QED BY <3>1, <3>2
  <2> HIDE DEF out
  <2>5. CASE k[2] = op.def
    <3>1. \/ <<i, j>> \in out.waw[<<d, e>>]
          \/ d = k[1] /\ \E l \in Inst : <<i, l>> \in out.waw[k] /\ <<l, j>> \in out.waw[<<k[2], e>>]
      BY <2>1, <2>3, <2>5, ShrinkWawRangeSound
    <3>2. CASE <<i, j>> \in out.waw[<<d, e>>]
      BY <2>4, <3>2
    <3>3. CASE d = k[1] /\ \E l \in Inst : <<i, l>> \in out.waw[k] /\ <<l, j>> \in out.waw[<<k[2], e>>]
      <4>1. PICK l \in Inst : <<i, l>> \in out.waw[<<k[1], k[2]>>] /\ <<l, j>> \in out.waw[<<k[2], e>>]
        BY <2>2, <3>3
      <4>2. Later(d, k[2], i, l) /\ Later(k[2], e, l, j)
        BY <2>2, <2>4, <3>3, <4>1
      <4> QED BY <2>2, <4>2, LaterChain
    <3> QED BY <3>1, <3>2, <3>3
  <2>6. CASE k[2] # op.def
    BY <2>1, <2>4, <2>6
  <2> QED BY <2>5, <2>6
<1>4. CASE op.phase # 3
  <2>1. r.waw = g.waw
    BY <1>4, VisitFacts
  <2> QED BY <1>2, <2>1
<1> QED BY <1>3, <1>4

LEMMA SameLater == ASSUME WawLater, g'.waw = g.waw, scop' = scop PROVE WawLater'
BY DEF WawLater, Later

(* A step of dead iteration elimination. *)
LEMMA EliminationLater ==
    ASSUME EInv, IsScop(scop), WawLater, [Next]_vars
    PROVE  WawLater'
<1>1. g \in Graph /\ IInv
  BY DEF EInv, GInv, IInv, TypeOK
<1>2. ASSUME NEW d \in Def, CheckBarrier(d) PROVE WawLater'
  <2> DEFINE asked == FillBarrier(g, d)
  <2>1. (g' = asked \/ g' = FillOver(asked, d)) /\ scop' = scop
    BY <1>2 DEF CheckBarrier
  <2>2. asked \in Graph /\ asked.waw = g.waw
    BY <1>1, FillBarrierFacts
  <2> HIDE DEF asked
  <2>3. g'.waw = g.waw
    BY <2>1, <2>2, FillOverFacts
  <2> QED BY <2>1, <2>3, SameLater
<1>3. ASSUME NEW d \in Def, RestrictStmt(d) PROVE WawLater'
  <2> DEFINE asked == IF LiveOut(d) THEN FillOver(FillUsed(g, d), d) ELSE FillUsed(g, d)
  <2>1. asked \in Graph /\ asked.waw = g.waw
    <3>1. FillUsed(g, d) \in Graph /\ FillUsed(g, d).waw = g.waw
      BY <1>1, FillUsedFacts
    <3> QED BY <3>1, FillOverFacts
  <2>2. (g' = asked \/ g' = KeepInstances(asked, d, NeededDomain(d))) /\ scop' = scop
    BY <1>3 DEF RestrictStmt
  <2> HIDE DEF asked
  <2>3. g'.waw = g.waw
    BY <2>1, <2>2 DEF KeepInstances, Graph
  <2> QED BY <2>2, <2>3, SameLater
<1>4. CASE VisitEdge
  <2>1. PICK k \in op.todo : g' = Shrink(g, op.def, Phases[op.phase], k)
    BY <1>4 DEF VisitEdge
  <2>2. op.phase \in 1..5
    <3>1. op.phase \in 0..5 /\ op.phase # 0
      BY <1>1, <2>1 DEF IInv, TypeOK, TodoOK
    <3> QED BY <3>1
  <2>3. scop' = scop
    BY <1>4 DEF VisitEdge
  <2> SUFFICES ASSUME NEW d \in Def, NEW e \in Def, NEW i \in Inst, NEW j \in Inst,
                      <<i, j>> \in g'.waw[<<d, e>>]
               PROVE  Later(d, e, i, j)
    BY <2>3 DEF WawLater, Later
  <2> QED BY <2>1, <2>2, VisitLater
<1>5. CASE NextPhase \/ UNCHANGED vars
  BY <1>5, SameLater DEF NextPhase, vars
<1> QED BY <1>2, <1>3, <1>4, <1>5 DEF Next

LEMMA SplitLater == ASSUME DInv, WawLater, NEW t \in Def, Split(t) PROVE WawLater'
<1>1. PICK c, keep, twin : /\ IsSplitOf(g, made, stands, t, c, keep, twin, g', stands')
                           /\ c \in Def /\ Orig[c] = Orig[t] /\ scop' = scop
  BY SplitIs
<1>2. scop \in Scops /\ g \in Graph
  BY InvHolds DEF Held
<1>3. IsSplit(g, t, c, keep, twin) /\ g' = KeepInstances(SplitDef(g, t, c, keep, twin), t, keep)
  BY <1>1 DEF IsSplitOf
<1>4. g'.waw = SplitDef(g, t, c, keep, twin).waw
  <2>1. SplitDef(g, t, c, keep, twin) \in Graph
    BY <1>3, SplitFacts
  <2> HIDE DEF SplitDef
  <2> QED BY <1>3, <2>1 DEF KeepInstances, Graph
<1> SUFFICES ASSUME NEW d \in Def, NEW e \in Def, NEW i \in Inst, NEW j \in Inst,
                    <<i, j>> \in g'.waw[<<d, e>>]
             PROVE  Later(d, e, i, j)
  BY <1>1 DEF WawLater, Later
<1>5. <<i, j>> \in g.waw[<<WasDef(t, c, d), WasDef(t, c, e)>>]
  BY <1>3, <1>4, SplitFacts
<1>6. \A x \in Def : WasDef(t, c, x) \in Def /\ scop.time[WasDef(t, c, x)] = scop.time[x]
  <2>1. scop.time[c] = scop.time[t]
    BY <1>1, <1>2, CopiesAssumption
  <2> QED BY <2>1 DEF WasDef
<1>7. Later(WasDef(t, c, d), WasDef(t, c, e), i, j)
  BY <1>5, <1>6 DEF WawLater
<1> QED BY <1>6, <1>7 DEF Later

LEMMA RunLater == DInv /\ WawLater /\ [RunNext]_runVars => WawLater'
<1> SUFFICES ASSUME DInv, WawLater, [RunNext]_runVars PROVE WawLater'
  OBVIOUS
<1>1. scop' = scop /\ IsScop(scop) /\ g \in Graph
  BY SameScop, InvHolds, ScopsAssumption DEF Held
<1>2. ASSUME [Next]_vars, run.stage # "reload" PROVE WawLater'
  <2>1. EInv
    BY <1>2 DEF DInv, OperandsOK, EInv
  <2> QED BY <1>1, <1>2, <2>1, EliminationLater
<1>3. CASE \E d \in Def : RestrictNode(d)
  BY <1>2, <1>3 DEF RestrictNode, RestrictOnce, Next
<1>4. CASE FinishSource
  <2>1. run.src \in Def
    BY <1>4 DEF DInv, RunOK, RunRecord, FinishSource
  <2> QED BY <1>2, <1>4, <2>1 DEF FinishSource, RestrictOnce, Next
<1>5. CASE (VisitEdge \/ NextPhase) /\ UNCHANGED <<run, made, stands>>
  <2>1. run.stage # "reload"
    BY <1>5 DEF DInv, OperandsOK, Detached, Idle, VisitEdge, NextPhase
  <2> QED BY <1>2, <1>5, <2>1 DEF Next
<1>6. CASE \E a \in Array : PropagateEdges(a)
  <2>1. PICK a \in Array : PropagateEdges(a)
    BY <1>6
  <2>2. CASE Skip(a)
    BY <1>1, <2>2, SameLater DEF Skip
  <2>3. CASE \E K : Ask(K)
    <3>1. PICK D : g' = AskBarriers(g, D)
      BY <2>3 DEF Ask
    <3>2. g'.waw = g.waw
      BY <1>1, <3>1 DEF AskBarriers, Graph
    <3> QED BY <1>1, <3>2, SameLater
  <2> QED BY <2>1, <2>2, <2>3 DEF PropagateEdges
<1>7. CASE \E k \in Def \X Use : PropagateEdge(k)
  <2>1. PICK k \in Def \X Use : g' = RemoveOperand(g, k[2])
    BY <1>7 DEF PropagateEdge
  <2>2. g'.waw = g.waw
    BY <1>1, <2>1 DEF RemoveOperand, Graph
  <2> QED BY <1>1, <2>2, SameLater
<1>8. CASE FinishEdge
  <2>1. g'.waw = g.waw
    BY <1>1, <1>8 DEF FinishEdge, ClearPropagated, Graph
  <2> QED BY <1>1, <2>1, SameLater
<1>9. CASE \E o \in Use : ReloadOperand(o)
  <2>1. PICK o \in Use : ReloadOperand(o)
    BY <1>9
  <2>2. PICK n, t : IsReloadOf(g, stands, scop, o, n, run.edge, t, g', stands')
    BY <2>1, ReloadIs
  <2>3. g'.waw = g.waw
    BY <2>2 DEF IsReloadOf, WritesUntouched
  <2> QED BY <1>1, <2>3, SameLater
<1>10. CASE \E t \in Def : Split(t)
  BY <1>10, SplitLater
<1>11. CASE \E d \in Def : PickSource(d)
  BY <1>1, <1>11, SameLater DEF PickSource
<1>12. CASE UNCHANGED runVars \/ Finished
  BY <1>1, <1>12, SameLater DEF runVars, Finished
<1>13. CASE CutTarget \/ GiveUp \/ StartSplits \/ EndLoop \/ StartPropagation \/ Abort
            \/ FinishGroup \/ EndWorklist
  <2>1. g' = g
    BY <1>13
       DEF CutTarget, GiveUp, StartSplits, EndLoop, StartPropagation, Abort, FinishGroup, EndWorklist
  <2> QED BY <1>1, <2>1, SameLater
<1> QED BY <1>3, <1>4, <1>5, <1>6, <1>7, <1>8, <1>9, <1>10, <1>11, <1>12, <1>13 DEF RunNext

LEMMA InitLater == RunInit => WawLater
<1> SUFFICES ASSUME RunInit, NEW d \in Def, NEW e \in Def, NEW i \in Inst, NEW j \in Inst,
                    <<i, j>> \in g.waw[<<d, e>>]
             PROVE  Later(d, e, i, j)
  BY DEF WawLater
<1>1. g.waw = WAW(scop)
  BY ScopsAssumption, CreateFacts DEF RunInit, Init
<1>2. <<i, j>> \in Flow(scop, d, d, e, e)
  BY <1>1 DEF WAW
<1> QED BY <1>2 DEF Flow, Later

-----------------------------------------------------------------------------
(* An operand is loaded after the write its value comes from. *)
LEMMA ReadForward ==
    ASSUME DInv, LoadInv, op = Idle, NEW u \in Use, g.def[u] \in Def, NEW j \in g.dom[g.def[u]],
           NEW d \in Def, NEW i \in Inst, <<i, j>> \in g.raw[<<d, u>>]
    PROVE  At(<<d, i>>) < At(<<g.def[u], j>>)
<1>1. /\ scop \in Scops /\ IsScop(scop) /\ g \in Graph /\ stands[u][j] \subseteq Use \X Inst
      /\ j \in Inst /\ Orig[d] \in Def /\ Orig[g.def[u]] \in Def
  <2>1. g \in Graph /\ scop \in Scops
    BY InvHolds DEF Held
  <2>2. j \in Inst
    BY <2>1 DEF Graph
  <2> QED BY <2>1, <2>2, ScopsAssumption, OrigAssumption DEF DInv, StandsOK, ReadAt
<1>2. Flows(g, stands, scop) /\ Sourced(g, stands, scop)
  BY DEF LoadInv, ReadsOK
<1>3. PICK v \in stands[u][j] : <<i, v[2]>> \in RAW(scop)[<<Orig[d], v[1]>>]
  BY <1>1, <1>2 DEF Sourced
<1>4. v[1] \in Use /\ v[2] \in Inst
  BY <1>1
<1>5. scop.def[v[1]] \in Def /\ scop.time[Orig[d]][i] < scop.time[scop.def[v[1]]][v[2]]
  BY <1>1, <1>3, <1>4, RawPair
<1>6. TimeOf(scop, ReaderOf(scop, v)) <= TimeOf(scop, <<Orig[g.def[u]], j>>)
  BY <1>1, <1>2, FlowTime DEF Flows
<1>7. TimeOf(scop, ReaderOf(scop, v)) = scop.time[scop.def[v[1]]][v[2]]
  BY DEF TimeOf, ReaderOf
<1>8. /\ At(<<d, i>>) = scop.time[Orig[d]][i]
      /\ At(<<g.def[u], j>>) = TimeOf(scop, <<Orig[g.def[u]], j>>)
  BY <1>1, CopiesAssumption DEF At, TimeOf
<1>9. /\ scop.time[Orig[d]][i] \in Nat /\ scop.time[scop.def[v[1]]][v[2]] \in Nat
      /\ TimeOf(scop, <<Orig[g.def[u]], j>>) \in Nat
  BY <1>1, <1>4, <1>5 DEF IsScop, TimeOf
<1> QED BY <1>5, <1>6, <1>7, <1>8, <1>9

(* Of two different instances, one runs first. *)
LEMMA OneFirst ==
    ASSUME DInv, LoadInv, NEW p \in Points, NEW q \in Points, At(p) <= At(q), At(q) <= At(p)
    PROVE  p = q
<1>1. /\ scop \in Scops /\ IsScop(scop) /\ RunsInSequence(scop) /\ g \in Graph /\ made \subseteq Def
      /\ Apart(g, made, scop)
  <2>1. g \in Graph /\ scop \in Scops /\ made \subseteq Def
    BY InvHolds DEF Held
  <2> QED BY <2>1, ScopsAssumption DEF LoadInv, ReadsOK
<1>2. \A x \in Points : /\ x[1] \in made /\ x[2] \in Inst /\ x = <<x[1], x[2]>> /\ Orig[x[1]] \in Def
                        /\ x[2] \in g.dom[x[1]] /\ x[2] \in scop.dom[Orig[x[1]]]
                        /\ At(x) = scop.time[Orig[x[1]]][x[2]] /\ At(x) \in Nat
  <2> SUFFICES ASSUME NEW x \in Points
               PROVE  /\ x[1] \in made /\ x[2] \in Inst /\ x = <<x[1], x[2]>> /\ Orig[x[1]] \in Def
                      /\ x[2] \in g.dom[x[1]] /\ x[2] \in scop.dom[Orig[x[1]]]
                      /\ At(x) = scop.time[Orig[x[1]]][x[2]] /\ At(x) \in Nat
    OBVIOUS
  <2>1. x[1] \in Def /\ x[2] \in Inst /\ x = <<x[1], x[2]>> /\ x[2] \in g.dom[x[1]]
    BY PairFacts DEF Points
  <2>2. x[1] \in made
    BY <2>1 DEF DInv, NodesOK
  <2>3. x[2] \in scop.dom[Orig[x[1]]]
    BY <1>1, <2>1, <2>2 DEF Apart
  <2>4. Orig[x[1]] \in Def
    BY <2>1, OrigAssumption
  <2>5. At(x) = scop.time[Orig[x[1]]][x[2]]
    BY <1>1, <2>1, CopiesAssumption DEF At, TimeOf
  <2>6. At(x) \in Nat
    BY <1>1, <2>1, <2>4, <2>5 DEF IsScop
  <2> QED BY <2>1, <2>2, <2>3, <2>4, <2>5, <2>6
<1>3. Orig[p[1]] = Orig[q[1]] /\ p[2] = q[2]
  <2>1. At(p) = At(q)
    BY <1>2
  <2> QED BY <1>1, <1>2, <2>1 DEF RunsInSequence
<1>4. p[1] = q[1]
  <2>1. p[2] \in g.dom[p[1]] \cap g.dom[q[1]]
    BY <1>2, <1>3
  <2> QED BY <1>1, <1>2, <1>3, <2>1 DEF Apart
<1> QED BY <1>2, <1>3, <1>4

(* An operand is loaded before a write it precedes, or this is an update of what it stands for. *)
LEMMA WaitForward ==
    ASSUME DInv, LoadInv, GroupOK, BetweenGroups, NEW p \in Points, NEW q \in Points, p # q, At(q) <= At(p),
           NEW u \in g.ops[p[1]], <<p[2], q[2]>> \in g.war[<<u, q[1]>>]
    PROVE  \E v \in stands[u][p[2]] : OwnLastWrite(v, <<Orig[q[1]], q[2]>>)
<1>1. run.stage \in {"worklist", "delete", "done"} /\ op = Idle
  BY DEF BetweenGroups
<1>2. /\ g \in Graph /\ OpsAre(g) /\ scop \in Scops /\ made \subseteq Def
      /\ p[1] \in Def /\ p[2] \in g.dom[p[1]] /\ p = <<p[1], p[2]>>
      /\ q[1] \in Def /\ q[2] \in g.dom[q[1]] /\ q = <<q[1], q[2]>> /\ q[2] \in Inst
  BY <1>1, InvHolds, PairFacts DEF Held, Points
<1>3. u \in Use /\ g.def[u] = p[1]
  <2>1. u \in Use
    BY <1>2 DEF Graph
  <2> QED BY <1>2, <2>1 DEF OpsAre
<1>4. q[1] \in made /\ Orig[q[1]] \in Def
  BY <1>2, OrigAssumption DEF DInv, NodesOK
<1> DEFINE x == <<Orig[q[1]], q[2]>>
<1>5. x[1] = Orig[q[1]] /\ x[2] = q[2] /\ x \in Def \X Inst
  BY <1>2, <1>4
<1> HIDE DEF x
<1>6. x \in Awaited(g, made, u, p[2])
  BY <1>2, <1>4, <1>5 DEF Awaited
<1>7. Dying = {}
  BY <1>1 DEF Dying, Propagating
<1>8. Timely(g, made, scop, {}, p[1], p[2], stands[u][p[2]], Awaited(g, made, u, p[2]))
  BY <1>2, <1>3, <1>7 DEF GroupOK, Timed, Punctual
<1>9. \/ TimeOf(scop, <<p[1], p[2]>>) <= TimeOf(scop, x)
      \/ /\ \E e \in made : Orig[e] = x[1] /\ x[2] \in g.dom[e] /\ x[2] \notin WawDomain(g, e)
         /\ \E v \in stands[u][p[2]] : Updates(scop, v, x)
  BY <1>2, <1>4, <1>5, <1>6, <1>8 DEF Timely
<1>10. ~ (TimeOf(scop, <<p[1], p[2]>>) <= TimeOf(scop, x))
  <2>1. TimeOf(scop, x) = At(q)
    BY <1>2, <1>5, CopiesAssumption DEF At, TimeOf
  <2>2. TimeOf(scop, <<p[1], p[2]>>) = At(p)
    BY <1>2 DEF At
  <2> QED BY <2>1, <2>2, OneFirst
<1> QED BY <1>9, <1>10 DEF x, OwnLastWrite, Updates

LEMMA ForwardHere == ASSUME DInv, LoadInv, GroupInv, WawLater PROVE EdgesForwardUnlessBlocked
<1> SUFFICES ASSUME ~ run.blocked, BetweenGroups, NEW p \in Points, NEW q \in Points, p # q, At(q) <= At(p)
             PROVE  /\ <<p[2], q[2]>> \notin g.waw[<<p[1], q[1]>>]
                    /\ \A u \in g.ops[q[1]] : <<p[2], q[2]>> \notin g.raw[<<p[1], u>>]
                    /\ \A u \in g.ops[p[1]] : <<p[2], q[2]>> \in g.war[<<u, q[1]>>] =>
                          \E v \in stands[u][p[2]] : OwnLastWrite(v, <<Orig[q[1]], q[2]>>)
  BY DEF EdgesForwardUnlessBlocked, EdgesForward
<1>1. run.stage \in {"worklist", "delete", "done"} /\ op = Idle /\ GroupOK
  BY DEF BetweenGroups, GroupInv
<1>2. /\ g \in Graph /\ OpsAre(g) /\ scop \in Scops /\ IsScop(scop)
      /\ p[1] \in Def /\ p[2] \in Inst /\ p = <<p[1], p[2]>>
      /\ q[1] \in Def /\ q[2] \in Inst /\ q = <<q[1], q[2]>> /\ q[2] \in g.dom[q[1]]
  BY <1>1, InvHolds, PairFacts, ScopsAssumption DEF Held, Points
<1>3. ~ (At(p) < At(q))
  <2>1. At(p) \in Nat /\ At(q) \in Nat
    BY <1>2 DEF At, TimeOf, IsScop
  <2> QED BY <2>1
<1>4. <<p[2], q[2]>> \notin g.waw[<<p[1], q[1]>>]
  <2>1. Later(p[1], q[1], p[2], q[2]) => At(p) < At(q)
    BY DEF Later, At, TimeOf
  <2> QED BY <1>2, <1>3, <2>1 DEF WawLater
<1>5. ASSUME NEW u \in g.ops[q[1]] PROVE <<p[2], q[2]>> \notin g.raw[<<p[1], u>>]
  <2>1. u \in Use
    BY <1>2 DEF Graph
  <2>2. g.def[u] = q[1]
    BY <1>2, <2>1 DEF OpsAre
  <2> QED BY <1>1, <1>2, <1>3, <2>1, <2>2, ReadForward
<1>6. ASSUME NEW u \in g.ops[p[1]], <<p[2], q[2]>> \in g.war[<<u, q[1]>>]
      PROVE  \E v \in stands[u][p[2]] : OwnLastWrite(v, <<Orig[q[1]], q[2]>>)
  BY <1>1, <1>6, WaitForward
<1> QED BY <1>4, <1>5, <1>6

(***************************************************************************)
(* schedule may fall back to the old order: unless a blocked use was       *)
(* propagated, between two groups no edge runs against it, but for an      *)
(* operand that the last write of its cell overwrites, an update of what   *)
(* it stands for.                                                          *)
(***************************************************************************)
THEOREM EdgesForwardCorrect == RunSpec => []EdgesForwardUnlessBlocked
<1>1. RunInit => LoadInv /\ SourceOK /\ GroupInv /\ BarriersUnasked /\ WawLater
  BY InitLoads, InitGroup, InitLater DEF LoadInv, GroupInv
<1>2. DInv /\ LoadInv /\ GroupInv /\ WawLater => EdgesForwardUnlessBlocked
  BY ForwardHere
<1>3. DInv /\ LoadInv /\ SourceOK /\ BarriersUnasked /\ GroupInv /\ WawLater /\ [RunNext]_runVars
         => LoadInv' /\ SourceOK' /\ BarriersUnasked' /\ GroupInv' /\ WawLater'
  BY RunReads, RunSource, RunUnasked, RunGroup, RunLater
<1> QED BY <1>1, <1>2, <1>3, RunInvariance, PTL DEF RunSpec
=============================================================================
