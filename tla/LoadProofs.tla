----------------------------- MODULE LoadProofs -----------------------------
(***************************************************************************)
(* What the barriers are for: as long as no blocked use was propagated, an *)
(* operand is loaded before what it stands for is overwritten.             *)
(*                                                                         *)
(* LoadInv (ReadsOK) says of the graph what every step keeps: where a      *)
(* value came from, and that an edge leads from each operand to the first  *)
(* write that overwrites what it stands for.  SourceOK says where the      *)
(* driver is.  GroupOK says of the group that is considered what its       *)
(* barriers said when they were asked, up to the moment its values are     *)
(* loaded.  CutAsked says that they are not stale when they decide.  The   *)
(* lemmas on graphs come first, then one lemma per action.                 *)
(***************************************************************************)
EXTENDS PropagationProofs

(***************************************************************************)
(* What the operands stand for, of any graph h with its nodes.  Flows: the *)
(* value read reaches the instance that has the operand now.  Sourced: a   *)
(* pair of a RAW edge is a dependence of a read the operand stands for.    *)
(* Waits: an operand precedes the first write that overwrites what it      *)
(* stands for, in whichever copy of its statement this write is.  Behind:  *)
(* it precedes nothing but writes that overwrite something it stands for.  *)
(* Apart: the copies of a statement share no instance.  Alike: what an     *)
(* operand stands for is affine throughout, or never.  Covers: a cached    *)
(* overwritten set has what the WAW edges say.                             *)
(***************************************************************************)
AffineRead(st, s, u) == \A j \in Inst : \A v \in st[u][j] : v[1] \in s.affine

Flows(h, st, s) ==
    \A u \in Use : h.def[u] \in Def =>
        \A j \in h.dom[h.def[u]] : \A v \in st[u][j] :
            /\ ReaderOf(s, v) \in ScopPoints(s)
            /\ FlowsTo(s, ReaderOf(s, v), <<Orig[h.def[u]], j>>)

Sourced(h, st, s) ==
    \A e \in Def, u \in Use : \A i, j \in Inst : <<i, j>> \in h.raw[<<e, u>>] =>
        \E v \in st[u][j] : <<i, v[2]>> \in RAW(s)[<<Orig[e], v[1]>>]

Waits(h, nodes, st, s) ==
    \A d \in Def : \A u \in h.ops[d] : \A j \in h.dom[d] : \A v \in st[u][j] :
        \A p \in FirstOverwrites(s, v) : \A e \in nodes :
            Orig[e] = p[1] /\ p[2] \in h.dom[e] => <<j, p[2]>> \in h.war[<<u, e>>]

Behind(h, st, s) ==
    \A u \in Use, e \in Def : \A j, m \in Inst : <<j, m>> \in h.war[<<u, e>>] =>
        \E v \in st[u][j] : <<Orig[e], m>> \in Overwrites(s, v)

Apart(h, nodes, s) ==
    /\ \A d, e \in nodes : Orig[d] = Orig[e] /\ d # e => h.dom[d] \cap h.dom[e] = {}
    /\ \A d \in nodes : h.dom[d] \subseteq s.dom[Orig[d]]

Alike(st, s) ==
    \A u \in Use : AffineRead(st, s, u) \/ \A j \in Inst : \A v \in st[u][j] : v[1] \notin s.affine

Covers(h) == \A d \in Def : OverHolds(h, d)

ReadsOK(h, nodes, st, s) ==
    /\ Flows(h, st, s)
    /\ Sourced(h, st, s)
    /\ Waits(h, nodes, st, s)
    /\ Behind(h, st, s)
    /\ Apart(h, nodes, s)
    /\ Alike(st, s)
    /\ Covers(h)

(***************************************************************************)
(* A step that takes away: instances, edges of reads, operands, but not an *)
(* edge from an operand to a write if both ends are still there.  It goes  *)
(* with the operand.                                                       *)
(***************************************************************************)
Narrows(h, st, r, sp) ==
    /\ \A d \in Def : /\ r.dom[d] \subseteq h.dom[d]
                      /\ r.ops[d] \subseteq h.ops[d]
                      /\ WawDomain(r, d) \subseteq WawDomain(h, d)
                      /\ OverHolds(h, d) => OverHolds(r, d)
    /\ \A u \in Use : \/ r.def[u] = h.def[u] /\ sp[u] = st[u]
                      \/ /\ r.def[u] = NoDef
                         /\ \A j \in Inst : sp[u][j] = {}
                         /\ \A d \in Def : /\ r.raw[<<d, u>>] = {} /\ r.war[<<u, d>>] = {}
                                            /\ u \notin r.ops[d]
    /\ \A d \in Def, u \in Use : /\ r.raw[<<d, u>>] \subseteq h.raw[<<d, u>>]
                                 /\ r.war[<<u, d>>] \subseteq h.war[<<u, d>>]
    /\ \A d \in Def : \A u \in r.ops[d] : \A e \in Def : \A i \in r.dom[d], m \in r.dom[e] :
          <<i, m>> \in h.war[<<u, e>>] => <<i, m>> \in r.war[<<u, e>>]

-----------------------------------------------------------------------------
LEMMA FlowSelf == ASSUME NEW s, NEW p PROVE FlowsTo(s, p, p)
BY DEF FlowsTo

LEMMA FlowChain ==
    ASSUME NEW s, NEW p, NEW q, NEW r, FlowsTo(s, p, q), FlowsTo(s, q, r)
    PROVE  FlowsTo(s, p, r)
BY DEF FlowsTo

LEMMA FlowStep == ASSUME NEW s, NEW p, NEW q, <<p, q>> \in ReadsFrom(s) PROVE FlowsTo(s, p, q)
<1> SUFFICES ASSUME NEW P \in SUBSET ScopPoints(s), p \in P,
                    \A e \in ReadsFrom(s) : e[1] \in P => e[2] \in P
             PROVE  q \in P
  BY DEF FlowsTo
<1>1. <<p, q>>[1] = p /\ <<p, q>>[2] = q
  OBVIOUS
<1> QED BY <1>1

-----------------------------------------------------------------------------
LEMMA NarrowEdge ==
    ASSUME NEW h, NEW r, NEW st, NEW sp, Narrows(h, st, r, sp), NEW d \in Def, NEW u \in Use,
           r.raw[<<d, u>>] # {}
    PROVE  h.raw[<<d, u>>] # {} /\ r.def[u] = h.def[u] /\ sp[u] = st[u]
BY DEF Narrows

LEMMA NarrowWait ==
    ASSUME NEW h, NEW r, NEW st, NEW sp, Narrows(h, st, r, sp), NEW d \in Def, NEW u \in Use,
           r.war[<<u, d>>] # {}
    PROVE  h.war[<<u, d>>] # {} /\ r.def[u] = h.def[u] /\ sp[u] = st[u]
BY DEF Narrows

LEMMA NarrowReads ==
    ASSUME NEW h, NEW r \in Graph, NEW st, NEW sp, NEW s, NEW nodes \in SUBSET Def,
           ReadsOK(h, nodes, st, s), Narrows(h, st, r, sp)
    PROVE  ReadsOK(r, nodes, sp, s)
<1>1. Flows(r, sp, s)
  <2> SUFFICES ASSUME NEW u \in Use, r.def[u] \in Def, NEW j \in r.dom[r.def[u]], NEW v \in sp[u][j]
               PROVE  /\ ReaderOf(s, v) \in ScopPoints(s)
                      /\ FlowsTo(s, ReaderOf(s, v), <<Orig[r.def[u]], j>>)
    BY DEF Flows
  <2>1. r.def[u] = h.def[u] /\ sp[u] = st[u]
    BY NoDefAssumption DEF Narrows
  <2>2. j \in h.dom[h.def[u]]
    BY <2>1 DEF Narrows
  <2> QED BY <2>1, <2>2 DEF ReadsOK, Flows
<1>2. Sourced(r, sp, s)
  <2> SUFFICES ASSUME NEW e \in Def, NEW u \in Use, NEW i \in Inst, NEW j \in Inst,
                      <<i, j>> \in r.raw[<<e, u>>]
               PROVE  \E v \in sp[u][j] : <<i, v[2]>> \in RAW(s)[<<Orig[e], v[1]>>]
    BY DEF Sourced
  <2>1. sp[u] = st[u] /\ <<i, j>> \in h.raw[<<e, u>>]
    <3>1. r.raw[<<e, u>>] # {}
      OBVIOUS
    <3>2. sp[u] = st[u]
      BY <3>1, NarrowEdge
    <3>3. r.raw[<<e, u>>] \subseteq h.raw[<<e, u>>]
      BY DEF Narrows
    <3> QED BY <3>2, <3>3
  <2> QED BY <2>1 DEF ReadsOK, Sourced
<1>3. Waits(r, nodes, sp, s)
  <2> SUFFICES ASSUME NEW d \in Def, NEW u \in r.ops[d], NEW j \in r.dom[d], NEW v \in sp[u][j],
                      NEW p \in FirstOverwrites(s, v), NEW e \in nodes,
                      Orig[e] = p[1], p[2] \in r.dom[e]
               PROVE  <<j, p[2]>> \in r.war[<<u, e>>]
    BY DEF Waits
  <2>1. u \in Use /\ u \in h.ops[d] /\ j \in h.dom[d] /\ p[2] \in h.dom[e] /\ e \in Def
    BY DEF Narrows, Graph
  <2>2. sp[u] = st[u]
    BY <2>1 DEF Narrows
  <2>3. <<j, p[2]>> \in h.war[<<u, e>>]
    BY <2>1, <2>2 DEF ReadsOK, Waits
  <2> QED BY <2>1, <2>3 DEF Narrows
<1>4. Apart(r, nodes, s)
  <2>1. \A d \in nodes : r.dom[d] \subseteq h.dom[d]
    BY DEF Narrows
  <2> QED BY <2>1 DEF ReadsOK, Apart
<1>5. Alike(sp, s)
  BY DEF ReadsOK, Alike, AffineRead, Narrows
<1>6. Covers(r)
  BY DEF ReadsOK, Covers, Narrows
<1>7. Behind(r, sp, s)
  <2> SUFFICES ASSUME NEW u \in Use, NEW e \in Def, NEW j \in Inst, NEW m \in Inst,
                      <<j, m>> \in r.war[<<u, e>>]
               PROVE  \E v \in sp[u][j] : <<Orig[e], m>> \in Overwrites(s, v)
    BY DEF Behind
  <2>1. sp[u] = st[u] /\ <<j, m>> \in h.war[<<u, e>>]
    <3>1. r.war[<<u, e>>] # {}
      OBVIOUS
    <3>2. sp[u] = st[u]
      BY <3>1, NarrowWait
    <3>3. r.war[<<u, e>>] \subseteq h.war[<<u, e>>]
      BY DEF Narrows
    <3> QED BY <3>2, <3>3
  <2> QED BY <2>1 DEF ReadsOK, Behind
<1> QED BY <1>1, <1>2, <1>3, <1>4, <1>5, <1>6, <1>7 DEF ReadsOK

-----------------------------------------------------------------------------
(* A read precedes the first write that overwrites what it reads. *)
LEMMA FirstWaits ==
    ASSUME NEW s, IsScop(s), RunsInSequence(s), OneCell(s), NEW u \in Use, s.def[u] \in Def,
           NEW j \in s.dom[s.def[u]], NEW p \in FirstOverwrites(s, <<u, j>>)
    PROVE  <<j, p[2]>> \in WAR(s)[<<u, p[1]>>] \cup SelfEdges(s)[<<u, p[1]>>]
<1> DEFINE d == s.def[u]
           e == p[1]
           m == p[2]
           v == <<u, j>>
<1>1. d \in Def /\ j \in s.dom[d] /\ j \in Inst /\ v[1] = u /\ v[2] = j /\ ReaderOf(s, v) = <<d, j>>
  BY DEF IsScop, ReaderOf
<1>2. p \in Overwrites(s, v) /\ \A q \in Overwrites(s, v) : TimeOf(s, p) <= TimeOf(s, q)
  BY DEF FirstOverwrites
<1>3. /\ p = <<e, m>> /\ e \in Def /\ m \in Inst /\ m \in s.dom[e]
      /\ s.cells[e][m] \cap s.cells[u][j] # {} /\ TimeOf(s, ReaderOf(s, v)) <= TimeOf(s, p)
  <2>1. p \in Def \X Inst
    BY <1>2 DEF Overwrites
  <2>2. p = <<p[1], p[2]>> /\ p[1] \in Def /\ p[2] \in Inst
    BY <2>1, PairFacts
  <2>3. /\ p[2] \in s.dom[p[1]] /\ s.cells[p[1]][p[2]] \cap s.cells[u][j] # {}
        /\ TimeOf(s, ReaderOf(s, v)) <= TimeOf(s, p)
    BY <1>1, <1>2 DEF Overwrites
  <2> QED BY <2>2, <2>3
<1>4. s.time[d][j] \in Nat /\ s.time[e][m] \in Nat /\ s.time[d][j] <= s.time[e][m]
  <2>1. TimeOf(s, <<d, j>>) = s.time[d][j] /\ TimeOf(s, <<e, m>>) = s.time[e][m]
    BY DEF TimeOf
  <2>2. TimeOf(s, <<d, j>>) <= TimeOf(s, <<e, m>>)
    BY <1>1, <1>3
  <2> QED BY <1>1, <1>3, <2>1, <2>2 DEF IsScop
<1> HIDE DEF d, e, m, v
<1>5. CASE s.time[d][j] < s.time[e][m]
  <2>1. PICK c : c \in s.cells[e][m] /\ c \in s.cells[u][j]
    BY <1>3
  <2>2. ~ Overwritten(s, c, s.time[d][j], s.time[e][m])
    <3> SUFFICES ASSUME NEW f \in Def, NEW i \in s.dom[f], c \in s.cells[f][i],
                        s.time[d][j] < s.time[f][i], s.time[f][i] < s.time[e][m]
                 PROVE  FALSE
      BY DEF Overwritten
    <3>1. i \in Inst /\ s.time[f][i] \in Nat
      BY DEF IsScop
    <3>2. /\ <<f, i>> \in Def \X Inst /\ <<f, i>>[1] = f /\ <<f, i>>[2] = i
          /\ TimeOf(s, <<f, i>>) = s.time[f][i] /\ TimeOf(s, <<d, j>>) = s.time[d][j]
          /\ TimeOf(s, <<e, m>>) = s.time[e][m]
      BY <3>1 DEF TimeOf
    <3>3. <<f, i>> \in Overwrites(s, v)
      <4>1. s.cells[f][i] \cap s.cells[u][j] # {}
        BY <2>1
      <4>2. TimeOf(s, ReaderOf(s, v)) <= TimeOf(s, <<f, i>>)
        BY <1>1, <1>4, <3>1, <3>2
      <4> QED BY <1>1, <3>2, <4>1, <4>2 DEF Overwrites
    <3>4. s.time[e][m] <= s.time[f][i]
      BY <1>2, <1>3, <3>2, <3>3
    <3> QED BY <1>4, <3>1, <3>4
  <2>3. <<j, m>> \in Flow(s, u, d, e, e)
    <3>1. <<j, m>> \in s.dom[d] \X s.dom[e] /\ <<j, m>>[1] = j /\ <<j, m>>[2] = m
      BY <1>1, <1>3
    <3>2. \E b \in s.cells[u][j] \cap s.cells[e][m] : ~ Overwritten(s, b, s.time[d][j], s.time[e][m])
      BY <2>1, <2>2
    <3> QED BY <1>5, <3>1, <3>2 DEF Flow
  <2>4. <<u, e>> \in Use \X Def /\ <<u, e>>[1] = u /\ <<u, e>>[2] = e
    BY <1>3
  <2>5. WAR(s)[<<u, e>>] = Flow(s, u, d, e, e)
    BY <1>1, <2>4 DEF WAR, d
  <2> QED BY <2>3, <2>5 DEF e, m
<1>6. CASE s.time[d][j] = s.time[e][m]
  <2>1. d = e /\ j = m
    BY <1>1, <1>3, <1>6 DEF RunsInSequence
  <2>2. s.array[u] = s.array[e]
    <3>1. s.cells[u][j] \cap s.cells[e][m] # {} /\ u \in Node /\ e \in Node
      BY <1>3 DEF Node
    <3> QED BY <1>1, <1>3, <3>1 DEF OneCell
  <2>3. <<u, e>> \in Use \X Def /\ <<u, e>>[1] = u /\ <<u, e>>[2] = e
    BY <1>3
  <2>4. SelfEdges(s)[<<u, e>>] = {<<i, i>> : i \in {l \in s.dom[e] : s.cells[u][l] \cap s.cells[e][l] # {}}}
    BY <2>1, <2>2, <2>3 DEF SelfEdges, d
  <2>5. <<j, j>> \in SelfEdges(s)[<<u, e>>]
    BY <1>1, <1>3, <2>1, <2>4
  <2> QED BY <2>1, <2>5 DEF e, m
<1>7. s.time[d][j] < s.time[e][m] \/ s.time[d][j] = s.time[e][m]
  BY <1>4
<1> QED BY <1>5, <1>6, <1>7

(* A write that a read precedes in the program overwrites what it reads. *)
LEMMA WaitPair ==
    ASSUME NEW s, IsScop(s), NEW u \in Use, NEW e \in Def, NEW j \in Inst, NEW m \in Inst,
           <<j, m>> \in WAR(s)[<<u, e>>] \cup SelfEdges(s)[<<u, e>>]
    PROVE  /\ s.def[u] \in Def /\ j \in s.dom[s.def[u]] /\ m \in s.dom[e]
           /\ s.cells[u][j] \cap s.cells[e][m] # {} /\ s.time[s.def[u]][j] <= s.time[e][m]
<1>1. /\ <<u, e>> \in Use \X Def /\ <<u, e>>[1] = u /\ <<u, e>>[2] = e
      /\ <<j, m>>[1] = j /\ <<j, m>>[2] = m
  OBVIOUS
<1>2. CASE <<j, m>> \in WAR(s)[<<u, e>>]
  <2>1. WAR(s)[<<u, e>>] = IF s.def[u] \in Def THEN Flow(s, u, s.def[u], e, e) ELSE {}
    BY <1>1 DEF WAR
  <2>2. s.def[u] \in Def /\ <<j, m>> \in Flow(s, u, s.def[u], e, e)
    BY <1>2, <2>1
  <2>3. /\ j \in s.dom[s.def[u]] /\ m \in s.dom[e] /\ s.time[s.def[u]][j] < s.time[e][m]
        /\ s.cells[u][j] \cap s.cells[e][m] # {}
    BY <1>1, <2>2 DEF Flow
  <2>4. s.time[s.def[u]][j] \in Nat /\ s.time[e][m] \in Nat
    BY <2>2, <2>3 DEF IsScop
  <2>5. s.time[s.def[u]][j] <= s.time[e][m]
    BY <2>3, <2>4
  <2> QED BY <2>2, <2>3, <2>5
<1>3. CASE <<j, m>> \in SelfEdges(s)[<<u, e>>]
  <2>1. s.def[u] = e /\ <<j, m>> \in {<<i, i>> : i \in {l \in s.dom[e] : s.cells[u][l] \cap s.cells[e][l] # {}}}
    BY <1>1, <1>3 DEF SelfEdges
  <2>2. j = m /\ m \in s.dom[e] /\ s.cells[u][m] \cap s.cells[e][m] # {}
    BY <2>1
  <2>3. s.time[e][m] \in Nat
    BY <2>2 DEF IsScop
  <2> QED BY <2>1, <2>2, <2>3
<1> QED BY <1>2, <1>3

LEMMA InitLoads == RunInit => ReadsOK(g, made, stands, scop)
<1> SUFFICES ASSUME RunInit PROVE ReadsOK(g, made, stands, scop)
  OBVIOUS
<1>1. /\ scop \in Scops /\ IsScop(scop) /\ RunsInSequence(scop) /\ OneCell(scop)
      /\ \A d \in Def : Orig[d] # d => scop.dom[d] = {}
      /\ \A u \in Use : scop.def[u] # NoDef => Orig[scop.def[u]] = scop.def[u]
      /\ g = CreateDependenceGraph(scop)
  BY ScopsAssumption, CopiesAssumption DEF RunInit, Init
<1>2. /\ g \in Graph /\ g.dom = scop.dom /\ g.def = scop.def /\ g.raw = RAW(scop)
      /\ \A d \in Def, u \in Use : u \in g.ops[d] <=> scop.def[u] = d
      /\ \A d \in Def : g.over[d] = WawDomain(g, d)
      /\ \A k \in Use \X Def : g.war[k] = WAR(scop)[k] \cup SelfEdges(scop)[k]
  BY <1>1, CreateFacts
<1>3. made = {d \in Def : Orig[d] = d}
      /\ stands = [u \in Use |-> [j \in Inst |-> IF g.def[u] = NoDef THEN {} ELSE {<<u, j>>}]]
  BY DEF RunInit
<1>4. ASSUME NEW u \in Use, NEW j \in Inst, NEW v \in stands[u][j]
      PROVE  v = <<u, j>> /\ v[1] = u /\ v[2] = j /\ scop.def[u] \in Def
  <2>1. stands[u] = [l \in Inst |-> IF g.def[u] = NoDef THEN {} ELSE {<<u, l>>}]
    BY <1>3
  <2>2. stands[u][j] = IF g.def[u] = NoDef THEN {} ELSE {<<u, j>>}
    BY <2>1
  <2>3. g.def[u] # NoDef /\ v = <<u, j>>
    BY <1>4, <2>2
  <2> QED BY <1>2, <2>3 DEF Graph
<1>5. \A d \in Def : g.dom[d] \subseteq Inst
  BY <1>2 DEF Graph
<1>6. Flows(g, stands, scop)
  <2> SUFFICES ASSUME NEW u \in Use, g.def[u] \in Def, NEW j \in g.dom[g.def[u]], NEW v \in stands[u][j]
               PROVE  /\ ReaderOf(scop, v) \in ScopPoints(scop)
                      /\ FlowsTo(scop, ReaderOf(scop, v), <<Orig[g.def[u]], j>>)
    BY DEF Flows
  <2>1. v[1] = u /\ v[2] = j /\ j \in Inst
    BY <1>4, <1>5
  <2>2. ReaderOf(scop, v) = <<scop.def[u], j>> /\ Orig[g.def[u]] = scop.def[u]
    BY <1>1, <1>2, <2>1, NoDefAssumption DEF ReaderOf
  <2>3. <<scop.def[u], j>> \in ScopPoints(scop)
    <3>1. <<scop.def[u], j>>[1] = scop.def[u] /\ <<scop.def[u], j>>[2] = j
      OBVIOUS
    <3> QED BY <1>2, <2>1, <3>1 DEF ScopPoints
  <2> QED BY <2>2, <2>3, FlowSelf
<1>7. Sourced(g, stands, scop)
  <2> SUFFICES ASSUME NEW e \in Def, NEW u \in Use, NEW i \in Inst, NEW j \in Inst,
                      <<i, j>> \in g.raw[<<e, u>>]
               PROVE  \E v \in stands[u][j] : <<i, v[2]>> \in RAW(scop)[<<Orig[e], v[1]>>]
    BY DEF Sourced
  <2>1. <<i, j>> \in RAW(scop)[<<e, u>>]
    BY <1>2
  <2>2. scop.def[u] \in Def /\ i \in scop.dom[e]
    <3>1. <<e, u>> \in Def \X Use /\ <<e, u>>[1] = e /\ <<e, u>>[2] = u
      OBVIOUS
    <3>2. RAW(scop)[<<e, u>>] = IF scop.def[u] \in Def THEN Flow(scop, e, e, u, scop.def[u]) ELSE {}
      BY <3>1 DEF RAW
    <3>3. scop.def[u] \in Def /\ <<i, j>> \in Flow(scop, e, e, u, scop.def[u])
      BY <2>1, <3>2
    <3> QED BY <3>3 DEF Flow
  <2>3. Orig[e] = e
    BY <1>1, <2>2
  <2>4. <<u, j>> \in stands[u][j]
    <3>1. stands[u] = [l \in Inst |-> IF g.def[u] = NoDef THEN {} ELSE {<<u, l>>}]
      BY <1>3
    <3> QED BY <1>2, <2>2, <3>1, NoDefAssumption
  <2>5. <<u, j>>[1] = u /\ <<u, j>>[2] = j
    OBVIOUS
  <2> QED BY <2>1, <2>3, <2>4, <2>5
<1>8. Waits(g, made, stands, scop)
  <2> SUFFICES ASSUME NEW d \in Def, NEW u \in g.ops[d], NEW j \in g.dom[d], NEW v \in stands[u][j],
                      NEW p \in FirstOverwrites(scop, v), NEW e \in made,
                      Orig[e] = p[1], p[2] \in g.dom[e]
               PROVE  <<j, p[2]>> \in g.war[<<u, e>>]
    BY DEF Waits
  <2>1. u \in Use /\ j \in Inst /\ e \in Def /\ Orig[e] = e /\ scop.def[u] = d
    BY <1>2, <1>3, <1>5 DEF Graph
  <2>2. v = <<u, j>> /\ e = p[1]
    BY <1>4, <2>1
  <2>3. <<j, p[2]>> \in WAR(scop)[<<u, e>>] \cup SelfEdges(scop)[<<u, e>>]
    BY <1>1, <1>2, <2>1, <2>2, FirstWaits
  <2> QED BY <1>2, <2>1, <2>3
<1>9. Apart(g, made, scop)
  BY <1>2, <1>3 DEF Apart
<1>10. Alike(stands, scop)
  <2>1. ASSUME NEW u \in Use, NEW j \in Inst, NEW v \in stands[u][j] PROVE v[1] = u
    BY <1>4, <2>1
  <2> QED BY <2>1 DEF Alike, AffineRead
<1>11. Covers(g)
  BY <1>2 DEF Covers, OverHolds
<1>12. Behind(g, stands, scop)
  <2> SUFFICES ASSUME NEW u \in Use, NEW e \in Def, NEW j \in Inst, NEW m \in Inst,
                      <<j, m>> \in g.war[<<u, e>>]
               PROVE  \E v \in stands[u][j] : <<Orig[e], m>> \in Overwrites(scop, v)
    BY DEF Behind
  <2>1. <<u, e>> \in Use \X Def
    OBVIOUS
  <2>2. <<j, m>> \in WAR(scop)[<<u, e>>] \cup SelfEdges(scop)[<<u, e>>]
    BY <1>2, <2>1
  <2>3. /\ scop.def[u] \in Def /\ j \in scop.dom[scop.def[u]] /\ m \in scop.dom[e]
        /\ scop.cells[u][j] \cap scop.cells[e][m] # {}
        /\ scop.time[scop.def[u]][j] <= scop.time[e][m]
    BY <1>1, <2>2, WaitPair
  <2>4. Orig[e] = e /\ <<u, j>> \in stands[u][j]
    <3>1. stands[u] = [l \in Inst |-> IF g.def[u] = NoDef THEN {} ELSE {<<u, l>>}]
      BY <1>3
    <3> QED BY <1>1, <1>2, <2>3, <3>1, NoDefAssumption
  <2>5. <<e, m>> \in Overwrites(scop, <<u, j>>)
    <3>1. /\ <<u, j>>[1] = u /\ <<u, j>>[2] = j /\ <<e, m>> \in Def \X Inst
          /\ <<e, m>>[1] = e /\ <<e, m>>[2] = m
      OBVIOUS
    <3>2. /\ TimeOf(scop, ReaderOf(scop, <<u, j>>)) = scop.time[scop.def[u]][j]
          /\ TimeOf(scop, <<e, m>>) = scop.time[e][m]
      BY <3>1 DEF TimeOf, ReaderOf
    <3>3. scop.cells[e][m] \cap scop.cells[u][j] # {}
      BY <2>3
    <3> QED BY <2>3, <3>1, <3>2, <3>3 DEF Overwrites
  <2> QED BY <2>4, <2>5
<1> QED BY <1>6, <1>7, <1>8, <1>9, <1>10, <1>11, <1>12 DEF ReadsOK

-----------------------------------------------------------------------------
(* A graph whose statement d was split, c being the copy. *)
IsSplitOf(h, nodes, st, d, c, keep, twin, r, sp) ==
    /\ h \in Graph /\ Tied(h) /\ OpsAre(h)
    /\ IsSplit(h, d, c, keep, twin) /\ Orig[c] = Orig[d]
    /\ nodes \in SUBSET Def /\ d \in nodes /\ c \notin nodes
    /\ \A u \in Use : h.def[u] # c
    /\ \A u \in Twins(twin) : h.def[u] = NoDef
    /\ r = KeepInstances(SplitDef(h, d, c, keep, twin), d, keep)
    /\ \A u \in Use : sp[u] = st[WasUse(twin, u)]

(* Where the instances and the reads of the split graph were before. *)
LEMMA SplitParts ==
    ASSUME NEW h, NEW nodes, NEW st, NEW d, NEW c, NEW keep, NEW twin, NEW r, NEW sp,
           IsSplitOf(h, nodes, st, d, c, keep, twin, r, sp)
    PROVE  /\ r \in Graph /\ OpsAre(r) /\ d \in Def /\ c \in Def /\ c # d
           /\ \A e \in Def : /\ WasDef(d, c, e) \in Def /\ Orig[WasDef(d, c, e)] = Orig[e]
                             /\ e \in nodes \cup {c} => WasDef(d, c, e) \in nodes
                             /\ e # c /\ e # d => r.dom[e] = h.dom[e]
                             /\ \A i \in r.dom[e] : i \in h.dom[WasDef(d, c, e)]
                                                    /\ HasDef(h, d, c, keep, e, i)
           /\ r.dom[d] \cap r.dom[c] = {}
           /\ \A u \in Use : /\ WasUse(twin, u) \in Use
                             /\ r.def[u] = IF u \in Twins(twin) THEN c ELSE h.def[u]
                             /\ u \in Twins(twin) => h.def[WasUse(twin, u)] = d
                             /\ u \notin Twins(twin) => WasUse(twin, u) = u
           /\ \A u \in Use : r.def[u] \in Def =>
                 /\ h.def[WasUse(twin, u)] \in Def
                 /\ h.def[WasUse(twin, u)] = WasDef(d, c, r.def[u])
                 /\ \A j \in r.dom[r.def[u]] : j \in h.dom[h.def[WasUse(twin, u)]]
                                               /\ HasUse(h, d, keep, twin, u, j)
           /\ \A e \in Def, u \in Use : \A p :
                 p \in r.raw[<<e, u>>] <=>
                   /\ p \in h.raw[<<WasDef(d, c, e), WasUse(twin, u)>>]
                   /\ HasDef(h, d, c, keep, e, p[1]) /\ HasUse(h, d, keep, twin, u, p[2])
           /\ \A e \in Def, u \in Use : \A p :
                 p \in r.war[<<u, e>>] <=>
                   /\ p \in h.war[<<WasUse(twin, u), WasDef(d, c, e)>>]
                   /\ HasUse(h, d, keep, twin, u, p[1]) /\ HasDef(h, d, c, keep, e, p[2])
<1>1. /\ h \in Graph /\ Tied(h) /\ OpsAre(h) /\ IsSplit(h, d, c, keep, twin) /\ Orig[c] = Orig[d]
      /\ d \in nodes /\ c \notin nodes /\ \A u \in Use : h.def[u] # c
      /\ \A u \in Twins(twin) : h.def[u] = NoDef
      /\ r = KeepInstances(SplitDef(h, d, c, keep, twin), d, keep)
  BY DEF IsSplitOf
<1>2. d \in Def /\ c \in Def /\ c # d /\ keep \subseteq h.dom[d] /\ h.dom \in [Def -> SUBSET Inst]
      /\ Twins(twin) \cap h.ops[d] = {}
  BY <1>1 DEF IsSplit, Graph
<1>3. /\ r \in Graph
      /\ r.raw = SplitDef(h, d, c, keep, twin).raw /\ r.war = SplitDef(h, d, c, keep, twin).war
      /\ \A e \in Def : r.dom[e] = IF e = d THEN keep
                                 ELSE IF e = c THEN h.dom[d] \ keep ELSE h.dom[e]
      /\ \A u \in Use : r.def[u] = IF u \in Twins(twin) THEN c ELSE h.def[u]
  <2>1. SplitGraph(h, d, c, keep, twin, r)
    BY <1>1, SplitNodes
  <2> QED BY ONLY <2>1 DEF SplitGraph
<1>4. OpsAre(r)
  BY <1>1, <1>2, SplitTied
<1>5. r.dom[c] = h.dom[d] \ keep /\ r.dom[d] = keep /\ \A e \in Def : e # c /\ e # d => r.dom[e] = h.dom[e]
  BY <1>2, <1>3
<1>6. ASSUME NEW e \in Def
      PROVE  /\ WasDef(d, c, e) \in Def /\ Orig[WasDef(d, c, e)] = Orig[e]
             /\ e \in nodes \cup {c} => WasDef(d, c, e) \in nodes
             /\ \A i \in r.dom[e] : i \in h.dom[WasDef(d, c, e)] /\ HasDef(h, d, c, keep, e, i)
  <2>1. CASE e = c
    BY <1>1, <1>2, <1>5, <2>1 DEF WasDef, HasDef
  <2>2. CASE e # c
    BY <1>1, <1>2, <1>5, <2>2 DEF WasDef, HasDef
  <2> QED BY <2>1, <2>2
<1>7. ASSUME NEW u \in Use
      PROVE  /\ WasUse(twin, u) \in Use
             /\ u \in Twins(twin) => h.def[WasUse(twin, u)] = d
             /\ u \notin Twins(twin) => WasUse(twin, u) = u
  <2>1. CASE u \in Twins(twin)
    <3>1. WasUse(twin, u) \in h.ops[d] /\ WasUse(twin, u) \in Use
      BY <1>1, <2>1, TwinFacts DEF WasUse
    <3> QED BY <1>1, <1>2, <2>1, <3>1 DEF OpsAre
  <2>2. CASE u \notin Twins(twin)
    BY <2>2 DEF WasUse
  <2> QED BY <2>1, <2>2
<1>8. ASSUME NEW u \in Use, r.def[u] \in Def
      PROVE  /\ h.def[WasUse(twin, u)] \in Def
             /\ h.def[WasUse(twin, u)] = WasDef(d, c, r.def[u])
             /\ \A j \in r.dom[r.def[u]] : j \in h.dom[h.def[WasUse(twin, u)]]
                                           /\ HasUse(h, d, keep, twin, u, j)
  <2>1. CASE u \in Twins(twin)
    <3>1. r.def[u] = c /\ h.def[WasUse(twin, u)] = d /\ u \notin h.ops[d]
      BY <1>2, <1>3, <1>7, <2>1
    <3> QED BY <1>2, <1>5, <3>1 DEF HasUse, WasDef
  <2>2. CASE u \notin Twins(twin)
    <3>1. r.def[u] = h.def[u] /\ WasUse(twin, u) = u /\ h.def[u] # c
      BY <1>1, <1>3, <1>7, <2>2
    <3>2. u \in h.ops[d] => h.def[u] = d
      BY <1>1, <1>2 DEF OpsAre
    <3> QED BY <1>2, <1>5, <1>8, <2>2, <3>1, <3>2 DEF HasUse, WasDef
  <2> QED BY <2>1, <2>2
<1>9. /\ \A e \in Def, u \in Use : \A p :
            p \in r.raw[<<e, u>>] <=>
              /\ p \in h.raw[<<WasDef(d, c, e), WasUse(twin, u)>>]
              /\ HasDef(h, d, c, keep, e, p[1]) /\ HasUse(h, d, keep, twin, u, p[2])
      /\ \A e \in Def, u \in Use : \A p :
            p \in r.war[<<u, e>>] <=>
              /\ p \in h.war[<<WasUse(twin, u), WasDef(d, c, e)>>]
              /\ HasUse(h, d, keep, twin, u, p[1]) /\ HasDef(h, d, c, keep, e, p[2])
  BY <1>1, <1>3, SplitFacts
<1>10. r.dom[d] \cap r.dom[c] = {}
  BY <1>5
<1> QED BY <1>2, <1>3, <1>4, <1>5, <1>6, <1>7, <1>8, <1>9, <1>10

LEMMA SplitReads ==
    ASSUME NEW h, NEW nodes, NEW st, NEW d, NEW c, NEW keep, NEW twin, NEW r, NEW sp, NEW s,
           IsSplitOf(h, nodes, st, d, c, keep, twin, r, sp), ReadsOK(h, nodes, st, s)
    PROVE  ReadsOK(r, nodes \cup {c}, sp, s)
<1>1. /\ r \in Graph /\ OpsAre(r) /\ d \in Def /\ c \in Def /\ c # d
      /\ \A e \in Def : /\ WasDef(d, c, e) \in Def /\ Orig[WasDef(d, c, e)] = Orig[e]
                        /\ e \in nodes \cup {c} => WasDef(d, c, e) \in nodes
                        /\ \A i \in r.dom[e] : i \in h.dom[WasDef(d, c, e)]
                                               /\ HasDef(h, d, c, keep, e, i)
      /\ r.dom[d] \cap r.dom[c] = {}
  BY SplitParts
<1>2. /\ \A u \in Use : WasUse(twin, u) \in Use
      /\ \A u \in Use : r.def[u] \in Def =>
            /\ h.def[WasUse(twin, u)] \in Def
            /\ h.def[WasUse(twin, u)] = WasDef(d, c, r.def[u])
            /\ \A j \in r.dom[r.def[u]] : j \in h.dom[h.def[WasUse(twin, u)]]
                                          /\ HasUse(h, d, keep, twin, u, j)
  BY SplitParts
<1>3. /\ \A e \in Def, u \in Use : \A p :
            p \in r.raw[<<e, u>>] => p \in h.raw[<<WasDef(d, c, e), WasUse(twin, u)>>]
      /\ \A e \in Def, u \in Use : \A i, m :
            <<i, m>> \in h.war[<<WasUse(twin, u), WasDef(d, c, e)>>]
            /\ HasUse(h, d, keep, twin, u, i) /\ HasDef(h, d, c, keep, e, m)
               => <<i, m>> \in r.war[<<u, e>>]
  <2>1. ASSUME NEW e \in Def, NEW u \in Use, NEW i, NEW m,
               <<i, m>> \in h.war[<<WasUse(twin, u), WasDef(d, c, e)>>],
               HasUse(h, d, keep, twin, u, i), HasDef(h, d, c, keep, e, m)
        PROVE  <<i, m>> \in r.war[<<u, e>>]
    <3>1. <<i, m>>[1] = i /\ <<i, m>>[2] = m
      OBVIOUS
    <3> QED BY <2>1, <3>1, SplitParts
  <2>2. \A e \in Def, u \in Use : \A p :
            p \in r.raw[<<e, u>>] => p \in h.raw[<<WasDef(d, c, e), WasUse(twin, u)>>]
    BY SplitParts
  <2> QED BY <2>1, <2>2
<1>4. /\ h \in Graph /\ OpsAre(h) /\ nodes \in SUBSET Def
      /\ IsSplit(h, d, c, keep, twin) /\ r = KeepInstances(SplitDef(h, d, c, keep, twin), d, keep)
      /\ \A u \in Use : sp[u] = st[WasUse(twin, u)]
  BY DEF IsSplitOf
<1>5. Flows(r, sp, s)
  <2> SUFFICES ASSUME NEW u \in Use, r.def[u] \in Def, NEW j \in r.dom[r.def[u]], NEW v \in sp[u][j]
               PROVE  /\ ReaderOf(s, v) \in ScopPoints(s)
                      /\ FlowsTo(s, ReaderOf(s, v), <<Orig[r.def[u]], j>>)
    BY DEF Flows
  <2>1. PICK w \in Use : w = WasUse(twin, u)
    BY <1>2
  <2>2. h.def[w] \in Def /\ j \in h.dom[h.def[w]] /\ v \in st[w][j] /\ Orig[h.def[w]] = Orig[r.def[u]]
    BY <1>1, <1>2, <1>4, <2>1
  <2> QED BY <2>2 DEF ReadsOK, Flows
<1>6. Sourced(r, sp, s)
  <2> SUFFICES ASSUME NEW e \in Def, NEW u \in Use, NEW i \in Inst, NEW j \in Inst,
                      <<i, j>> \in r.raw[<<e, u>>]
               PROVE  \E v \in sp[u][j] : <<i, v[2]>> \in RAW(s)[<<Orig[e], v[1]>>]
    BY DEF Sourced
  <2>1. PICK w \in Use, x \in Def : w = WasUse(twin, u) /\ x = WasDef(d, c, e)
    BY <1>1, <1>2
  <2>2. <<i, j>> \in h.raw[<<x, w>>] /\ Orig[x] = Orig[e] /\ sp[u] = st[w]
    BY <1>1, <1>3, <1>4, <2>1
  <2>3. \E v \in st[w][j] : <<i, v[2]>> \in RAW(s)[<<Orig[x], v[1]>>]
    BY <2>2 DEF ReadsOK, Sourced
  <2> QED BY <2>2, <2>3
<1>7. Waits(r, nodes \cup {c}, sp, s)
  <2> SUFFICES ASSUME NEW f \in Def, NEW u \in r.ops[f], NEW j \in r.dom[f], NEW v \in sp[u][j],
                      NEW p \in FirstOverwrites(s, v), NEW e \in nodes \cup {c},
                      Orig[e] = p[1], p[2] \in r.dom[e]
               PROVE  <<j, p[2]>> \in r.war[<<u, e>>]
    BY DEF Waits
  <2>1. u \in Use /\ r.def[u] = f /\ e \in Def
    BY <1>1, <1>4 DEF OpsAre
  <2>2. PICK w \in Use, x \in Def : w = WasUse(twin, u) /\ x = WasDef(d, c, e)
    BY <1>1, <1>2, <2>1
  <2>3. /\ h.def[w] \in Def /\ w \in h.ops[h.def[w]] /\ j \in h.dom[h.def[w]] /\ v \in st[w][j]
        /\ HasUse(h, d, keep, twin, u, j)
    BY <1>2, <1>4, <2>1, <2>2 DEF OpsAre
  <2>4. x \in nodes /\ Orig[x] = p[1] /\ p[2] \in h.dom[x] /\ HasDef(h, d, c, keep, e, p[2])
    BY <1>1, <2>1, <2>2
  <2>5. <<j, p[2]>> \in h.war[<<w, x>>]
    BY <2>3, <2>4 DEF ReadsOK, Waits
  <2> QED BY <1>3, <2>1, <2>2, <2>3, <2>4, <2>5
<1>8. Apart(r, nodes \cup {c}, s)
  <2>1. ASSUME NEW e \in nodes \cup {c}, NEW f \in nodes \cup {c}, Orig[e] = Orig[f], e # f
        PROVE  r.dom[e] \cap r.dom[f] = {}
    <3>1. e \in Def /\ f \in Def
      BY <1>1, <1>4
    <3>2. PICK x \in nodes, y \in nodes : x = WasDef(d, c, e) /\ y = WasDef(d, c, f)
      BY <1>1, <3>1
    <3>3. r.dom[e] \subseteq h.dom[x] /\ r.dom[f] \subseteq h.dom[y] /\ Orig[x] = Orig[y]
      BY <1>1, <2>1, <3>1, <3>2
    <3>4. CASE x = y
      <4>1. {e, f} = {d, c}
        BY <2>1, <3>2, <3>4 DEF WasDef
      <4> QED BY <1>1, <2>1, <4>1
    <3>5. CASE x # y
      BY <3>3, <3>5 DEF ReadsOK, Apart
    <3> QED BY <3>4, <3>5
  <2>2. ASSUME NEW e \in nodes \cup {c} PROVE r.dom[e] \subseteq s.dom[Orig[e]]
    <3>1. e \in Def
      BY <1>1, <1>4
    <3>2. PICK x \in nodes : x = WasDef(d, c, e)
      BY <1>1, <3>1
    <3>3. r.dom[e] \subseteq h.dom[x] /\ Orig[x] = Orig[e]
      BY <1>1, <3>1, <3>2
    <3> QED BY <3>3 DEF ReadsOK, Apart
  <2> QED BY <2>1, <2>2 DEF Apart
<1>9. Alike(sp, s)
  <2> SUFFICES ASSUME NEW u \in Use
               PROVE  AffineRead(sp, s, u) \/ \A j \in Inst : \A v \in sp[u][j] : v[1] \notin s.affine
    BY DEF Alike
  <2>1. PICK w \in Use : w = WasUse(twin, u) /\ sp[u] = st[w]
    BY <1>2, <1>4
  <2> QED BY <2>1 DEF ReadsOK, Alike, AffineRead
<1>10. Covers(r)
  BY <1>4, SplitOver DEF ReadsOK, Covers
<1>11. Behind(r, sp, s)
  <2> SUFFICES ASSUME NEW u \in Use, NEW e \in Def, NEW j \in Inst, NEW m \in Inst,
                      <<j, m>> \in r.war[<<u, e>>]
               PROVE  \E v \in sp[u][j] : <<Orig[e], m>> \in Overwrites(s, v)
    BY DEF Behind
  <2>1. PICK w \in Use, x \in Def : w = WasUse(twin, u) /\ x = WasDef(d, c, e)
    BY <1>1, <1>2
  <2>2. <<j, m>> \in h.war[<<w, x>>]
    BY <2>1, SplitParts
  <2>3. Orig[x] = Orig[e] /\ sp[u] = st[w]
    BY <1>1, <1>4, <2>1
  <2>4. \E v \in st[w][j] : <<Orig[x], m>> \in Overwrites(s, v)
    BY <2>2 DEF ReadsOK, Behind
  <2> QED BY <2>3, <2>4
<1> QED BY <1>5, <1>6, <1>7, <1>8, <1>9, <1>10, <1>11 DEF ReadsOK

-----------------------------------------------------------------------------
(* What a dependence of a read is. *)
LEMMA RawPair ==
    ASSUME NEW s, NEW e \in Def, NEW u \in Use, NEW i, NEW j, <<i, j>> \in RAW(s)[<<e, u>>]
    PROVE  /\ s.def[u] \in Def /\ i \in s.dom[e] /\ j \in s.dom[s.def[u]]
           /\ s.time[e][i] < s.time[s.def[u]][j]
           /\ \E c \in s.cells[e][i] \cap s.cells[u][j] :
                 ~ Overwritten(s, c, s.time[e][i], s.time[s.def[u]][j])
<1>1. <<e, u>> \in Def \X Use /\ <<e, u>>[1] = e /\ <<e, u>>[2] = u /\ <<i, j>>[1] = i /\ <<i, j>>[2] = j
  OBVIOUS
<1>2. RAW(s)[<<e, u>>] = IF s.def[u] \in Def THEN Flow(s, e, e, u, s.def[u]) ELSE {}
  BY <1>1 DEF RAW
<1>3. s.def[u] \in Def /\ <<i, j>> \in Flow(s, e, e, u, s.def[u])
  BY <1>2
<1> QED BY <1>1, <1>3 DEF Flow

(* A value flows from the write a read depends on to the statement of the read. *)
LEMMA SourceFlows ==
    ASSUME NEW s, NEW d \in Def, NEW i \in Inst, NEW w \in Use \X Inst, ReaderOf(s, w) \in ScopPoints(s),
           <<i, w[2]>> \in RAW(s)[<<d, w[1]>>]
    PROVE  FlowsTo(s, <<d, i>>, ReaderOf(s, w))
<1>1. w[1] \in Use /\ w[2] \in Inst /\ <<d, w[1]>> \in Def \X Use
      /\ <<d, w[1]>>[1] = d /\ <<d, w[1]>>[2] = w[1] /\ <<d, i>>[1] = d /\ <<d, i>>[2] = i
  BY PairFacts
<1>2. s.def[w[1]] \in Def /\ <<i, w[2]>> \in Flow(s, d, d, w[1], s.def[w[1]])
  <2>1. RAW(s)[<<d, w[1]>>] = IF s.def[w[1]] \in Def THEN Flow(s, d, d, w[1], s.def[w[1]]) ELSE {}
    BY <1>1 DEF RAW
  <2> QED BY <2>1
<1>3. i \in s.dom[d]
  BY <1>2 DEF Flow
<1>4. <<d, i>> \in ScopPoints(s)
  BY <1>1, <1>3 DEF ScopPoints
<1> DEFINE q == ReaderOf(s, w)
           edge == <<<<d, i>>, q>>
<1>5. q[1] = s.def[w[1]] /\ q[2] = w[2] /\ edge[1] = <<d, i>> /\ edge[2] = q
  BY DEF ReaderOf
<1>6. edge \in ReadsFrom(s)
  <2>1. edge \in ScopPoints(s) \X ScopPoints(s)
    BY <1>4
  <2>2. edge[1][1] = d /\ edge[1][2] = i /\ edge[2][1] = s.def[w[1]] /\ edge[2][2] = w[2]
    BY <1>1, <1>5
  <2> HIDE DEF edge, q
  <2>3. \E u \in Use : s.def[u] = edge[2][1] /\ <<edge[1][2], edge[2][2]>> \in RAW(s)[<<edge[1][1], u>>]
    BY <1>1, <2>2
  <2> QED BY <2>1, <2>3 DEF ReadsFrom
<1> QED BY <1>6, FlowStep

-----------------------------------------------------------------------------
(* A graph in which n reloads at statement t, through the edge k, what operand o of the source reads. *)
IsReloadOf(h, st, s, o, n, k, t, r, sp) ==
    /\ h \in Graph /\ Tied(h) /\ Reloaded(h, o, n, k, t, r) /\ WritesUntouched(h, r)
    /\ k \in Def \X Use /\ t \in Def /\ t = h.def[k[2]]
    /\ o \in Use /\ o \in h.ops[k[1]] /\ h.def[o] = k[1] /\ n \in Use /\ n # k[2]
    /\ \A d \in Def : h.ops[d] = {u \in Use : h.def[u] = d} \ {k[2]}
    /\ h.def[n] = NoDef \/ (h.def[n] = t /\ AffineRead(st, s, n) /\ AffineRead(st, s, o))
    /\ \A u \in Use : h.def[u] = NoDef => \A j \in Inst : st[u][j] = {}
    /\ \A u \in Use, j \in Inst : st[u][j] \subseteq Use \X Inst
    /\ \A u \in Use : u # n => sp[u] = st[u]
    /\ \A j \in Inst : \A v : v \in sp[n][j] <=>
          v \in st[n][j] \/ \E m \in Inst : <<m, j>> \in h.raw[k] /\ v \in st[o][m]

(* What the operand stands for after the reload it stood for, or o did at the source. *)
LEMMA ReloadPlaces ==
    ASSUME NEW h, NEW st, NEW s, NEW o, NEW n, NEW k, NEW t, NEW r, NEW sp,
           IsReloadOf(h, st, s, o, n, k, t, r, sp),
           NEW j \in Inst, NEW v \in sp[n][j]
    PROVE  \/ h.def[n] = t /\ v \in st[n][j]
           \/ \E m \in Inst : /\ <<m, j>> \in h.raw[k] /\ v \in st[o][m]
                              /\ k[1] \in Def /\ m \in h.dom[k[1]] /\ j \in h.dom[t]
<1>1. v \in st[n][j] \/ \E m \in Inst : <<m, j>> \in h.raw[k] /\ v \in st[o][m]
  BY DEF IsReloadOf
<1>2. CASE v \in st[n][j]
  <2>1. h.def[n] # NoDef
    BY <1>2 DEF IsReloadOf
  <2> QED BY <1>2, <2>1 DEF IsReloadOf
<1>3. CASE \E m \in Inst : <<m, j>> \in h.raw[k] /\ v \in st[o][m]
  <2>1. PICK m \in Inst : <<m, j>> \in h.raw[k] /\ v \in st[o][m]
    BY <1>3
  <2>2. <<m, j>>[1] = m /\ <<m, j>>[2] = j
    OBVIOUS
  <2>3. k[1] \in Def /\ m \in h.dom[k[1]] /\ j \in h.dom[t]
    BY <2>1, <2>2, PairFacts DEF IsReloadOf, Tied
  <2> QED BY <2>1, <2>3
<1> QED BY <1>1, <1>2, <1>3

(* The edges after the reload. *)
LEMMA ReloadEdges ==
    ASSUME NEW h, NEW st, NEW s, NEW o, NEW n, NEW k, NEW t, NEW r, NEW sp,
           IsReloadOf(h, st, s, o, n, k, t, r, sp)
    PROVE  /\ r \in Graph /\ r.dom = h.dom
           /\ \A u \in Use : r.def[u] = IF u = n THEN t ELSE h.def[u]
           /\ \A d \in Def : \A u \in r.ops[d] : u \in Use /\ r.def[u] = d /\ (u # n => u \in h.ops[d])
           /\ \A e \in Def, u \in Use : u # n => r.raw[<<e, u>>] = h.raw[<<e, u>>]
           /\ \A e \in Def : \A i, j \in Inst : <<i, j>> \in r.raw[<<e, n>>] =>
                 \/ <<i, j>> \in h.raw[<<e, n>>] /\ h.def[n] = t
                 \/ \E m \in Inst : <<i, m>> \in h.raw[<<e, o>>] /\ <<m, j>> \in h.raw[k]
           /\ \A e \in Def, u \in Use : h.war[<<u, e>>] \subseteq r.war[<<u, e>>]
           /\ \A e \in Def, u \in Use : u # n => r.war[<<u, e>>] = h.war[<<u, e>>]
           /\ \A e \in Def : \A j, m \in Inst : <<j, m>> \in r.war[<<n, e>>] =>
                 \/ <<j, m>> \in h.war[<<n, e>>] /\ h.def[n] = t
                 \/ \E i \in Inst : <<i, j>> \in h.raw[k] /\ <<i, m>> \in h.war[<<o, e>>]
<1>1. Reloaded(h, o, n, k, t, r) /\ n \in Use /\ h \in Graph /\ Tied(h) /\ t \in Def
      /\ (h.def[n] = NoDef \/ h.def[n] = t) /\ n # k[2]
      /\ \A d \in Def : h.ops[d] = {u \in Use : h.def[u] = d} \ {k[2]}
  BY DEF IsReloadOf
<1>2. ASSUME NEW e \in Def, NEW u \in Use
      PROVE  /\ u # n => r.raw[<<e, u>>] = h.raw[<<e, u>>]
             /\ u = n => r.raw[<<e, u>>] = h.raw[<<e, u>>] \cup Compose(h.raw[<<e, o>>], h.raw[k])
             /\ u # n => r.war[<<u, e>>] = h.war[<<u, e>>]
  <2>1. /\ <<e, u>> \in Def \X Use /\ <<e, u>>[1] = e /\ <<e, u>>[2] = u
        /\ <<u, e>> \in Use \X Def /\ <<u, e>>[1] = u /\ <<u, e>>[2] = e
    OBVIOUS
  <2>2. r.raw[<<e, u>>] = IF u = n THEN h.raw[<<e, u>>] \cup Compose(h.raw[<<e, o>>], h.raw[k])
                          ELSE h.raw[<<e, u>>]
    BY <1>1, <2>1 DEF Reloaded
  <2>3. u # n => r.war[<<u, e>>] = h.war[<<u, e>>]
    BY <1>1, <2>1 DEF Reloaded
  <2> QED BY <2>2, <2>3
<1>3. ASSUME NEW e \in Def, NEW i \in Inst, NEW j \in Inst, <<i, j>> \in r.raw[<<e, n>>]
      PROVE  \/ <<i, j>> \in h.raw[<<e, n>>] /\ h.def[n] = t
             \/ \E m \in Inst : <<i, m>> \in h.raw[<<e, o>>] /\ <<m, j>> \in h.raw[k]
  <2>1. CASE <<i, j>> \in h.raw[<<e, n>>]
    <3>1. <<e, n>> \in Def \X Use /\ <<e, n>>[2] = n
      BY <1>1
    <3>2. h.def[n] \in Def
      BY <1>1, <2>1, <3>1 DEF Tied
    <3> QED BY <1>1, <2>1, <3>2, NoDefAssumption
  <2>2. CASE <<i, j>> \in Compose(h.raw[<<e, o>>], h.raw[k])
    <3>1. <<i, j>>[1] = i /\ <<i, j>>[2] = j
      OBVIOUS
    <3> QED BY <2>2, <3>1 DEF Compose
  <2> QED BY <1>1, <1>2, <1>3, <2>1, <2>2
<1>4. ASSUME NEW d \in Def, NEW u \in r.ops[d]
      PROVE  u \in Use /\ r.def[u] = d /\ (u # n => u \in h.ops[d])
  <2>1. r.ops[d] = IF d = t THEN h.ops[d] \cup {n} ELSE h.ops[d]
    BY <1>1 DEF Reloaded
  <2>2. r.def[u] = IF u = n THEN t ELSE h.def[u]
    BY <1>1, <1>4, <2>1 DEF Reloaded
  <2>3. CASE u = n
    <3>1. d = t
      <4>1. CASE d # t
        <5>1. n \in h.ops[d]
          BY <2>1, <2>3, <4>1
        <5>2. h.def[n] = d
          BY <1>1, <5>1
        <5> QED BY <1>1, <4>1, <5>2, NoDefAssumption
      <4> QED BY <4>1
    <3> QED BY <1>1, <2>2, <2>3, <3>1
  <2>4. CASE u # n
    <3>1. u \in h.ops[d]
      BY <2>1, <2>4
    <3> QED BY <1>1, <2>2, <2>4, <3>1
  <2> QED BY <2>3, <2>4
<1>5. ASSUME NEW e \in Def, NEW u \in Use PROVE h.war[<<u, e>>] \subseteq r.war[<<u, e>>]
  BY <1>1, <1>2 DEF Reloaded
<1>6. ASSUME NEW e \in Def, NEW j \in Inst, NEW m \in Inst, <<j, m>> \in r.war[<<n, e>>]
      PROVE  \/ <<j, m>> \in h.war[<<n, e>>] /\ h.def[n] = t
             \/ \E i \in Inst : <<i, j>> \in h.raw[k] /\ <<i, m>> \in h.war[<<o, e>>]
  <2>1. \/ <<j, m>> \in h.war[<<n, e>>]
        \/ \E i \in Inst : <<i, j>> \in h.raw[k] /\ <<i, m>> \in h.war[<<o, e>>]
    BY <1>1, <1>6 DEF Reloaded
  <2>2. <<j, m>> \in h.war[<<n, e>>] => h.def[n] \in Def
    <3>1. <<n, e>> \in Use \X Def /\ <<n, e>>[1] = n
      BY <1>1
    <3> QED BY <1>1, <3>1 DEF Tied
  <2> QED BY <1>1, <2>1, <2>2, NoDefAssumption
<1> QED BY <1>1, <1>2, <1>3, <1>4, <1>5, <1>6 DEF Reloaded

LEMMA ReloadReads ==
    ASSUME NEW h, NEW nodes \in SUBSET Def, NEW st, NEW s, NEW o, NEW n, NEW k, NEW t, NEW r, NEW sp,
           IsReloadOf(h, st, s, o, n, k, t, r, sp), ReadsOK(h, nodes, st, s)
    PROVE  ReadsOK(r, nodes, sp, s)
<1>1. /\ h \in Graph /\ Tied(h) /\ k \in Def \X Use /\ t \in Def /\ t = h.def[k[2]]
      /\ o \in Use /\ o \in h.ops[k[1]] /\ h.def[o] = k[1] /\ n \in Use /\ n # k[2]
      /\ \A u \in Use : u # n => sp[u] = st[u]
      /\ k = <<k[1], k[2]>> /\ k[1] \in Def /\ k[2] \in Use
  BY PairFacts DEF IsReloadOf
<1>2. /\ r \in Graph /\ r.dom = h.dom
      /\ \A u \in Use : r.def[u] = IF u = n THEN t ELSE h.def[u]
      /\ \A d \in Def : \A u \in r.ops[d] : u \in Use /\ r.def[u] = d /\ (u # n => u \in h.ops[d])
      /\ \A e \in Def, u \in Use : u # n => r.raw[<<e, u>>] = h.raw[<<e, u>>]
      /\ \A e \in Def, u \in Use : h.war[<<u, e>>] \subseteq r.war[<<u, e>>]
  BY ReloadEdges
<1>3. \A d \in Def : h.dom[d] \subseteq Inst
  BY <1>1 DEF Graph
(* what is reloaded flows through the source to the target *)
<1>4. Flows(r, sp, s)
  <2> SUFFICES ASSUME NEW u \in Use, r.def[u] \in Def, NEW j \in r.dom[r.def[u]], NEW v \in sp[u][j]
               PROVE  /\ ReaderOf(s, v) \in ScopPoints(s)
                      /\ FlowsTo(s, ReaderOf(s, v), <<Orig[r.def[u]], j>>)
    BY DEF Flows
  <2>1. j \in Inst
    BY <1>2, <1>3
  <2>2. CASE h.def[u] = r.def[u] /\ v \in st[u][j]
    BY <1>2, <2>2 DEF ReadsOK, Flows
  <2>3. CASE u = n /\ \E m \in Inst : /\ <<m, j>> \in h.raw[k] /\ v \in st[o][m]
                                      /\ m \in h.dom[k[1]] /\ j \in h.dom[t]
    <3>1. PICK m \in Inst : /\ <<m, j>> \in h.raw[k] /\ v \in st[o][m]
                            /\ m \in h.dom[k[1]] /\ j \in h.dom[t]
      BY <2>3
    <3>2. ReaderOf(s, v) \in ScopPoints(s) /\ FlowsTo(s, ReaderOf(s, v), <<Orig[k[1]], m>>)
      BY <1>1, <3>1 DEF ReadsOK, Flows
    <3>3. PICK w \in st[k[2]][j] : <<m, w[2]>> \in RAW(s)[<<Orig[k[1]], w[1]>>]
      BY <1>1, <2>1, <3>1 DEF ReadsOK, Sourced
    <3>4. ReaderOf(s, w) \in ScopPoints(s) /\ FlowsTo(s, ReaderOf(s, w), <<Orig[t], j>>)
      BY <1>1, <3>1, <3>3 DEF ReadsOK, Flows
    <3>5. FlowsTo(s, <<Orig[k[1]], m>>, ReaderOf(s, w))
      <4>1. w \in Use \X Inst /\ Orig[k[1]] \in Def
        BY <1>1, <2>1, OrigAssumption DEF IsReloadOf
      <4> QED BY <3>1, <3>3, <3>4, <4>1, SourceFlows
    <3>6. FlowsTo(s, ReaderOf(s, v), <<Orig[t], j>>)
      BY <3>2, <3>4, <3>5, FlowChain
    <3> QED BY <1>2, <2>3, <3>2, <3>6
  <2>4. u = n => \/ h.def[n] = t /\ v \in st[n][j]
                 \/ \E m \in Inst : /\ <<m, j>> \in h.raw[k] /\ v \in st[o][m]
                                    /\ k[1] \in Def /\ m \in h.dom[k[1]] /\ j \in h.dom[t]
    BY <2>1, ReloadPlaces
  <2> QED BY <1>1, <1>2, <2>2, <2>3, <2>4
<1>5. Sourced(r, sp, s)
  <2> SUFFICES ASSUME NEW e \in Def, NEW u \in Use, NEW i \in Inst, NEW j \in Inst,
                      <<i, j>> \in r.raw[<<e, u>>]
               PROVE  \E v \in sp[u][j] : <<i, v[2]>> \in RAW(s)[<<Orig[e], v[1]>>]
    BY DEF Sourced
  <2>1. CASE <<i, j>> \in h.raw[<<e, u>>]
    <3>1. PICK v \in st[u][j] : <<i, v[2]>> \in RAW(s)[<<Orig[e], v[1]>>]
      BY <2>1 DEF ReadsOK, Sourced
    <3>2. v \in sp[u][j]
      BY DEF IsReloadOf
    <3> QED BY <3>1, <3>2
  <2>2. CASE u = n /\ \E m \in Inst : <<i, m>> \in h.raw[<<e, o>>] /\ <<m, j>> \in h.raw[k]
    <3>1. PICK m \in Inst : <<i, m>> \in h.raw[<<e, o>>] /\ <<m, j>> \in h.raw[k]
      BY <2>2
    <3>2. PICK v \in st[o][m] : <<i, v[2]>> \in RAW(s)[<<Orig[e], v[1]>>]
      BY <1>1, <3>1 DEF ReadsOK, Sourced
    <3>3. v \in sp[u][j]
      BY <2>2, <3>1 DEF IsReloadOf
    <3> QED BY <3>2, <3>3
  <2>3. u = n => \/ <<i, j>> \in h.raw[<<e, n>>] /\ h.def[n] = t
                 \/ \E m \in Inst : <<i, m>> \in h.raw[<<e, o>>] /\ <<m, j>> \in h.raw[k]
    BY ReloadEdges
  <2> QED BY <1>2, <2>1, <2>2, <2>3
<1>6. Waits(r, nodes, sp, s)
  <2> SUFFICES ASSUME NEW d \in Def, NEW u \in r.ops[d], NEW j \in r.dom[d], NEW v \in sp[u][j],
                      NEW p \in FirstOverwrites(s, v), NEW e \in nodes,
                      Orig[e] = p[1], p[2] \in r.dom[e]
               PROVE  <<j, p[2]>> \in r.war[<<u, e>>]
    BY DEF Waits
  <2>1. u \in Use /\ r.def[u] = d /\ j \in Inst /\ j \in h.dom[d] /\ p[2] \in h.dom[e] /\ e \in Def
        /\ p[2] \in Inst
    BY <1>2, <1>3
  <2>2. CASE u \in h.ops[d] /\ v \in st[u][j]
    <3>1. <<j, p[2]>> \in h.war[<<u, e>>]
      BY <2>1, <2>2 DEF ReadsOK, Waits
    <3> QED BY <1>2, <2>1, <3>1
  <2>3. CASE u = n /\ \E m \in Inst : /\ <<m, j>> \in h.raw[k] /\ v \in st[o][m]
                                      /\ m \in h.dom[k[1]] /\ j \in h.dom[t]
    <3>1. PICK m \in Inst : /\ <<m, j>> \in h.raw[k] /\ v \in st[o][m] /\ m \in h.dom[k[1]]
      BY <2>3
    <3>2. <<m, p[2]>> \in h.war[<<o, e>>]
      BY <1>1, <2>1, <3>1 DEF ReadsOK, Waits
    <3>3. Reloaded(h, o, n, k, t, r)
      BY DEF IsReloadOf
    <3> QED BY <2>1, <2>3, <3>1, <3>2, <3>3 DEF Reloaded
  <2>4. u = n => \/ h.def[n] = t /\ v \in st[n][j]
                 \/ \E m \in Inst : /\ <<m, j>> \in h.raw[k] /\ v \in st[o][m]
                                    /\ k[1] \in Def /\ m \in h.dom[k[1]] /\ j \in h.dom[t]
    BY <2>1, ReloadPlaces
  <2>5. h.def[n] = t => n \in h.ops[t]
    BY <1>1 DEF IsReloadOf
  <2>6. u = n => d = t
    BY <1>1, <1>2, <2>1
  <2> QED BY <1>1, <1>2, <2>2, <2>3, <2>4, <2>5, <2>6
<1>7. Apart(r, nodes, s)
  BY <1>2 DEF ReadsOK, Apart
<1>8. Alike(sp, s)
  <2> SUFFICES ASSUME NEW u \in Use
               PROVE  AffineRead(sp, s, u) \/ \A j \in Inst : \A v \in sp[u][j] : v[1] \notin s.affine
    BY DEF Alike
  <2>1. CASE u # n
    BY <1>1, <2>1 DEF ReadsOK, Alike, AffineRead
  <2>2. CASE u = n
    <3>1. \A j \in Inst : \A v \in sp[n][j] :
             \/ h.def[n] = t /\ v \in st[n][j]
             \/ \E m \in Inst : v \in st[o][m]
      <4> SUFFICES ASSUME NEW j \in Inst, NEW v \in sp[n][j]
                   PROVE  \/ h.def[n] = t /\ v \in st[n][j]
                          \/ \E m \in Inst : v \in st[o][m]
        OBVIOUS
      <4>1. \/ h.def[n] = t /\ v \in st[n][j]
            \/ \E m \in Inst : /\ <<m, j>> \in h.raw[k] /\ v \in st[o][m]
                               /\ k[1] \in Def /\ m \in h.dom[k[1]] /\ j \in h.dom[t]
        BY ReloadPlaces
      <4> QED BY <4>1
    <3>2. CASE h.def[n] = NoDef
      <4>1. h.def[n] # t
        BY <1>1, <3>2, NoDefAssumption
      <4> QED BY <1>1, <2>2, <3>1, <4>1 DEF ReadsOK, Alike, AffineRead
    <3>3. CASE AffineRead(st, s, n) /\ AffineRead(st, s, o)
      BY <2>2, <3>1, <3>3 DEF AffineRead
    <3> QED BY <3>2, <3>3 DEF IsReloadOf
  <2> QED BY <2>1, <2>2
<1>9. Covers(r)
  <2>1. \A d \in Def : OverHolds(h, d) => OverHolds(r, d)
    BY Untouched DEF IsReloadOf, WritesStep
  <2> QED BY <2>1 DEF ReadsOK, Covers
<1>10. Behind(r, sp, s)
  <2> SUFFICES ASSUME NEW u \in Use, NEW e \in Def, NEW j \in Inst, NEW m \in Inst,
                      <<j, m>> \in r.war[<<u, e>>]
               PROVE  \E v \in sp[u][j] : <<Orig[e], m>> \in Overwrites(s, v)
    BY DEF Behind
  <2>1. CASE <<j, m>> \in h.war[<<u, e>>]
    <3>1. PICK v \in st[u][j] : <<Orig[e], m>> \in Overwrites(s, v)
      BY <2>1 DEF ReadsOK, Behind
    <3>2. v \in sp[u][j]
      BY DEF IsReloadOf
    <3> QED BY <3>1, <3>2
  <2>2. CASE u = n /\ \E i \in Inst : <<i, j>> \in h.raw[k] /\ <<i, m>> \in h.war[<<o, e>>]
    <3>1. PICK i \in Inst : <<i, j>> \in h.raw[k] /\ <<i, m>> \in h.war[<<o, e>>]
      BY <2>2
    <3>2. PICK v \in st[o][i] : <<Orig[e], m>> \in Overwrites(s, v)
      BY <1>1, <3>1 DEF ReadsOK, Behind
    <3>3. v \in sp[n][j]
      BY <3>1 DEF IsReloadOf
    <3> QED BY <2>2, <3>2, <3>3
  <2>3. /\ u # n => <<j, m>> \in h.war[<<u, e>>]
        /\ u = n => \/ <<j, m>> \in h.war[<<n, e>>]
                    \/ \E i \in Inst : <<i, j>> \in h.raw[k] /\ <<i, m>> \in h.war[<<o, e>>]
    BY ReloadEdges
  <2> QED BY <2>1, <2>2, <2>3
<1> QED BY <1>4, <1>5, <1>6, <1>7, <1>8, <1>9, <1>10 DEF ReadsOK

-----------------------------------------------------------------------------
(***************************************************************************)
(* What a setDomain does to the edges of reads: none is added, and one     *)
(* from an operand to a write goes only with one of its instances.         *)
(***************************************************************************)
TakesReads(h, r) ==
    /\ \A d \in Def, u \in Use : /\ r.raw[<<d, u>>] \subseteq h.raw[<<d, u>>]
                                 /\ r.war[<<u, d>>] \subseteq h.war[<<u, d>>]
    /\ \A d \in Def : \A u \in r.ops[d] : \A e \in Def : \A i \in r.dom[d], m \in r.dom[e] :
          <<i, m>> \in h.war[<<u, e>>] => <<i, m>> \in r.war[<<u, e>>]

LEMMA SameEdges ==
    ASSUME NEW h, NEW r, r.raw = h.raw, r.war = h.war
    PROVE  TakesReads(h, r)
BY DEF TakesReads

LEMMA VisitWarKept ==
    ASSUME EInv, op.phase \in {1, 2}, NEW k \in op.todo,
           NEW r, r = Shrink(g, op.def, Phases[op.phase], k)
    PROVE  TakesReads(g, r)
<1> DEFINE D == g.dom[op.def]
<1>1. g \in Graph /\ k \in Use \X Def /\ (op.phase = 1 => k[2] = op.def)
      /\ (op.phase = 2 => g.def[k[1]] = op.def)
  BY DEF EInv, GInv, IInv, TypeOK, TodoOK, KeysOf, WarTodo
<1> HIDE DEF D
<1>2. \/ /\ op.phase = 1 /\ SameNodes(g, r) /\ r.raw = g.raw
         /\ r.war = [g.war EXCEPT ![k] = @ \ LostRange(@, D)]
      \/ /\ op.phase = 2 /\ SameNodes(g, r) /\ r.raw = g.raw
         /\ r.war = [g.war EXCEPT ![k] = @ \ LostDomain(@, D)]
  <2>1. CASE op.phase = 1
    <3>1. r = ShrinkWarRange(g, k, D)
      BY <2>1 DEF Shrink, Phases, D
    <3> QED BY <1>1, <2>1, <3>1, ShrinkWarRangeFacts
  <2>2. CASE op.phase = 2
    <3>1. r = ShrinkWarDomain(g, k, D)
      BY <2>2 DEF Shrink, Phases, D
    <3> QED BY <1>1, <2>2, <3>1, ShrinkWarDomainFacts
  <2> QED BY <2>1, <2>2
<1>3. SameNodes(g, r) /\ r.raw = g.raw
  BY <1>2
<1>4. ASSUME NEW d \in Def, NEW u \in r.ops[d], NEW e \in Def, NEW i \in r.dom[d], NEW m \in r.dom[e],
             <<i, m>> \in g.war[<<u, e>>]
      PROVE  <<i, m>> \in r.war[<<u, e>>]
  <2>1. /\ u \in Use /\ g.def[u] = d /\ i \in g.dom[d] /\ m \in g.dom[e]
        /\ <<u, e>> \in Use \X Def /\ <<u, e>>[1] = u /\ <<u, e>>[2] = e
        /\ <<i, m>>[1] = i /\ <<i, m>>[2] = m
    BY <1>3 DEF EInv, OpsOK, SameNodes
  <2>2. g.war \in [Use \X Def -> Map]
    BY <1>1 DEF Graph
  <2>3. CASE <<u, e>> # k
    BY <1>2, <1>4, <2>1, <2>2, <2>3
  <2>4. CASE <<u, e>> = k /\ op.phase = 1
    <3>1. m \in D
      BY <1>1, <2>1, <2>4 DEF D
    <3>2. r.war[k] = g.war[k] \ LostRange(g.war[k], D)
      BY <1>1, <1>2, <2>2, <2>4
    <3> QED BY <1>4, <2>1, <2>4, <3>1, <3>2 DEF LostRange
  <2>5. CASE <<u, e>> = k /\ op.phase = 2
    <3>1. i \in D
      BY <1>1, <2>1, <2>5 DEF D
    <3>2. r.war[k] = g.war[k] \ LostDomain(g.war[k], D)
      BY <1>1, <1>2, <2>2, <2>5
    <3> QED BY <1>4, <2>1, <2>5, <3>1, <3>2 DEF LostDomain
  <2> QED BY <2>3, <2>4, <2>5
<1>5. ASSUME NEW d \in Def, NEW u \in Use PROVE r.war[<<u, d>>] \subseteq g.war[<<u, d>>]
  <2>1. <<u, d>> \in Use \X Def /\ g.war \in [Use \X Def -> Map]
    BY <1>1 DEF Graph
  <2> QED BY <1>1, <1>2, <2>1
<1> QED BY <1>3, <1>4, <1>5 DEF TakesReads

LEMMA VisitWawKept ==
    ASSUME IInv, op.phase = 3, NEW k \in op.todo,
           NEW r, r = Shrink(g, op.def, Phases[op.phase], k)
    PROVE  r.raw = g.raw /\ r.war = g.war
<1> DEFINE d == op.def
           D == g.dom[d]
           out == IF k[1] = d THEN ShrinkWawDomain(g, k, D) ELSE g
<1>1. g \in Graph /\ k \in Def \X Def /\ d \in Def
  BY DEF IInv, TypeOK, TodoOK, KeysOf
<1>2. r = IF k[2] = d THEN ShrinkWawRange(out, k, D) ELSE out
  BY DEF Shrink, ShrinkWaw, Phases
<1>3. \A u \in Use : \A p \in g.war[u, d] : p[2] \in D
  BY WarVisited
<1> HIDE DEF D
<1>4. out \in Graph /\ out.raw = g.raw /\ out.war = g.war
  <2>1. CASE k[1] = d
    <3>1. \A u \in Use : \A p \in g.war[u, k[1]] : p[2] \in D
      BY <1>3, <2>1
    <3>2. out = ShrinkWawDomain(g, k, D)
      BY <2>1
    <3> HIDE DEF out
    <3> QED BY <1>1, <3>1, <3>2, ShrinkWawDomainFacts
  <2>2. CASE k[1] # d
    BY <1>1, <2>2
  <2> QED BY <2>1, <2>2
<1> HIDE DEF out
<1>5. CASE k[2] = d
  BY <1>1, <1>2, <1>4, <1>5, ShrinkWawRangeFacts
<1>6. CASE k[2] # d
  BY <1>2, <1>4, <1>6
<1> QED BY <1>5, <1>6

LEMMA VisitRawKept ==
    ASSUME IInv, op.phase \in {4, 5}, NEW k \in op.todo,
           NEW r, r = Shrink(g, op.def, Phases[op.phase], k)
    PROVE  TakesReads(g, r)
<1> DEFINE D == g.dom[op.def]
<1>1. g \in Graph /\ k \in Def \X Use /\ (op.phase = 4 => k[1] = op.def)
  BY DEF IInv, TypeOK, TodoOK, KeysOf
<1>2. r.war = g.war
  <2>1. CASE op.phase = 4
    <3>1. r = ShrinkRawDomain(g, k, D)
      BY <2>1 DEF Shrink, Phases
    <3>2. k = <<k[1], k[2]>> /\ k[1] \in Def /\ k[2] \in Use
      BY <1>1, PairFacts
    <3>3. \A p \in g.raw[k] : p[1] \in D
      BY <1>1, <2>1, <3>2 DEF IInv, RawStarts
    <3> QED BY <1>1, <3>1, <3>3, ShrinkRawDomainFacts
  <2>2. CASE op.phase = 5
    <3>1. r = ShrinkRawRange(g, k, D)
      BY <2>2 DEF Shrink, Phases
    <3> HIDE DEF D
    <3>2. SameNodes(g, r) /\ r.war = g.war /\ r.raw = [g.raw EXCEPT ![k] = @ \ LostRange(@, D)]
      BY <1>1, <3>1, ShrinkRawRangeFacts
    <3> QED BY <3>2
  <2> QED BY <2>1, <2>2
<1>3. ASSUME NEW d \in Def, NEW u \in Use PROVE r.raw[<<d, u>>] \subseteq g.raw[<<d, u>>]
  <2>1. VisitOK(r)
    BY VisitRaw
  <2>2. <<d, u>> \in Def \X Use
    OBVIOUS
  <2> QED BY <2>1, <2>2 DEF VisitOK
<1> QED BY <1>2, <1>3 DEF TakesReads

LEMMA StepTakes == ASSUME EInv, [Next]_vars PROVE TakesReads(g, g')
<1>1. g \in Graph /\ IInv
  BY DEF EInv, GInv, IInv, TypeOK
<1>2. ASSUME NEW d \in Def, CheckBarrier(d) PROVE TakesReads(g, g')
  <2> DEFINE asked == FillBarrier(g, d)
  <2>1. g' = asked \/ g' = FillOver(asked, d)
    BY <1>2 DEF CheckBarrier
  <2>2. asked \in Graph /\ asked.raw = g.raw /\ asked.war = g.war
    BY <1>1, FillBarrierFacts
  <2> HIDE DEF asked
  <2>3. g'.raw = g.raw /\ g'.war = g.war
    BY <2>1, <2>2, FillOverFacts
  <2> QED BY <2>3, SameEdges
<1>3. ASSUME NEW d \in Def, RestrictStmt(d) PROVE TakesReads(g, g')
  <2> DEFINE asked == IF LiveOut(d) THEN FillOver(FillUsed(g, d), d) ELSE FillUsed(g, d)
  <2>1. asked \in Graph /\ asked.raw = g.raw /\ asked.war = g.war
    <3>1. /\ FillUsed(g, d) \in Graph /\ FillUsed(g, d).raw = g.raw
          /\ FillUsed(g, d).war = g.war
      BY <1>1, FillUsedFacts
    <3> QED BY <3>1, FillOverFacts
  <2>2. g' = asked \/ g' = KeepInstances(asked, d, NeededDomain(d))
    BY <1>3 DEF RestrictStmt
  <2> HIDE DEF asked
  <2>3. g'.raw = g.raw /\ g'.war = g.war
    BY <2>1, <2>2 DEF KeepInstances, Graph
  <2> QED BY <2>3, SameEdges
<1>4. CASE VisitEdge
  <2>1. PICK k \in op.todo : g' = Shrink(g, op.def, Phases[op.phase], k)
    BY <1>4 DEF VisitEdge
  <2>2. op.phase \in 1..5
    <3>1. op.phase \in 0..5 /\ op.phase # 0
      BY <1>1, <2>1 DEF IInv, TypeOK, TodoOK
    <3> QED BY <3>1
  <2>3. CASE op.phase \in {1, 2}
    BY <2>1, <2>3, VisitWarKept
  <2>4. CASE op.phase = 3
    BY <1>1, <2>1, <2>4, VisitWawKept, SameEdges
  <2>5. CASE op.phase \in {4, 5}
    BY <1>1, <2>1, <2>5, VisitRawKept
  <2> QED BY <2>2, <2>3, <2>4, <2>5
<1>5. CASE NextPhase \/ UNCHANGED vars
  BY <1>5, SameEdges DEF NextPhase, vars
<1> QED BY <1>2, <1>3, <1>4, <1>5 DEF Next

LEMMA StepNarrows ==
    ASSUME EInv, [Next]_vars, stands' = stands
    PROVE  Narrows(g, stands, g', stands') /\ g' \in Graph
<1>1. EInv' /\ ReadsStep(g, g') /\ WritesStep(g, g') /\ TakesReads(g, g')
  BY StepEdges, StepWrites, StepTakes
<1>2. g' \in Graph
  BY <1>1 DEF EInv, GInv, IInv, TypeOK
<1> QED BY <1>1, <1>2 DEF Narrows, ReadsStep, WritesStep, TakesReads

-----------------------------------------------------------------------------
(***************************************************************************)
(* The group P that is propagated, N being the targets that were refused   *)
(* and D the nodes that are deleted with it.  An edge is barred if its     *)
(* target is refused or its read is not affine.  Awaited: the writes that  *)
(* an operand precedes.  Timely: d at j runs before the writes W, or one   *)
(* of them is the last of its cell or dies with the group, and depends on  *)
(* something of V.  Punctual: so it is if d loads at j what operand u does *)
(* at i, for the first write that overwrites a read u stands for, and for  *)
(* those u precedes.  Timed: so is every operand.  Loadable: so is an      *)
(* operand of the group if it is loaded where its value is used.           *)
(* Chained: a node of the group that reads from the group, through an edge *)
(* to propagate, has none itself.                                          *)
(***************************************************************************)
Barred(h, st, s, N, u) == h.def[u] \in N \/ ~ AffineRead(st, s, u)

OutBarred(h, st, s, N, d) == \A u \in Use : h.raw[<<d, u>>] # {} => Barred(h, st, s, N, u)

OutRefused(h, N, d) == \A u \in Use : h.raw[<<d, u>>] # {} => h.def[u] \in N

(* An update of what v reads, by an instance whose value depends on it. *)
Updates(s, v, p) == FlowsTo(s, ReaderOf(s, v), p) /\ Unsourced(s, v)

Awaited(h, nodes, u, j) ==
    {p \in Def \X Inst :
        \E e \in nodes : Orig[e] = p[1] /\ p[2] \in h.dom[e] /\ <<j, p[2]>> \in h.war[<<u, e>>]}

Timely(h, nodes, s, D, d, j, V, W) ==
    \A p \in W :
        (\E e \in nodes : Orig[e] = p[1] /\ p[2] \in h.dom[e]) =>
            \/ TimeOf(s, <<d, j>>) <= TimeOf(s, p)
            \/ /\ \E e \in nodes : /\ Orig[e] = p[1] /\ p[2] \in h.dom[e]
                                   /\ e \in D \/ p[2] \notin WawDomain(h, e)
               /\ \E v \in V : Updates(s, v, p)

Punctual(h, nodes, st, s, D, d, j, u, i) ==
    /\ \A v \in st[u][i] : Timely(h, nodes, s, D, d, j, {v}, FirstOverwrites(s, v))
    /\ Timely(h, nodes, s, D, d, j, st[u][i], Awaited(h, nodes, u, i))

Timed(h, nodes, st, s, D) ==
    \A u \in Use : h.def[u] \in Def =>
        \A j \in h.dom[h.def[u]] : Punctual(h, nodes, st, s, D, h.def[u], j, u, j)

Loadable(h, nodes, st, s, N, D, P) ==
    \A d \in P, u \in Use : \A i, j \in Inst : \A o \in h.ops[d] :
        <<i, j>> \in h.raw[<<d, u>>] =>
            Barred(h, st, s, N, u) \/ Punctual(h, nodes, st, s, D, h.def[u], j, o, i)

Chained(h, st, s, N, P) ==
    /\ \A d, e \in P : s.array[d] = s.array[e]
    /\ \A d \in P, e \in Def : s.array[e] = s.array[d] => e \in s.affine
    /\ \A d \in P, e \in Def, o \in Use :
          s.array[e] = s.array[d] /\ h.def[o] = d /\ h.raw[<<e, o>>] # {} =>
              ~ AffineRead(st, s, o) \/ OutBarred(h, st, s, N, d)

(* Every instance of the graph r was one of h, and is overwritten or dies only if that one did. *)
Carries(h, nodes, D, r, left, E) ==
    \A e \in left : \A i \in r.dom[e] : \E x \in nodes :
        /\ Orig[x] = Orig[e] /\ i \in h.dom[x]
        /\ i \notin WawDomain(h, x) => i \notin WawDomain(r, e)
        /\ x \in D => e \in E \/ i \notin WawDomain(r, e)

LEMMA TimelyCarried ==
    ASSUME NEW h, NEW nodes, NEW s, NEW D, NEW r, NEW left, NEW E, Apart(h, nodes, s),
           Carries(h, nodes, D, r, left, E), NEW d, NEW j,
           NEW c, c = d \/ TimeOf(s, <<c, j>>) = TimeOf(s, <<d, j>>)
    PROVE  \A V, W, X, p : V \subseteq X /\ p \in W /\ Timely(h, nodes, s, D, d, j, V, W)
              => Timely(r, left, s, E, c, j, X, {p})
<1> SUFFICES ASSUME NEW V, NEW W, NEW X, NEW p, V \subseteq X, p \in W, Timely(h, nodes, s, D, d, j, V, W),
                    NEW e \in left, Orig[e] = p[1], p[2] \in r.dom[e],
                    ~ (TimeOf(s, <<d, j>>) <= TimeOf(s, p))
             PROVE  (e \in E \/ p[2] \notin WawDomain(r, e)) /\ \E v \in X : Updates(s, v, p)
  BY DEF Timely
<1>1. PICK x \in nodes : /\ Orig[x] = Orig[e] /\ p[2] \in h.dom[x]
                         /\ p[2] \notin WawDomain(h, x) => p[2] \notin WawDomain(r, e)
                         /\ x \in D => e \in E \/ p[2] \notin WawDomain(r, e)
  BY DEF Carries
<1>2. PICK y \in nodes : /\ Orig[y] = p[1] /\ p[2] \in h.dom[y]
                         /\ y \in D \/ p[2] \notin WawDomain(h, y)
                         /\ \E v \in V : Updates(s, v, p)
  BY <1>1 DEF Timely
<1>3. x = y
  BY <1>1, <1>2 DEF Apart
<1> QED BY <1>1, <1>2, <1>3

LEMMA TimelyEach ==
    ASSUME NEW r, NEW left, NEW s, NEW E, NEW c, NEW j, NEW V, NEW W,
           \A p \in W : Timely(r, left, s, E, c, j, V, {p})
    PROVE  Timely(r, left, s, E, c, j, V, W)
<1> SUFFICES ASSUME NEW p \in W, \E e \in left : Orig[e] = p[1] /\ p[2] \in r.dom[e]
             PROVE  \/ TimeOf(s, <<c, j>>) <= TimeOf(s, p)
                    \/ /\ \E e \in left : /\ Orig[e] = p[1] /\ p[2] \in r.dom[e]
                                          /\ e \in E \/ p[2] \notin WawDomain(r, e)
                       /\ \E v \in V : Updates(s, v, p)
  BY DEF Timely
<1>1. Timely(r, left, s, E, c, j, V, {p}) /\ p \in {p}
  OBVIOUS
<1> QED BY <1>1 DEF Timely

(* An operand that stands for what others do, and precedes nothing else, is loaded in time if they are. *)
Joins(h, nodes, st, s, D, d, j, r, left, sp, u, i) ==
    /\ \A v \in sp[u][i] : \E o, m : v \in st[o][m] /\ Punctual(h, nodes, st, s, D, d, j, o, m)
    /\ \A p \in Awaited(r, left, u, i) : \E o, m :
          /\ p \in Awaited(h, nodes, o, m) /\ st[o][m] \subseteq sp[u][i]
          /\ Punctual(h, nodes, st, s, D, d, j, o, m)

LEMMA PunctualJoined ==
    ASSUME NEW h, NEW nodes, NEW st, NEW s, NEW D, NEW r, NEW left, NEW sp, NEW E, Apart(h, nodes, s),
           Carries(h, nodes, D, r, left, E), NEW d, NEW j, NEW u, NEW i,
           Joins(h, nodes, st, s, D, d, j, r, left, sp, u, i),
           NEW c, c = d \/ TimeOf(s, <<c, j>>) = TimeOf(s, <<d, j>>)
    PROVE  Punctual(r, left, sp, s, E, c, j, u, i)
<1>1. \A V, W, X, p : V \subseteq X /\ p \in W /\ Timely(h, nodes, s, D, d, j, V, W)
         => Timely(r, left, s, E, c, j, X, {p})
  BY TimelyCarried
<1>2. ASSUME NEW v \in sp[u][i] PROVE Timely(r, left, s, E, c, j, {v}, FirstOverwrites(s, v))
  <2>1. PICK o, m : v \in st[o][m] /\ Punctual(h, nodes, st, s, D, d, j, o, m)
    BY DEF Joins
  <2>2. Timely(h, nodes, s, D, d, j, {v}, FirstOverwrites(s, v)) /\ {v} \subseteq {v}
    BY <2>1 DEF Punctual
  <2>3. ASSUME NEW p \in FirstOverwrites(s, v) PROVE Timely(r, left, s, E, c, j, {v}, {p})
    BY ONLY <1>1, <2>2, <2>3, Zenon
  <2> QED BY <2>3, TimelyEach
<1>3. ASSUME NEW p \in Awaited(r, left, u, i) PROVE Timely(r, left, s, E, c, j, sp[u][i], {p})
  <2>1. PICK o, m : /\ p \in Awaited(h, nodes, o, m) /\ st[o][m] \subseteq sp[u][i]
                    /\ Punctual(h, nodes, st, s, D, d, j, o, m)
    BY DEF Joins
  <2>2. Timely(h, nodes, s, D, d, j, st[o][m], Awaited(h, nodes, o, m))
    BY <2>1 DEF Punctual
  <2> QED BY ONLY <1>1, <2>1, <2>2, Zenon
<1>4. Timely(r, left, s, E, c, j, sp[u][i], Awaited(r, left, u, i))
  BY <1>3, TimelyEach
<1> QED BY <1>2, <1>4 DEF Punctual

LEMMA PunctualCarried ==
    ASSUME NEW h, NEW nodes, NEW st, NEW s, NEW D, NEW r, NEW left, NEW sp, NEW E, Apart(h, nodes, s),
           Carries(h, nodes, D, r, left, E), NEW d, NEW j, NEW o, NEW m, NEW u, NEW i,
           NEW c, c = d \/ TimeOf(s, <<c, j>>) = TimeOf(s, <<d, j>>),
           sp[u][i] = st[o][m], Awaited(r, left, u, i) \subseteq Awaited(h, nodes, o, m),
           Punctual(h, nodes, st, s, D, d, j, o, m)
    PROVE  Punctual(r, left, sp, s, E, c, j, u, i)
<1>1. Joins(h, nodes, st, s, D, d, j, r, left, sp, u, i)
  BY DEF Joins
<1> QED BY <1>1, PunctualJoined

LEMMA PunctualSame ==
    ASSUME NEW h, NEW nodes, NEW st, NEW s, NEW D, NEW r, NEW left, NEW sp, NEW E,
           NEW d, NEW j, NEW o, NEW m, NEW u, NEW i
    PROVE  Apart(h, nodes, s) /\ Carries(h, nodes, D, r, left, E)
           /\ sp[u][i] = st[o][m] /\ Awaited(r, left, u, i) \subseteq Awaited(h, nodes, o, m)
           /\ Punctual(h, nodes, st, s, D, d, j, o, m)
              => Punctual(r, left, sp, s, E, d, j, u, i)
BY PunctualCarried, Zenon

LEMMA PunctualCopy ==
    ASSUME NEW h, NEW nodes, NEW st, NEW s, NEW D, NEW r, NEW left, NEW sp, NEW E,
           NEW d, NEW j, NEW o, NEW m, NEW u, NEW i, NEW c
    PROVE  Apart(h, nodes, s) /\ Carries(h, nodes, D, r, left, E)
           /\ sp[u][i] = st[o][m] /\ Awaited(r, left, u, i) \subseteq Awaited(h, nodes, o, m)
           /\ Punctual(h, nodes, st, s, D, d, j, o, m) /\ s.time[c] = s.time[d]
              => Punctual(r, left, sp, s, E, c, j, u, i)
<1>1. TimeOf(s, <<c, j>>) = s.time[c][j] /\ TimeOf(s, <<d, j>>) = s.time[d][j]
  BY DEF TimeOf
<1>2. s.time[c] = s.time[d] => TimeOf(s, <<c, j>>) = TimeOf(s, <<d, j>>)
  BY <1>1
<1> QED BY <1>2, PunctualCarried, Zenon

LEMMA NarrowCarries ==
    ASSUME NEW h, NEW r, NEW st, NEW sp, NEW nodes \in SUBSET Def, Narrows(h, st, r, sp), NEW D, NEW E,
           \A e \in nodes \cap D : e \in E \/ \A i \in r.dom[e] : i \notin WawDomain(r, e)
    PROVE  Carries(h, nodes, D, r, nodes, E)
<1> SUFFICES ASSUME NEW e \in nodes, NEW i \in r.dom[e]
             PROVE  /\ i \in h.dom[e]
                    /\ i \notin WawDomain(h, e) => i \notin WawDomain(r, e)
                    /\ e \in D => e \in E \/ i \notin WawDomain(r, e)
  BY DEF Carries
<1> QED BY DEF Narrows

LEMMA NarrowAwaited ==
    ASSUME NEW h, NEW r, NEW st, NEW sp, NEW nodes \in SUBSET Def, Narrows(h, st, r, sp), NEW u \in Use, NEW j
    PROVE  Awaited(r, nodes, u, j) \subseteq Awaited(h, nodes, u, j)
<1>1. \A e \in nodes : e \in Def /\ r.dom[e] \subseteq h.dom[e] /\ r.war[<<u, e>>] \subseteq h.war[<<u, e>>]
  BY DEF Narrows
<1> QED BY <1>1 DEF Awaited

LEMMA NarrowTimed ==
    ASSUME NEW h, NEW r, NEW st, NEW sp, NEW s, NEW nodes \in SUBSET Def, NEW D, NEW E, Apart(h, nodes, s),
           Narrows(h, st, r, sp), Carries(h, nodes, D, r, nodes, E), Timed(h, nodes, st, s, D)
    PROVE  Timed(r, nodes, sp, s, E)
<1> SUFFICES ASSUME NEW u \in Use, r.def[u] \in Def, NEW j \in r.dom[r.def[u]]
             PROVE  Punctual(r, nodes, sp, s, E, r.def[u], j, u, j)
  BY DEF Timed
<1>1. r.def[u] = h.def[u] /\ sp[u] = st[u] /\ j \in h.dom[h.def[u]]
  BY NoDefAssumption DEF Narrows
<1>2. Punctual(h, nodes, st, s, D, h.def[u], j, u, j)
  BY <1>1 DEF Timed
<1>3. Awaited(r, nodes, u, j) \subseteq Awaited(h, nodes, u, j) /\ sp[u][j] = st[u][j]
  BY <1>1, NarrowAwaited
<1>4. Punctual(r, nodes, sp, s, E, h.def[u], j, u, j)
  BY <1>2, <1>3, PunctualSame
<1> QED BY <1>1, <1>4

LEMMA NarrowBarred ==
    ASSUME NEW h, NEW r, NEW st, NEW sp, NEW s, Narrows(h, st, r, sp), NEW N, NEW d \in Def
    PROVE  /\ OutBarred(h, st, s, N, d) => OutBarred(r, sp, s, N, d)
           /\ OutRefused(h, N, d) => OutRefused(r, N, d)
BY NarrowEdge DEF OutBarred, OutRefused, Barred, AffineRead

LEMMA NarrowLoadable ==
    ASSUME NEW h, NEW r, NEW st, NEW sp, NEW s, NEW nodes \in SUBSET Def, NEW N, NEW D, NEW E,
           NEW P \in SUBSET Def, NEW Q \in SUBSET P, Apart(h, nodes, s), Narrows(h, st, r, sp),
           Carries(h, nodes, D, r, nodes, E), r \in Graph, Loadable(h, nodes, st, s, N, D, P)
    PROVE  Loadable(r, nodes, sp, s, N, E, Q)
<1> SUFFICES ASSUME NEW d \in Q, NEW u \in Use, NEW i \in Inst, NEW j \in Inst,
                    NEW o \in r.ops[d], <<i, j>> \in r.raw[<<d, u>>],
                    ~ Barred(r, sp, s, N, u)
             PROVE  Punctual(r, nodes, sp, s, E, r.def[u], j, o, i)
  BY DEF Loadable
<1>1. d \in P /\ d \in Def /\ o \in Use
  BY DEF Graph
<1>2. r.def[u] = h.def[u] /\ sp[u] = st[u] /\ <<i, j>> \in h.raw[<<d, u>>]
  <2>1. r.raw[<<d, u>>] # {}
    OBVIOUS
  <2>2. r.def[u] = h.def[u] /\ sp[u] = st[u]
    BY <1>1, <2>1, NarrowEdge
  <2>3. r.raw[<<d, u>>] \subseteq h.raw[<<d, u>>]
    BY <1>1 DEF Narrows
  <2> QED BY <2>2, <2>3
<1>3. o \in h.ops[d] /\ sp[o] = st[o]
  BY <1>1 DEF Narrows
<1>4. ~ Barred(h, st, s, N, u)
  BY <1>2 DEF Barred, AffineRead
<1>5. Punctual(h, nodes, st, s, D, h.def[u], j, o, i)
  BY <1>1, <1>2, <1>3, <1>4 DEF Loadable
<1>6. Awaited(r, nodes, o, i) \subseteq Awaited(h, nodes, o, i) /\ sp[o][i] = st[o][i]
  BY <1>1, <1>3, NarrowAwaited
<1>7. Punctual(r, nodes, sp, s, E, h.def[u], j, o, i)
  BY <1>5, <1>6, PunctualSame
<1> QED BY <1>2, <1>7

LEMMA NarrowChained ==
    ASSUME NEW h, NEW r, NEW st, NEW sp, NEW s, NEW N, NEW P \in SUBSET Def, NEW Q \in SUBSET P,
           Narrows(h, st, r, sp), Chained(h, st, s, N, P)
    PROVE  Chained(r, sp, s, N, Q)
<1>1. ASSUME NEW d \in Q, NEW e \in Def, NEW o \in Use,
             s.array[e] = s.array[d], r.def[o] = d, r.raw[<<e, o>>] # {}
      PROVE  ~ AffineRead(sp, s, o) \/ OutBarred(r, sp, s, N, d)
  <2>1. d \in P /\ d \in Def
    OBVIOUS
  <2>2. h.raw[<<e, o>>] # {} /\ h.def[o] = d /\ sp[o] = st[o]
    BY <1>1, NarrowEdge
  <2>3. ~ AffineRead(st, s, o) \/ OutBarred(h, st, s, N, d)
    BY <1>1, <2>1, <2>2 DEF Chained
  <2>4. OutBarred(h, st, s, N, d) => OutBarred(r, sp, s, N, d)
    BY <2>1, NarrowBarred
  <2> QED BY <2>2, <2>3, <2>4 DEF AffineRead
<1> QED BY <1>1 DEF Chained

-----------------------------------------------------------------------------
(***************************************************************************)
(* A group P through a split.  If the statement writes the array of the    *)
(* group, what it gives is not propagated, and its copy joins the group.   *)
(***************************************************************************)
IsGroupSplit(h, nodes, st, s, d, c, keep, twin, r, sp, N, P, Q) ==
    /\ IsSplitOf(h, nodes, st, d, c, keep, twin, r, sp)
    /\ Apart(h, nodes, s)
    /\ s.time[c] = s.time[d] /\ s.array[c] = s.array[d]
    /\ d \notin N /\ c \notin N
    /\ P \subseteq nodes /\ Q \subseteq P \cup {c}
    /\ c \in Q => OutRefused(h, N, d) /\ \E x \in P : s.array[x] = s.array[d]

LEMMA SplitCarries ==
    ASSUME NEW h, NEW nodes, NEW st, NEW d, NEW c, NEW keep, NEW twin, NEW r, NEW sp,
           IsSplitOf(h, nodes, st, d, c, keep, twin, r, sp), NEW D, d \notin D, NEW E, D \subseteq E
    PROVE  Carries(h, nodes, D, r, nodes \cup {c}, E)
<1> SUFFICES ASSUME NEW e \in nodes \cup {c}, NEW i \in r.dom[e]
             PROVE  \E x \in nodes :
                       /\ Orig[x] = Orig[e] /\ i \in h.dom[x]
                       /\ i \notin WawDomain(h, x) => i \notin WawDomain(r, e)
                       /\ x \in D => e \in E \/ i \notin WawDomain(r, e)
  BY DEF Carries
<1>1. IsSplit(h, d, c, keep, twin) /\ r = KeepInstances(SplitDef(h, d, c, keep, twin), d, keep)
      /\ nodes \subseteq Def /\ c \in Def
  BY DEF IsSplitOf, IsSplit
<1>2. e \in Def
  BY <1>1
<1>3. /\ WasDef(d, c, e) \in nodes /\ Orig[WasDef(d, c, e)] = Orig[e] /\ i \in h.dom[WasDef(d, c, e)]
  BY <1>2, SplitParts
<1>4. WawDomain(r, e) \subseteq WawDomain(h, WasDef(d, c, e))
  BY <1>1, <1>2, SplitOver
<1>5. WasDef(d, c, e) \in D => e \in E
  BY DEF WasDef
<1> QED BY <1>3, <1>4, <1>5

LEMMA SplitPlaces ==
    ASSUME NEW h, NEW nodes, NEW st, NEW d, NEW c, NEW keep, NEW twin, NEW r, NEW sp,
           IsSplitOf(h, nodes, st, d, c, keep, twin, r, sp), NEW u \in Use
    PROVE  r.def[u] = h.def[WasUse(twin, u)] \/ (r.def[u] = c /\ h.def[WasUse(twin, u)] = d)
<1>1. /\ r.def[u] = IF u \in Twins(twin) THEN c ELSE h.def[u]
      /\ u \in Twins(twin) => h.def[WasUse(twin, u)] = d
      /\ u \notin Twins(twin) => WasUse(twin, u) = u
  BY SplitParts
<1> QED BY <1>1

LEMMA SplitAwaited ==
    ASSUME NEW h, NEW nodes, NEW st, NEW d, NEW c, NEW keep, NEW twin, NEW r, NEW sp,
           IsSplitOf(h, nodes, st, d, c, keep, twin, r, sp), NEW u \in Use, NEW j
    PROVE  Awaited(r, nodes \cup {c}, u, j) \subseteq Awaited(h, nodes, WasUse(twin, u), j)
<1> SUFFICES ASSUME NEW p \in Def \X Inst, NEW e \in nodes \cup {c},
                    Orig[e] = p[1], p[2] \in r.dom[e], <<j, p[2]>> \in r.war[<<u, e>>]
             PROVE  p \in Awaited(h, nodes, WasUse(twin, u), j)
  BY DEF Awaited
<1>1. e \in Def
  BY DEF IsSplitOf, IsSplit
<1>2. /\ WasDef(d, c, e) \in nodes /\ Orig[WasDef(d, c, e)] = Orig[e] /\ p[2] \in h.dom[WasDef(d, c, e)]
      /\ <<j, p[2]>> \in h.war[<<WasUse(twin, u), WasDef(d, c, e)>>]
  BY <1>1, SplitParts
<1> QED BY <1>2 DEF Awaited

LEMMA SplitTimed ==
    ASSUME NEW h, NEW nodes, NEW st, NEW s, NEW d, NEW c, NEW keep, NEW twin, NEW r, NEW sp,
           IsSplitOf(h, nodes, st, d, c, keep, twin, r, sp), Apart(h, nodes, s), s.time[c] = s.time[d],
           NEW D, NEW E, Carries(h, nodes, D, r, nodes \cup {c}, E), Timed(h, nodes, st, s, D)
    PROVE  Timed(r, nodes \cup {c}, sp, s, E)
<1> SUFFICES ASSUME NEW u \in Use, r.def[u] \in Def, NEW j \in r.dom[r.def[u]]
             PROVE  Punctual(r, nodes \cup {c}, sp, s, E, r.def[u], j, u, j)
  BY DEF Timed
<1>1. /\ WasUse(twin, u) \in Use /\ h.def[WasUse(twin, u)] \in Def
      /\ j \in h.dom[h.def[WasUse(twin, u)]]
  BY SplitParts
<1>2. sp[u][j] = st[WasUse(twin, u)][j]
  BY DEF IsSplitOf
<1>3. Punctual(h, nodes, st, s, D, h.def[WasUse(twin, u)], j, WasUse(twin, u), j)
  BY <1>1 DEF Timed
<1>4. r.def[u] = h.def[WasUse(twin, u)] \/ (r.def[u] = c /\ h.def[WasUse(twin, u)] = d)
  BY SplitPlaces
<1>5. Awaited(r, nodes \cup {c}, u, j) \subseteq Awaited(h, nodes, WasUse(twin, u), j)
  BY SplitAwaited
<1>6. Punctual(r, nodes \cup {c}, sp, s, E, h.def[WasUse(twin, u)], j, u, j)
  BY <1>2, <1>3, <1>5, PunctualSame
<1>7. ASSUME h.def[WasUse(twin, u)] = d PROVE Punctual(r, nodes \cup {c}, sp, s, E, c, j, u, j)
  <2>1. Punctual(h, nodes, st, s, D, d, j, WasUse(twin, u), j)
    BY <1>3, <1>7
  <2> QED BY <1>2, <1>5, <2>1, PunctualCopy
<1> QED BY <1>4, <1>6, <1>7

LEMMA SplitBarred ==
    ASSUME NEW h, NEW nodes, NEW st, NEW s, NEW d, NEW c, NEW keep, NEW twin, NEW r, NEW sp,
           IsSplitOf(h, nodes, st, d, c, keep, twin, r, sp), NEW N, d \notin N, NEW u \in Use
    PROVE  /\ h.def[WasUse(twin, u)] \in N => r.def[u] \in N
           /\ Barred(h, st, s, N, WasUse(twin, u)) => Barred(r, sp, s, N, u)
<1>1. r.def[u] = h.def[WasUse(twin, u)] \/ (r.def[u] = c /\ h.def[WasUse(twin, u)] = d)
  BY SplitPlaces
<1>2. sp[u] = st[WasUse(twin, u)]
  BY DEF IsSplitOf
<1>3. AffineRead(sp, s, u) <=> AffineRead(st, s, WasUse(twin, u))
  BY <1>2 DEF AffineRead
<1> QED BY <1>1, <1>3 DEF Barred

LEMMA SplitEdge ==
    ASSUME NEW h, NEW nodes, NEW st, NEW d, NEW c, NEW keep, NEW twin, NEW r, NEW sp,
           IsSplitOf(h, nodes, st, d, c, keep, twin, r, sp), NEW e \in Def, NEW u \in Use,
           r.raw[<<e, u>>] # {}
    PROVE  WasUse(twin, u) \in Use /\ h.raw[<<WasDef(d, c, e), WasUse(twin, u)>>] # {}
<1>1. PICK p : p \in r.raw[<<e, u>>]
  OBVIOUS
<1>2. p \in h.raw[<<WasDef(d, c, e), WasUse(twin, u)>>] /\ WasUse(twin, u) \in Use
  BY <1>1, SplitParts
<1> QED BY <1>2

LEMMA SplitOut ==
    ASSUME NEW h, NEW nodes, NEW st, NEW s, NEW d, NEW c, NEW keep, NEW twin, NEW r, NEW sp,
           IsSplitOf(h, nodes, st, d, c, keep, twin, r, sp), NEW N, d \notin N, NEW e \in Def
    PROVE  OutBarred(h, st, s, N, WasDef(d, c, e)) => OutBarred(r, sp, s, N, e)
<1> SUFFICES ASSUME OutBarred(h, st, s, N, WasDef(d, c, e)), NEW u \in Use, r.raw[<<e, u>>] # {}
             PROVE  Barred(r, sp, s, N, u)
  BY DEF OutBarred
<1>1. Barred(h, st, s, N, WasUse(twin, u))
  BY SplitEdge DEF OutBarred
<1> QED BY <1>1, SplitBarred

LEMMA SplitRefused ==
    ASSUME NEW h, NEW nodes, NEW st, NEW d, NEW c, NEW keep, NEW twin, NEW r, NEW sp,
           IsSplitOf(h, nodes, st, d, c, keep, twin, r, sp), NEW N, d \notin N, NEW e \in Def
    PROVE  OutRefused(h, N, WasDef(d, c, e)) => OutRefused(r, N, e)
<1> SUFFICES ASSUME OutRefused(h, N, WasDef(d, c, e)), NEW u \in Use, r.raw[<<e, u>>] # {}
             PROVE  r.def[u] \in N
  BY DEF OutRefused
<1>1. h.def[WasUse(twin, u)] \in N
  BY SplitEdge DEF OutRefused
<1>2. r.def[u] = h.def[WasUse(twin, u)] \/ (r.def[u] = c /\ h.def[WasUse(twin, u)] = d)
  BY SplitPlaces
<1> QED BY <1>1, <1>2

(* The operands of a statement other than the copy are the ones it had. *)
LEMMA SplitOperand ==
    ASSUME NEW h, NEW nodes, NEW st, NEW d, NEW c, NEW keep, NEW twin, NEW r, NEW sp,
           IsSplitOf(h, nodes, st, d, c, keep, twin, r, sp), NEW e \in Def, e # c, NEW o \in Use,
           r.def[o] = e
    PROVE  h.def[o] = e /\ WasUse(twin, o) = o /\ o \in h.ops[e] /\ sp[o] = st[o]
<1>1. /\ r.def[o] = IF o \in Twins(twin) THEN c ELSE h.def[o]
      /\ o \notin Twins(twin) => WasUse(twin, o) = o
  BY SplitParts
<1>2. h.def[o] = e /\ WasUse(twin, o) = o
  BY <1>1
<1> QED BY <1>2 DEF IsSplitOf, OpsAre

LEMMA SplitLoadable ==
    ASSUME NEW h, NEW nodes, NEW st, NEW s, NEW d, NEW c, NEW keep, NEW twin, NEW r, NEW sp,
           NEW N, NEW P, NEW Q, IsGroupSplit(h, nodes, st, s, d, c, keep, twin, r, sp, N, P, Q),
           NEW D, NEW E, Carries(h, nodes, D, r, nodes \cup {c}, E), Loadable(h, nodes, st, s, N, D, P)
    PROVE  Loadable(r, nodes \cup {c}, sp, s, N, E, Q)
<1>1. /\ IsSplitOf(h, nodes, st, d, c, keep, twin, r, sp) /\ Apart(h, nodes, s) /\ s.time[c] = s.time[d]
      /\ d \notin N /\ P \subseteq nodes /\ Q \subseteq P \cup {c} /\ (c \in Q => OutRefused(h, N, d))
  BY DEF IsGroupSplit
<1>2. c \notin P /\ P \subseteq Def /\ r \in Graph /\ OpsAre(r) /\ c \in Def
  BY <1>1, SplitParts DEF IsSplitOf
<1> SUFFICES ASSUME NEW x \in Q, NEW u \in Use, NEW i \in Inst, NEW j \in Inst,
                    NEW o \in r.ops[x], <<i, j>> \in r.raw[<<x, u>>],
                    ~ Barred(r, sp, s, N, u)
             PROVE  Punctual(r, nodes \cup {c}, sp, s, E, r.def[u], j, o, i)
  BY DEF Loadable
<1>3. x # c
  <2> SUFFICES ASSUME x = c PROVE FALSE
    OBVIOUS
  <2>1. WasDef(d, c, c) = d
    BY DEF WasDef
  <2>2. OutRefused(r, N, c)
    BY <1>1, <1>2, <2>1, SplitRefused
  <2> QED BY <2>2 DEF OutRefused, Barred
<1>4. x \in P /\ x \in Def /\ o \in Use /\ r.def[o] = x
  BY <1>1, <1>2, <1>3 DEF OpsAre
<1>5. o \in h.ops[x] /\ sp[o] = st[o] /\ WasUse(twin, o) = o
  BY <1>1, <1>3, <1>4, SplitOperand
<1>6. <<i, j>> \in h.raw[<<x, WasUse(twin, u)>>] /\ WasUse(twin, u) \in Use
  <2>1. WasDef(d, c, x) = x
    BY <1>3 DEF WasDef
  <2> QED BY <1>1, <1>4, <2>1, SplitParts
<1>7. ~ Barred(h, st, s, N, WasUse(twin, u))
  BY <1>1, SplitBarred
<1>8. Punctual(h, nodes, st, s, D, h.def[WasUse(twin, u)], j, o, i)
  BY <1>4, <1>5, <1>6, <1>7 DEF Loadable
<1>9. r.def[u] = h.def[WasUse(twin, u)] \/ (r.def[u] = c /\ h.def[WasUse(twin, u)] = d)
  BY <1>1, SplitPlaces
<1>10. Awaited(r, nodes \cup {c}, o, i) \subseteq Awaited(h, nodes, o, i) /\ sp[o][i] = st[o][i]
  <2>1. Awaited(r, nodes \cup {c}, o, i) \subseteq Awaited(h, nodes, WasUse(twin, o), i)
    BY <1>1, <1>4, SplitAwaited
  <2> QED BY <1>5, <2>1
<1>11. Punctual(r, nodes \cup {c}, sp, s, E, h.def[WasUse(twin, u)], j, o, i)
  BY <1>1, <1>8, <1>10, PunctualSame
<1>12. ASSUME h.def[WasUse(twin, u)] = d PROVE Punctual(r, nodes \cup {c}, sp, s, E, c, j, o, i)
  <2>1. Punctual(h, nodes, st, s, D, d, j, o, i)
    BY <1>8, <1>12
  <2> QED BY <1>1, <1>10, <2>1, PunctualCopy
<1> QED BY <1>9, <1>11, <1>12

LEMMA SplitChained ==
    ASSUME NEW h, NEW nodes, NEW st, NEW s, NEW d, NEW c, NEW keep, NEW twin, NEW r, NEW sp,
           NEW N, NEW P, NEW Q, IsGroupSplit(h, nodes, st, s, d, c, keep, twin, r, sp, N, P, Q),
           Chained(h, st, s, N, P)
    PROVE  Chained(r, sp, s, N, Q)
<1>1. /\ IsSplitOf(h, nodes, st, d, c, keep, twin, r, sp)
      /\ s.array[c] = s.array[d] /\ d \notin N
      /\ P \subseteq nodes /\ Q \subseteq P \cup {c}
      /\ c \in Q => OutRefused(h, N, d) /\ \E x \in P : s.array[x] = s.array[d]
  BY DEF IsGroupSplit
<1>2. P \subseteq Def /\ c \in Def /\ d \in Def
  BY <1>1, SplitParts DEF IsSplitOf
<1>3. \A x \in Q : \E y \in P : s.array[y] = s.array[x]
  BY <1>1
<1>4. ASSUME NEW x \in Q, NEW e \in Def, NEW o \in Use,
             s.array[e] = s.array[x], r.def[o] = x, r.raw[<<e, o>>] # {}
      PROVE  ~ AffineRead(sp, s, o) \/ OutBarred(r, sp, s, N, x)
  <2>1. CASE x = c
    <3>1. WasDef(d, c, c) = d
      BY DEF WasDef
    <3>2. OutRefused(r, N, c)
      BY <1>1, <1>2, <2>1, <3>1, SplitRefused
    <3> QED BY <2>1, <3>2 DEF OutRefused, OutBarred, Barred
  <2>2. CASE x # c
    <3>1. x \in P /\ x \in Def
      BY <1>1, <1>2, <2>2
    <3>2. h.def[o] = x /\ WasUse(twin, o) = o /\ sp[o] = st[o]
      BY <1>1, <1>4, <2>2, <3>1, SplitOperand
    <3>3. WasDef(d, c, e) \in Def /\ s.array[WasDef(d, c, e)] = s.array[x]
      BY <1>1, <1>2, <1>4 DEF WasDef
    <3>4. h.raw[<<WasDef(d, c, e), o>>] # {}
      BY <1>1, <1>4, <3>2, SplitEdge
    <3>5. ~ AffineRead(st, s, o) \/ OutBarred(h, st, s, N, x)
      BY <3>1, <3>2, <3>3, <3>4 DEF Chained
    <3>6. WasDef(d, c, x) = x
      BY <2>2 DEF WasDef
    <3>7. OutBarred(h, st, s, N, WasDef(d, c, x)) => OutBarred(r, sp, s, N, x)
      BY <1>1, <3>1, SplitOut
    <3> QED BY <3>2, <3>5, <3>6, <3>7 DEF AffineRead
  <2> QED BY <2>1, <2>2
<1>5. \A x, y \in Q : s.array[x] = s.array[y]
  BY <1>3 DEF Chained
<1>6. \A x \in Q, e \in Def : s.array[e] = s.array[x] => e \in s.affine
  BY <1>3 DEF Chained
<1> QED BY <1>4, <1>5, <1>6 DEF Chained

-----------------------------------------------------------------------------
LEMMA EdgePair ==
    ASSUME NEW h \in Graph, NEW e \in Def, NEW u \in Use, h.raw[<<e, u>>] # {}
    PROVE  \E i, j \in Inst : <<i, j>> \in h.raw[<<e, u>>]
<1>1. PICK p : p \in h.raw[<<e, u>>]
  OBVIOUS
<1>2. <<e, u>> \in Def \X Use
  OBVIOUS
<1>3. p \in Inst \X Inst
  BY <1>1, <1>2 DEF Graph, Map
<1> QED BY <1>1, <1>3, PairFacts

(***************************************************************************)
(* A group P through the reload of operand o: the edge k of the source is  *)
(* not barred, and no edge of the source is of a read that is not affine.  *)
(***************************************************************************)
IsGroupReload(h, nodes, st, s, o, n, k, t, r, sp, N, P) ==
    /\ IsReloadOf(h, st, s, o, n, k, t, r, sp)
    /\ ReadsOK(h, nodes, st, s) /\ nodes \subseteq Def
    /\ P \subseteq Def /\ k[1] \in P /\ ~ Barred(h, st, s, N, k[2])
    /\ Chained(h, st, s, N, P) /\ h.raw[k] # {}
    /\ \A u \in Use : h.raw[<<k[1], u>>] # {} => AffineRead(st, s, u)

(* The new operand gets no edge of the group but through a read that is not affine. *)
LEMMA ReloadNewEdge ==
    ASSUME NEW h, NEW nodes, NEW st, NEW s, NEW o, NEW n, NEW k, NEW t, NEW r, NEW sp, NEW N, NEW P,
           IsGroupReload(h, nodes, st, s, o, n, k, t, r, sp, N, P),
           NEW e \in Def, s.array[e] = s.array[k[1]], NEW i \in Inst, NEW j \in Inst,
           <<i, j>> \in r.raw[<<e, n>>]
    PROVE  \/ <<i, j>> \in h.raw[<<e, n>>] /\ h.def[n] = t /\ AffineRead(st, s, n)
           \/ ~ AffineRead(sp, s, n) /\ ~ AffineRead(st, s, o) /\ h.raw[<<e, o>>] # {}
<1>1. /\ IsReloadOf(h, st, s, o, n, k, t, r, sp) /\ ReadsOK(h, nodes, st, s)
      /\ k[1] \in P /\ ~ Barred(h, st, s, N, k[2]) /\ Chained(h, st, s, N, P)
  BY DEF IsGroupReload
<1>2. /\ k \in Def \X Use /\ k = <<k[1], k[2]>> /\ k[2] \in Use /\ o \in Use /\ h.def[o] = k[1]
      /\ n \in Use /\ t \in Def /\ t = h.def[k[2]]
      /\ h.def[n] = NoDef \/ (h.def[n] = t /\ AffineRead(st, s, n) /\ AffineRead(st, s, o))
  BY <1>1, PairFacts DEF IsReloadOf
<1>3. CASE <<i, j>> \in h.raw[<<e, n>>] /\ h.def[n] = t
  BY <1>2, <1>3, NoDefAssumption
<1>4. CASE \E m \in Inst : <<i, m>> \in h.raw[<<e, o>>] /\ <<m, j>> \in h.raw[k]
  <2>1. PICK m \in Inst : <<i, m>> \in h.raw[<<e, o>>] /\ <<m, j>> \in h.raw[k]
    BY <1>4
  <2>2. h.raw[<<e, o>>] # {} /\ h.raw[<<k[1], k[2]>>] # {}
    BY <1>2, <2>1
  <2>3. ~ OutBarred(h, st, s, N, k[1])
    BY <1>1, <1>2, <2>2 DEF OutBarred
  <2>4. ~ AffineRead(st, s, o)
    BY <1>1, <1>2, <2>2, <2>3 DEF Chained
  <2>5. PICK v \in st[o][m] : <<i, v[2]>> \in RAW(s)[<<Orig[e], v[1]>>]
    BY <1>1, <1>2, <2>1 DEF ReadsOK, Sourced
  <2>6. v[1] \notin s.affine
    BY <1>1, <1>2, <2>4 DEF ReadsOK, Alike
  <2>7. v \in sp[n][j]
    BY <1>1, <2>1 DEF IsReloadOf
  <2>8. ~ AffineRead(sp, s, n)
    BY <2>6, <2>7 DEF AffineRead
  <2> QED BY <2>2, <2>4, <2>8
<1>5. \/ <<i, j>> \in h.raw[<<e, n>>] /\ h.def[n] = t
      \/ \E m \in Inst : <<i, m>> \in h.raw[<<e, o>>] /\ <<m, j>> \in h.raw[k]
  BY <1>1, ReloadEdges
<1> QED BY <1>3, <1>4, <1>5

(* A node of the group some of whose edges is not barred is loaded no new operand. *)
LEMMA ReloadNewOperand ==
    ASSUME NEW h, NEW nodes, NEW st, NEW s, NEW o, NEW n, NEW k, NEW t, NEW r, NEW sp, NEW N, NEW P,
           IsGroupReload(h, nodes, st, s, o, n, k, t, r, sp, N, P),
           NEW d \in P, ~ OutBarred(h, st, s, N, d), NEW m \in r.ops[d]
    PROVE  m \in h.ops[d] /\ m \in Use /\ m # n
<1>1. /\ IsReloadOf(h, st, s, o, n, k, t, r, sp) /\ h.raw[k] # {}
      /\ P \subseteq Def /\ k[1] \in P /\ ~ Barred(h, st, s, N, k[2]) /\ Chained(h, st, s, N, P)
  BY DEF IsGroupReload
<1>2. /\ k \in Def \X Use /\ k = <<k[1], k[2]>> /\ k[1] \in Def /\ k[2] \in Use
      /\ t \in Def /\ t = h.def[k[2]]
  BY <1>1, PairFacts DEF IsReloadOf
<1>3. m \in Use /\ r.def[m] = d /\ (m # n => m \in h.ops[d]) /\ r.def[n] = t
  <2>1. /\ \A u \in Use : r.def[u] = IF u = n THEN t ELSE h.def[u]
        /\ \A x \in Def : \A u \in r.ops[x] : u \in Use /\ r.def[u] = x /\ (u # n => u \in h.ops[x])
    BY <1>1, ReloadEdges
  <2>2. n \in Use /\ d \in Def
    BY <1>1 DEF IsReloadOf
  <2> QED BY <2>1, <2>2
<1>4. CASE m = n
  <2>1. d = t /\ d \in P
    BY <1>3, <1>4
  <2>2. h.raw[<<k[1], k[2]>>] = {}
    <3>1. s.array[k[1]] = s.array[d]
      BY <1>1 DEF Chained
    <3>2. AffineRead(st, s, k[2])
      BY <1>1 DEF Barred
    <3> QED BY <1>1, <1>2, <2>1, <3>1, <3>2 DEF Chained
  <2> QED BY <1>1, <1>2, <2>2
<1> QED BY <1>3, <1>4

LEMMA ReloadCarries ==
    ASSUME NEW h, NEW nodes \in SUBSET Def, NEW r, WritesUntouched(h, r), NEW D
    PROVE  Carries(h, nodes, D, r, nodes, D)
<1>1. \A e \in Def : r.dom[e] = h.dom[e] /\ WawDomain(r, e) = WawDomain(h, e)
  BY DEF WritesUntouched, WawDomain
<1> QED BY <1>1 DEF Carries

(* The new operand precedes what it preceded, or o did at the source; any other what it preceded. *)
LEMMA ReloadAwaited ==
    ASSUME NEW h, NEW st, NEW s, NEW o, NEW n, NEW k, NEW t, NEW r, NEW sp,
           IsReloadOf(h, st, s, o, n, k, t, r, sp)
    PROVE  \A nodes \in SUBSET Def : \A j \in Inst :
              /\ \A u \in Use : u # n => Awaited(r, nodes, u, j) \subseteq Awaited(h, nodes, u, j)
              /\ \A p \in Awaited(r, nodes, n, j) :
                    \/ p \in Awaited(h, nodes, n, j) /\ h.def[n] = t
                    \/ \E m \in Inst : <<m, j>> \in h.raw[k] /\ p \in Awaited(h, nodes, o, m)
<1> SUFFICES ASSUME NEW nodes \in SUBSET Def, NEW j \in Inst
             PROVE  /\ \A u \in Use : u # n => Awaited(r, nodes, u, j) \subseteq Awaited(h, nodes, u, j)
                    /\ \A p \in Awaited(r, nodes, n, j) :
                          \/ p \in Awaited(h, nodes, n, j) /\ h.def[n] = t
                          \/ \E m \in Inst : <<m, j>> \in h.raw[k] /\ p \in Awaited(h, nodes, o, m)
  OBVIOUS
<1>1. /\ r.dom = h.dom
      /\ \A e \in Def, u \in Use : u # n => r.war[<<u, e>>] = h.war[<<u, e>>]
      /\ \A e \in Def : \A l, m \in Inst : <<l, m>> \in r.war[<<n, e>>] =>
            \/ <<l, m>> \in h.war[<<n, e>>] /\ h.def[n] = t
            \/ \E i \in Inst : <<i, l>> \in h.raw[k] /\ <<i, m>> \in h.war[<<o, e>>]
  BY ReloadEdges
<1>2. ASSUME NEW u \in Use, u # n PROVE Awaited(r, nodes, u, j) \subseteq Awaited(h, nodes, u, j)
  BY <1>1, <1>2 DEF Awaited
<1>3. ASSUME NEW p \in Awaited(r, nodes, n, j)
      PROVE  \/ p \in Awaited(h, nodes, n, j) /\ h.def[n] = t
             \/ \E m \in Inst : <<m, j>> \in h.raw[k] /\ p \in Awaited(h, nodes, o, m)
  <2>1. p \in Def \X Inst /\ p[2] \in Inst
    BY DEF Awaited
  <2>2. PICK e \in nodes : Orig[e] = p[1] /\ p[2] \in r.dom[e] /\ <<j, p[2]>> \in r.war[<<n, e>>]
    BY DEF Awaited
  <2>3. \/ <<j, p[2]>> \in h.war[<<n, e>>] /\ h.def[n] = t
        \/ \E i \in Inst : <<i, j>> \in h.raw[k] /\ <<i, p[2]>> \in h.war[<<o, e>>]
    BY <1>1, <2>1, <2>2
  <2>4. CASE <<j, p[2]>> \in h.war[<<n, e>>] /\ h.def[n] = t
    BY <1>1, <2>1, <2>2, <2>4 DEF Awaited
  <2>5. CASE \E i \in Inst : <<i, j>> \in h.raw[k] /\ <<i, p[2]>> \in h.war[<<o, e>>]
    <3>1. PICK i \in Inst : <<i, j>> \in h.raw[k] /\ <<i, p[2]>> \in h.war[<<o, e>>]
      BY <2>5
    <3>2. p \in Awaited(h, nodes, o, i)
      BY <1>1, <2>1, <2>2, <3>1 DEF Awaited
    <3> QED BY <3>1, <3>2
  <2> QED BY <2>3, <2>4, <2>5
<1> QED BY <1>2, <1>3

LEMMA ReloadTimed ==
    ASSUME NEW h, NEW nodes, NEW st, NEW s, NEW o, NEW n, NEW k, NEW t, NEW r, NEW sp, NEW N, NEW P,
           IsGroupReload(h, nodes, st, s, o, n, k, t, r, sp, N, P), NEW D,
           Timed(h, nodes, st, s, D), Loadable(h, nodes, st, s, N, D, P)
    PROVE  Timed(r, nodes, sp, s, D)
<1>1. /\ IsReloadOf(h, st, s, o, n, k, t, r, sp) /\ nodes \subseteq Def
      /\ k[1] \in P /\ ~ Barred(h, st, s, N, k[2])
  BY DEF IsGroupReload
<1>2. /\ k \in Def \X Use /\ k = <<k[1], k[2]>> /\ k[2] \in Use
      /\ t \in Def /\ t = h.def[k[2]] /\ o \in h.ops[k[1]]
      /\ \A u \in Use : u # n => sp[u] = st[u]
  BY <1>1, PairFacts DEF IsReloadOf
<1>3. /\ Apart(h, nodes, s) /\ Carries(h, nodes, D, r, nodes, D)
      /\ r \in Graph /\ r.dom = h.dom /\ \A u \in Use : r.def[u] = IF u = n THEN t ELSE h.def[u]
  <2>1. Apart(h, nodes, s)
    BY DEF IsGroupReload, ReadsOK
  <2>2. WritesUntouched(h, r)
    BY <1>1 DEF IsReloadOf
  <2>3. Carries(h, nodes, D, r, nodes, D)
    BY <1>1, <2>2, ReloadCarries
  <2>4. r \in Graph /\ \A u \in Use : r.def[u] = IF u = n THEN t ELSE h.def[u]
    BY <1>1, ReloadEdges
  <2>5. r.dom = h.dom
    BY <2>2 DEF WritesUntouched
  <2> QED BY <2>1, <2>3, <2>4, <2>5
<1> SUFFICES ASSUME NEW u \in Use, r.def[u] \in Def, NEW j \in r.dom[r.def[u]]
             PROVE  Punctual(r, nodes, sp, s, D, r.def[u], j, u, j)
  BY DEF Timed
<1>4. j \in Inst
  BY <1>3 DEF Graph
<1>5. CASE u # n
  <2>1. Punctual(h, nodes, st, s, D, r.def[u], j, u, j)
    BY <1>3, <1>5 DEF Timed
  <2>2. Awaited(r, nodes, u, j) \subseteq Awaited(h, nodes, u, j) /\ sp[u][j] = st[u][j]
    <3>1. nodes \in SUBSET Def
      BY <1>1
    <3>2. Awaited(r, nodes, u, j) \subseteq Awaited(h, nodes, u, j)
      BY <1>1, <1>4, <1>5, <3>1, ReloadAwaited
    <3> QED BY <1>2, <1>5, <3>2
  <2> QED BY <1>3, <2>1, <2>2, PunctualSame
<1>6. CASE u = n
  <2>1. r.def[u] = t
    BY <1>3, <1>6
  <2>2. ASSUME h.def[n] = t PROVE Punctual(h, nodes, st, s, D, t, j, n, j)
    BY <1>2, <1>3, <1>6, <2>1, <2>2 DEF Timed
  <2>3. ASSUME NEW m \in Inst, <<m, j>> \in h.raw[k] PROVE Punctual(h, nodes, st, s, D, t, j, o, m)
    <3>1. <<m, j>> \in h.raw[<<k[1], k[2]>>]
      BY <1>2, <2>3
    <3>2. Punctual(h, nodes, st, s, D, h.def[k[2]], j, o, m)
      BY <1>1, <1>2, <1>4, <3>1 DEF Loadable
    <3> QED BY <1>2, <3>2
  <2>4. \A v \in sp[n][j] : \E x, y : v \in st[x][y] /\ Punctual(h, nodes, st, s, D, t, j, x, y)
    <3> SUFFICES ASSUME NEW v \in sp[n][j]
                 PROVE  \E x, y : v \in st[x][y] /\ Punctual(h, nodes, st, s, D, t, j, x, y)
      OBVIOUS
    <3>1. \/ h.def[n] = t /\ v \in st[n][j]
          \/ \E m \in Inst : <<m, j>> \in h.raw[k] /\ v \in st[o][m]
      <4>1. \/ h.def[n] = t /\ v \in st[n][j]
            \/ \E m \in Inst : /\ <<m, j>> \in h.raw[k] /\ v \in st[o][m]
                               /\ k[1] \in Def /\ m \in h.dom[k[1]] /\ j \in h.dom[t]
        BY <1>1, <1>4, ReloadPlaces
      <4> QED BY <4>1
    <3> QED BY <2>2, <2>3, <3>1
  <2>5. \A p \in Awaited(r, nodes, n, j) : \E x, y :
           /\ p \in Awaited(h, nodes, x, y) /\ st[x][y] \subseteq sp[n][j]
           /\ Punctual(h, nodes, st, s, D, t, j, x, y)
    <3> SUFFICES ASSUME NEW p \in Awaited(r, nodes, n, j)
                 PROVE  \E x, y : /\ p \in Awaited(h, nodes, x, y) /\ st[x][y] \subseteq sp[n][j]
                                  /\ Punctual(h, nodes, st, s, D, t, j, x, y)
      OBVIOUS
    <3>1. \/ p \in Awaited(h, nodes, n, j) /\ h.def[n] = t
          \/ \E m \in Inst : <<m, j>> \in h.raw[k] /\ p \in Awaited(h, nodes, o, m)
      <4>1. nodes \in SUBSET Def
        BY <1>1
      <4> QED BY <1>1, <1>4, <4>1, ReloadAwaited
    <3>2. st[n][j] \subseteq sp[n][j] /\ \A m \in Inst : <<m, j>> \in h.raw[k] => st[o][m] \subseteq sp[n][j]
      BY <1>1, <1>4 DEF IsReloadOf
    <3>3. CASE p \in Awaited(h, nodes, n, j) /\ h.def[n] = t
      BY <2>2, <3>2, <3>3
    <3>4. CASE \E m \in Inst : <<m, j>> \in h.raw[k] /\ p \in Awaited(h, nodes, o, m)
      BY <2>3, <3>2, <3>4
    <3> QED BY <3>1, <3>3, <3>4
  <2>6. Punctual(r, nodes, sp, s, D, t, j, n, j)
    <3>1. Apart(h, nodes, s) /\ Carries(h, nodes, D, r, nodes, D)
      BY <1>3
    <3>2. Joins(h, nodes, st, s, D, t, j, r, nodes, sp, n, j)
      BY ONLY <2>4, <2>5 DEF Joins
    <3>3. t = t \/ TimeOf(s, <<t, j>>) = TimeOf(s, <<t, j>>)
      OBVIOUS
    <3> QED BY ONLY <3>1, <3>2, <3>3, PunctualJoined
  <2> QED BY <1>6, <2>1, <2>6
<1> QED BY <1>5, <1>6

LEMMA ReloadLoadable ==
    ASSUME NEW h, NEW nodes, NEW st, NEW s, NEW o, NEW n, NEW k, NEW t, NEW r, NEW sp, NEW N, NEW P,
           IsGroupReload(h, nodes, st, s, o, n, k, t, r, sp, N, P), NEW D,
           Loadable(h, nodes, st, s, N, D, P)
    PROVE  Loadable(r, nodes, sp, s, N, D, P)
<1>1. /\ IsReloadOf(h, st, s, o, n, k, t, r, sp) /\ nodes \subseteq Def /\ P \subseteq Def
      /\ k[1] \in P /\ Chained(h, st, s, N, P)
  BY DEF IsGroupReload
<1>2. /\ Apart(h, nodes, s) /\ Carries(h, nodes, D, r, nodes, D)
      /\ \A u \in Use : r.def[u] = IF u = n THEN t ELSE h.def[u]
      /\ \A e \in Def, u \in Use : u # n => r.raw[<<e, u>>] = h.raw[<<e, u>>]
      /\ \A u \in Use : u # n => sp[u] = st[u]
  <2>1. Apart(h, nodes, s)
    BY DEF IsGroupReload, ReadsOK
  <2>2. WritesUntouched(h, r) /\ \A u \in Use : u # n => sp[u] = st[u]
    BY <1>1 DEF IsReloadOf
  <2>3. Carries(h, nodes, D, r, nodes, D)
    BY <1>1, <2>2, ReloadCarries
  <2>4. /\ \A u \in Use : r.def[u] = IF u = n THEN t ELSE h.def[u]
        /\ \A e \in Def, u \in Use : u # n => r.raw[<<e, u>>] = h.raw[<<e, u>>]
    BY <1>1, ReloadEdges
  <2> QED BY <2>1, <2>2, <2>3, <2>4
<1> SUFFICES ASSUME NEW d \in P, NEW u \in Use, NEW i \in Inst, NEW j \in Inst,
                    NEW m \in r.ops[d], <<i, j>> \in r.raw[<<d, u>>],
                    ~ Barred(r, sp, s, N, u)
             PROVE  Punctual(r, nodes, sp, s, D, r.def[u], j, m, i)
  BY DEF Loadable
<1>3. d \in Def /\ s.array[d] = s.array[k[1]]
  BY <1>1 DEF Chained
<1>4. <<i, j>> \in h.raw[<<d, u>>] /\ h.def[u] = r.def[u] /\ ~ Barred(h, st, s, N, u)
  <2>1. CASE u # n
    BY <1>2, <1>3, <2>1 DEF Barred, AffineRead
  <2>2. CASE u = n
    <3>1. \/ <<i, j>> \in h.raw[<<d, n>>] /\ h.def[n] = t /\ AffineRead(st, s, n)
          \/ ~ AffineRead(sp, s, n) /\ ~ AffineRead(st, s, o) /\ h.raw[<<d, o>>] # {}
      BY <1>3, <2>2, ReloadNewEdge
    <3> QED BY <1>2, <2>2, <3>1 DEF Barred
  <2> QED BY <2>1, <2>2
<1>5. ~ OutBarred(h, st, s, N, d)
  BY <1>4 DEF OutBarred
<1>6. m \in h.ops[d] /\ m \in Use /\ m # n
  BY <1>5, ReloadNewOperand
<1>7. Punctual(h, nodes, st, s, D, h.def[u], j, m, i)
  BY <1>4, <1>6 DEF Loadable
<1>8. Punctual(r, nodes, sp, s, D, h.def[u], j, m, i)
  <2>1. Awaited(r, nodes, m, i) \subseteq Awaited(h, nodes, m, i) /\ sp[m][i] = st[m][i]
    <3>1. nodes \in SUBSET Def
      BY <1>1
    <3>2. Awaited(r, nodes, m, i) \subseteq Awaited(h, nodes, m, i)
      BY <1>1, <1>6, <3>1, ReloadAwaited
    <3> QED BY <1>2, <1>6, <3>2
  <2> QED BY <1>2, <1>7, <2>1, PunctualSame
<1> QED BY <1>4, <1>8

LEMMA ReloadChained ==
    ASSUME NEW h, NEW nodes, NEW st, NEW s, NEW o, NEW n, NEW k, NEW t, NEW r, NEW sp, NEW N, NEW P,
           IsGroupReload(h, nodes, st, s, o, n, k, t, r, sp, N, P)
    PROVE  Chained(r, sp, s, N, P)
<1>1. /\ IsReloadOf(h, st, s, o, n, k, t, r, sp) /\ P \subseteq Def
      /\ k[1] \in P /\ ~ Barred(h, st, s, N, k[2]) /\ Chained(h, st, s, N, P)
  BY DEF IsGroupReload
<1>2. /\ r \in Graph /\ \A u \in Use : r.def[u] = IF u = n THEN t ELSE h.def[u]
      /\ \A e \in Def, u \in Use : u # n => r.raw[<<e, u>>] = h.raw[<<e, u>>]
      /\ \A u \in Use : u # n => sp[u] = st[u]
      /\ t = h.def[k[2]] /\ t \notin N /\ n \in Use
  <2>1. /\ \A u \in Use : u # n => sp[u] = st[u]
        /\ t = h.def[k[2]] /\ n \in Use
    BY <1>1 DEF IsReloadOf
  <2>2. t \notin N
    BY <1>1, <2>1 DEF Barred
  <2>3. /\ r \in Graph /\ \A u \in Use : r.def[u] = IF u = n THEN t ELSE h.def[u]
        /\ \A e \in Def, u \in Use : u # n => r.raw[<<e, u>>] = h.raw[<<e, u>>]
    BY <1>1, ReloadEdges
  <2> QED BY <2>1, <2>2, <2>3
<1>3. \A d \in P : s.array[d] = s.array[k[1]]
  BY <1>1 DEF Chained
<1>4. ASSUME NEW d \in P, OutBarred(h, st, s, N, d) PROVE OutBarred(r, sp, s, N, d)
  <2> SUFFICES ASSUME NEW u \in Use, r.raw[<<d, u>>] # {} PROVE Barred(r, sp, s, N, u)
    BY DEF OutBarred
  <2>1. CASE u # n
    BY <1>1, <1>2, <1>4, <2>1 DEF OutBarred, Barred, AffineRead
  <2>2. CASE u = n
    <3>1. d \in Def
      BY <1>1
    <3>2. PICK i, j \in Inst : <<i, j>> \in r.raw[<<d, n>>]
      BY <1>2, <2>2, <3>1, EdgePair
    <3>3. \/ <<i, j>> \in h.raw[<<d, n>>] /\ h.def[n] = t /\ AffineRead(st, s, n)
          \/ ~ AffineRead(sp, s, n) /\ ~ AffineRead(st, s, o) /\ h.raw[<<d, o>>] # {}
      BY <1>3, <3>1, <3>2, ReloadNewEdge
    <3> QED BY <1>2, <1>4, <2>2, <3>3 DEF OutBarred, Barred
  <2> QED BY <2>1, <2>2
<1>5. ASSUME NEW d \in P, NEW e \in Def, NEW m \in Use,
             s.array[e] = s.array[d], r.def[m] = d, r.raw[<<e, m>>] # {}
      PROVE  ~ AffineRead(sp, s, m) \/ OutBarred(r, sp, s, N, d)
  <2>1. CASE m # n
    <3>1. ~ AffineRead(st, s, m) \/ OutBarred(h, st, s, N, d)
      BY <1>1, <1>2, <1>5, <2>1 DEF Chained
    <3> QED BY <1>2, <1>4, <2>1, <3>1 DEF AffineRead
  <2>2. CASE m = n
    <3>1. PICK i, j \in Inst : <<i, j>> \in r.raw[<<e, n>>]
      BY <1>2, <1>5, <2>2, EdgePair
    <3>2. \/ <<i, j>> \in h.raw[<<e, n>>] /\ h.def[n] = t /\ AffineRead(st, s, n)
          \/ ~ AffineRead(sp, s, n) /\ ~ AffineRead(st, s, o) /\ h.raw[<<e, o>>] # {}
      BY <1>3, <1>5, <3>1, ReloadNewEdge
    <3>3. d = t
      BY <1>2, <1>5, <2>2
    <3>4. h.raw[<<e, n>>] # {} /\ h.def[n] = t /\ AffineRead(st, s, n) => OutBarred(h, st, s, N, d)
      BY <1>1, <1>2, <1>5, <3>3 DEF Chained
    <3> QED BY <1>4, <2>2, <3>2, <3>4
  <2> QED BY <2>1, <2>2
<1> QED BY <1>1, <1>5 DEF Chained

(* The source keeps its edges, and their reads stay affine. *)
LEMMA ReloadSource ==
    ASSUME NEW h, NEW nodes, NEW st, NEW s, NEW o, NEW n, NEW k, NEW t, NEW r, NEW sp, NEW N, NEW P,
           IsGroupReload(h, nodes, st, s, o, n, k, t, r, sp, N, P), NEW u \in Use
    PROVE  /\ r.raw[<<k[1], u>>] # {} <=> h.raw[<<k[1], u>>] # {}
           /\ r.raw[<<k[1], u>>] # {} => AffineRead(sp, s, u) /\ r.def[u] = h.def[u]
<1>1. /\ IsReloadOf(h, st, s, o, n, k, t, r, sp)
      /\ \A m \in Use : h.raw[<<k[1], m>>] # {} => AffineRead(st, s, m)
  BY DEF IsGroupReload
<1>2. /\ k[1] \in Def /\ o \in Use /\ n \in Use /\ Tied(h) /\ h \in Graph /\ t \in Def
      /\ \A m \in Use : m # n => sp[m] = st[m]
      /\ h.def[n] = NoDef \/ (h.def[n] = t /\ AffineRead(st, s, n) /\ AffineRead(st, s, o))
      /\ Reloaded(h, o, n, k, t, r)
  BY <1>1, PairFacts DEF IsReloadOf
<1>3. /\ r \in Graph /\ \A m \in Use : r.def[m] = IF m = n THEN t ELSE h.def[m]
      /\ \A m \in Use : m # n => r.raw[<<k[1], m>>] = h.raw[<<k[1], m>>]
  BY <1>1, <1>2, ReloadEdges
<1>4. CASE u # n
  BY <1>1, <1>2, <1>3, <1>4 DEF AffineRead
<1>5. CASE u = n
  <2>1. <<k[1], n>> \in Def \X Use /\ <<k[1], n>>[2] = n
    BY <1>2
  <2>2. h.raw[<<k[1], n>>] # {} => r.raw[<<k[1], n>>] # {}
    BY <1>2, <2>1 DEF Reloaded
  <2>3. ASSUME r.raw[<<k[1], n>>] # {}
        PROVE  h.raw[<<k[1], n>>] # {} /\ h.def[n] = t /\ AffineRead(sp, s, n)
    <3>1. PICK i, j \in Inst : <<i, j>> \in r.raw[<<k[1], n>>]
      BY <1>2, <1>3, <2>3, EdgePair
    <3>2. \/ <<i, j>> \in h.raw[<<k[1], n>>] /\ h.def[n] = t /\ AffineRead(st, s, n)
          \/ ~ AffineRead(sp, s, n) /\ ~ AffineRead(st, s, o) /\ h.raw[<<k[1], o>>] # {}
      BY <1>2, <3>1, ReloadNewEdge
    <3>3. <<i, j>> \in h.raw[<<k[1], n>>] /\ h.def[n] = t /\ AffineRead(st, s, n)
      BY <1>1, <1>2, <3>2
    <3>4. AffineRead(st, s, o)
      BY <1>2, <3>3, NoDefAssumption
    <3>5. AffineRead(sp, s, n)
      <4>1. \A x \in Inst : \A v \in sp[n][x] : v \in st[n][x] \/ \E m \in Inst : v \in st[o][m]
        BY <1>1 DEF IsReloadOf
      <4> QED BY <3>3, <3>4, <4>1 DEF AffineRead
    <3> QED BY <3>3, <3>5
  <2> QED BY <1>3, <1>5, <2>2, <2>3
<1> QED BY <1>4, <1>5

-----------------------------------------------------------------------------
(***************************************************************************)
(* The steps of the pass, in the terms of the lemmas above.                *)
(***************************************************************************)
Held == /\ g \in Graph /\ made \subseteq Def /\ scop \in Scops
        /\ op = Idle /\ run.stage # "reload" => Tied(g) /\ OpsAre(g)

LEMMA InvHolds == DInv => Held
<1> SUFFICES ASSUME DInv PROVE Held
  OBVIOUS
<1>1. GInv /\ g \in Graph /\ made \subseteq Def /\ scop \in Scops
  BY DEF DInv, NodesOK, GInv, IInv, TypeOK
<1>2. op = Idle => Tied(g)
  BY <1>1, TiedIdle
<1>3. run.stage # "reload" => OpsAre(g)
  BY DEF DInv, OperandsOK, OpsOK, OpsAre
<1> QED BY <1>1, <1>2, <1>3 DEF Held

(* A step that takes away, and leaves the nodes. *)
Taken == Narrows(g, stands, g', stands') /\ g' \in Graph /\ made' = made /\ scop' = scop

LEMMA RestrictTakes ==
    ASSUME DInv, [Next]_vars, run.stage # "reload", stands' = stands, made' = made
    PROVE  Taken
<1>1. EInv
  BY DEF DInv, OperandsOK, EInv
<1>2. scop' = scop
  BY DEF Next, vars, CheckBarrier, RestrictStmt, VisitEdge, NextPhase
<1> QED BY <1>1, <1>2, StepNarrows DEF Taken

LEMMA AskTakes == ASSUME DInv, NEW K, Ask(K) PROVE Taken
<1>1. g \in Graph /\ UNCHANGED <<scop, made, stands>>
  BY InvHolds DEF Ask, Held
<1>2. PICK D : g' = AskBarriers(g, D)
  BY DEF Ask
<1>3. g' \in Graph /\ SameNodes(g, g') /\ g'.raw = g.raw /\ g'.war = g.war
  BY <1>1, <1>2, AskFacts
<1>4. WritesStep(g, g') /\ TakesReads(g, g')
  BY <1>1, <1>3, AskWrites, SameEdges
<1> QED BY <1>1, <1>3, <1>4 DEF Taken, Narrows, WritesStep, TakesReads, SameNodes

LEMMA RemoveTakes == ASSUME DInv, NEW k \in Def \X Use, PropagateEdge(k) PROVE Taken
<1>1. /\ run.stage = "propagate" /\ op = Idle /\ g' = RemoveOperand(g, k[2])
      /\ UNCHANGED <<scop, made, stands>> /\ AssertionsHold(k)
  BY DEF PropagateEdge
<1>2. g \in Graph /\ Tied(g) /\ OpsAre(g) /\ GInv /\ k = <<k[1], k[2]>> /\ k[1] \in Def /\ k[2] \in Use
  BY <1>1, InvHolds, PairFacts DEF Held, DInv
<1>3. g.def[k[2]] \in Def
  <2>1. g.raw[k] # {}
    BY <1>1, <1>2 DEF AssertionsHold, Sources
  <2> QED BY <1>1, <1>2, <2>1, TargetExists DEF Idle
<1>4. /\ g' \in Graph /\ g'.dom = g.dom /\ g'.def = g.def /\ g'.raw = g.raw
      /\ \A d \in Def : g'.ops[d] = {u \in Use : g'.def[u] = d} \ {k[2]}
      /\ \A u \in Use \ {k[2]} : \A e \in Def : g'.war[<<u, e>>] = g.war[<<u, e>>]
      /\ \A e \in Def : g'.war[<<k[2], e>>] = {}
  BY <1>1, <1>2, <1>3, RemoveFacts
<1>5. WritesStep(g, g')
  <2>1. WritesUntouched(g, g')
    BY <1>1, <1>2 DEF RemoveOperand, Graph, WritesUntouched
  <2> QED BY <2>1, Untouched
<1>6. \A d \in Def : g'.ops[d] \subseteq g.ops[d]
  BY <1>2, <1>4 DEF OpsAre
<1>7. TakesReads(g, g')
  BY <1>4 DEF TakesReads
<1> QED BY <1>1, <1>4, <1>5, <1>6, <1>7 DEF Taken, Narrows, WritesStep, TakesReads

LEMMA ClearTakes ==
    ASSUME DInv, FinishEdge
    PROVE  Taken /\ \A u \in Use : g'.def[u] # NoDef => u # run.edge[2] /\ g'.def[u] = g.def[u]
<1>1. PICK k : k = run.edge
  OBVIOUS
<1>2. /\ run.stage = "reload" /\ op = Idle /\ g' = ClearPropagated(g, k)
      /\ stands' = [stands EXCEPT ![k[2]] = [j \in Inst |-> {}]]
      /\ UNCHANGED <<scop, made>>
  BY <1>1 DEF FinishEdge
<1>3. g \in Graph /\ Detached(k) /\ GInv /\ \A d \in Def : UsedAgrees(g, d)
  BY <1>1, <1>2, InvHolds DEF Held, DInv, OperandsOK, GInv, IInv, UsedCoherent, UsedAgrees
<1>4. Tied(g) /\ k \in Def \X Use /\ k[2] \in Use /\ k[1] \in Def
  BY <1>2, <1>3, TiedIdle, PairFacts DEF Detached
<1>5. /\ g' \in Graph /\ g'.dom = g.dom /\ g'.ops = g.ops
      /\ \A u \in Use : g'.def[u] = IF u = k[2] THEN NoDef ELSE g.def[u]
      /\ \A e \in Def \X Use : g'.raw[e] = IF e[2] = k[2] THEN {} ELSE g.raw[e]
  BY <1>2, <1>3, <1>4, ClearFacts DEF Detached
<1>6. WritesUntouched(g, g') /\ g'.war = g.war
  BY <1>2, <1>3 DEF ClearPropagated, Graph, WritesUntouched
<1>7. \A e \in Def, u \in Use : g'.raw[<<e, u>>] = IF u = k[2] THEN {} ELSE g.raw[<<e, u>>]
  <2>1. \A e \in Def, u \in Use : <<e, u>> \in Def \X Use /\ <<e, u>>[2] = u
    OBVIOUS
  <2> QED BY <1>5, <2>1
<1>8. \A u \in Use : stands'[u] = IF u = k[2] THEN [j \in Inst |-> {}] ELSE stands[u]
  BY <1>2, <1>4 DEF DInv, StandsOK
<1>9. \A d \in Def : k[2] \notin g'.ops[d]
  BY <1>3, <1>5 DEF Detached
<1>10. WritesStep(g, g') /\ TakesReads(g, g')
  BY <1>6, <1>7, Untouched DEF TakesReads
<1>11. \A u \in Use : \/ g'.def[u] = g.def[u] /\ stands'[u] = stands[u]
                      \/ /\ g'.def[u] = NoDef
                         /\ \A j \in Inst : stands'[u][j] = {}
                         /\ \A d \in Def : /\ g'.raw[<<d, u>>] = {} /\ g'.war[<<u, d>>] = {}
                                            /\ u \notin g'.ops[d]
  <2>1. \A d \in Def : g.war[<<k[2], d>>] = {}
    BY <1>3 DEF Detached
  <2> QED BY <1>5, <1>6, <1>7, <1>8, <1>9, <2>1
<1>12. Narrows(g, stands, g', stands')
  BY <1>5, <1>10, <1>11 DEF Narrows, WritesStep, TakesReads
<1> QED BY <1>1, <1>2, <1>5, <1>12 DEF Taken

LEMMA SplitIs ==
    ASSUME DInv, NEW t \in Def, Split(t)
    PROVE  \E c, keep, twin :
              /\ IsSplitOf(g, made, stands, t, c, keep, twin, g', stands')
              /\ c \in Def \ made /\ Orig[c] = Orig[t]
              /\ c = CHOOSE e \in Def \ made : Orig[e] = Orig[t]
              /\ made' = made \cup {c} /\ scop' = scop
<1>1. g \in Graph /\ Tied(g) /\ OpsAre(g)
  BY SplitSteps
<1>2. PICK c, keep, twin : IsSplitStep(t, c, keep, twin)
  BY SplitSteps
<1>3. IsSplitOf(g, made, stands, t, c, keep, twin, g', stands')
  BY <1>1, <1>2 DEF IsSplitStep, IsSplitOf
<1>4. c \in Def \ made /\ Orig[c] = Orig[t] /\ made' = made \cup {c} /\ scop' = scop
  BY <1>2 DEF IsSplitStep
<1>5. c = CHOOSE e \in Def \ made : Orig[e] = Orig[t]
  <2>1. PICK e : e = CHOOSE x \in Def \ made : Orig[x] = Orig[t]
    OBVIOUS
  <2>2. e \in Def \ made
    BY <1>4, <2>1
  <2>3. made' = made \cup {e}
    BY <2>1 DEF Split
  <2> QED BY <1>4, <2>1, <2>2, <2>3
<1> QED BY <1>3, <1>4, <1>5

LEMMA ReloadIs ==
    ASSUME DInv, NEW o \in Use, ReloadOperand(o)
    PROVE  \E n, t : /\ IsReloadOf(g, stands, scop, o, n, run.edge, t, g', stands')
                     /\ UNCHANGED <<scop, must, op, made>>
<1>1. PICK n, k, t : IsReloadStep(o, n, k, t)
  BY ReloadSteps
<1>2. Detached(run.edge) /\ g \in Graph /\ Tied(g)
  BY ReloadSteps
<1>3. /\ k = run.edge /\ o \in run.loads
      /\ k \in Def \X Use /\ t \in Def /\ t = g.def[k[2]] /\ g.def[o] = k[1]
      /\ n \in Use /\ n # k[2]
      /\ g' = AddReload(g, o, n, g.raw[k], t) /\ Reloaded(g, o, n, k, t, g')
      /\ \A u \in Use : u # n => stands'[u] = stands[u]
      /\ \A j \in Inst : \A v : v \in stands'[n][j] <=>
            v \in stands[n][j] \/ \E m \in Inst : <<m, j>> \in g.raw[k] /\ v \in stands[o][m]
      /\ UNCHANGED <<scop, must, op, made>>
  BY <1>1 DEF IsReloadStep
<1>4. o \in g.ops[k[1]] /\ \A d \in Def : g.ops[d] = {u \in Use : g.def[u] = d} \ {k[2]}
  BY <1>2, <1>3 DEF Detached
<1>5. WritesUntouched(g, g')
  BY <1>2, <1>3, ReloadWrites
<1>6. g.def[n] = NoDef \/ (g.def[n] = t /\ AffineRead(stands, scop, n) /\ AffineRead(stands, scop, o))
  BY <1>1 DEF IsReloadStep, Subscripted, AffineRead
<1>7. /\ \A u \in Use : g.def[u] = NoDef => \A j \in Inst : stands[u][j] = {}
      /\ \A u \in Use, j \in Inst : stands[u][j] \subseteq Use \X Inst
  BY DEF DInv, StandsOK, ReadAt
<1>8. IsReloadOf(g, stands, scop, o, n, k, t, g', stands')
  BY <1>2, <1>3, <1>4, <1>5, <1>6, <1>7 DEF IsReloadOf
<1> QED BY <1>3, <1>8

-----------------------------------------------------------------------------
(* What the operands stand for, through every step of the pass. *)
LoadInv == ReadsOK(g, made, stands, scop)

(* A step that takes away, a split, a reload, or a step of the driver alone. *)
LEMMA RunSteps ==
    ASSUME DInv, [RunNext]_runVars
    PROVE  \/ Taken
           \/ \E t \in Def : Split(t)
           \/ \E o \in Use : ReloadOperand(o)
           \/ UNCHANGED <<scop, g, made, stands>>
<1>1. CASE \E d \in Def : RestrictNode(d)
  BY <1>1, RestrictTakes DEF RestrictNode, RestrictOnce, Next
<1>2. CASE FinishSource
  <2>1. run.src \in Def
    BY <1>2 DEF DInv, RunOK, RunRecord, FinishSource
  <2> QED BY <1>2, <2>1, RestrictTakes DEF FinishSource, RestrictOnce, Next
<1>3. CASE (VisitEdge \/ NextPhase) /\ UNCHANGED <<run, made, stands>>
  <2>1. run.stage # "reload"
    BY <1>3 DEF DInv, OperandsOK, Detached, Idle, VisitEdge, NextPhase
  <2> QED BY <1>3, <2>1, RestrictTakes DEF Next
<1>4. CASE \E a \in Array : PropagateEdges(a)
  <2>1. PICK a \in Array : PropagateEdges(a)
    BY <1>4
  <2>2. CASE Skip(a)
    BY <2>2 DEF Skip
  <2>3. CASE \E K : Ask(K)
    BY <2>3, AskTakes
  <2> QED BY <2>1, <2>2, <2>3 DEF PropagateEdges
<1>5. CASE \E k \in Def \X Use : PropagateEdge(k)
  BY <1>5, RemoveTakes
<1>6. CASE FinishEdge
  BY <1>6, ClearTakes
<1>7. CASE \E d \in Def : PickSource(d)
  BY <1>7 DEF PickSource
<1>8. CASE UNCHANGED runVars \/ Finished
  BY <1>8 DEF runVars, Finished
<1>9. CASE CutTarget \/ GiveUp \/ StartSplits \/ EndLoop \/ StartPropagation \/ Abort
           \/ FinishGroup \/ EndWorklist
  BY <1>9
     DEF CutTarget, GiveUp, StartSplits, EndLoop, StartPropagation, Abort, FinishGroup, EndWorklist
<1> QED BY <1>1, <1>2, <1>3, <1>4, <1>5, <1>6, <1>7, <1>8, <1>9 DEF RunNext

LEMMA RunReads == DInv /\ LoadInv /\ [RunNext]_runVars => LoadInv'
<1> SUFFICES ASSUME DInv, LoadInv, [RunNext]_runVars PROVE LoadInv'
  OBVIOUS
<1>1. ReadsOK(g, made, stands, scop) /\ made \in SUBSET Def
  BY InvHolds DEF LoadInv, Held
<1>2. CASE Taken
  BY <1>1, <1>2, NarrowReads DEF Taken, LoadInv
<1>3. CASE \E t \in Def : Split(t)
  <2>1. PICK t \in Def : Split(t)
    BY <1>3
  <2>2. PICK c, keep, twin : /\ IsSplitOf(g, made, stands, t, c, keep, twin, g', stands')
                             /\ made' = made \cup {c} /\ scop' = scop
    BY <2>1, SplitIs
  <2>3. ReadsOK(g', made \cup {c}, stands', scop)
    BY <1>1, <2>2, SplitReads
  <2> QED BY <2>2, <2>3 DEF LoadInv
<1>4. CASE \E o \in Use : ReloadOperand(o)
  <2>1. PICK o \in Use : ReloadOperand(o)
    BY <1>4
  <2>2. PICK n, t : /\ IsReloadOf(g, stands, scop, o, n, run.edge, t, g', stands')
                    /\ UNCHANGED <<scop, must, op, made>>
    BY <2>1, ReloadIs
  <2>3. ReadsOK(g', made, stands', scop)
    BY <1>1, <2>2, ReloadReads
  <2> QED BY <2>2, <2>3 DEF LoadInv
<1>5. CASE UNCHANGED <<scop, g, made, stands>>
  BY <1>1, <1>5 DEF LoadInv
<1> QED BY <1>2, <1>3, <1>4, <1>5, RunSteps

-----------------------------------------------------------------------------
(***************************************************************************)
(* The driver.  While a group is considered, no target it is cut along was *)
(* refused; a source that is propagated is taken up between two setDomain  *)
(* and has all its edges on the list.                                      *)
(***************************************************************************)
SourceOK ==
    /\ run.src # NoDef => run.stage \in {"propagate", "reload", "aborted"} /\ op = Idle
    /\ run.src = NoDef => run.edges = {}
    /\ \A k \in run.edges : k[1] = run.src
    /\ run.stage = "reload" => run.edge \in run.edges /\ g.def[run.edge[2]] \notin run.nonTrgs
    /\ run.stage = "cut" => op = Idle
    /\ run.nonTrgs \subseteq made
    /\ \A t \in Def : run.splits[t] # <<>> => t \notin run.nonTrgs

LEMMA CutNone ==
    ASSUME NEW D
    PROVE  Cut(<<>>, D) = <<>>
<1> DEFINE s == Cut(<<>>, D)
<1>1. IsPieces(s, {})
  BY NoPieces, CutPieces
<1> HIDE DEF s
<1>2. s \in Seq(SUBSET {}) /\ Len(s) \in Nat
  BY <1>1 DEF IsPieces
<1>3. Len(s) = 0
  <2> SUFFICES ASSUME Len(s) # 0 PROVE FALSE
    OBVIOUS
  <2>1. 1 \in 1..Len(s)
    BY <1>2
  <2>2. s[1] # {} /\ s[1] \in SUBSET {}
    BY <1>1, <1>2, <2>1 DEF IsPieces
  <2> QED BY <2>2
<1> QED BY <1>2, <1>3 DEF s

(* A step of the driver, or of a setDomain, which changes neither the group nor its targets. *)
LEMMA SourceKept ==
    ASSUME SourceOK, run.src = NoDef, run'.src = NoDef, run'.edges = {}, made' = made,
           run'.stage \notin {"reload", "cut"},
           run'.nonTrgs \in {run.nonTrgs, {}}, \A t \in Def : run'.splits[t] \in {run.splits[t], <<>>}
    PROVE  SourceOK'
BY DEF SourceOK

LEMMA PropagateEdgesSource ==
    ASSUME DInv, SourceOK, NEW a \in Array, PropagateEdges(a)
    PROVE  SourceOK'
<1>1. /\ run.stage = "worklist" /\ op = Idle /\ run \in RunRecord /\ GInv /\ made \subseteq Def
      /\ run.src = NoDef /\ run.edges = {}
  BY DEF PropagateEdges, DInv, RunOK, NodesOK, SourceOK
<1>2. CASE Skip(a)
  <2>1. run' = [run EXCEPT !.groups = @ \ {a}] /\ made' = made
    BY <1>2 DEF Skip
  <2> QED BY <1>1, <2>1, SourceKept DEF RunRecord
<1>3. CASE ~ Skip(a)
  <2>1. PICK unworthy : Ask(PropEdges(a, NonPropTrgs(a, unworthy)))
                        /\ Plan(a, PropEdges(a, NonPropTrgs(a, unworthy)), NonPropTrgs(a, unworthy))
    BY <1>3 DEF PropagateEdges
  <2>2. PICK N : N = NonPropTrgs(a, unworthy)
    OBVIOUS
  <2>3. op' = op /\ made' = made
    BY <2>1 DEF Ask
  <2> DEFINE K       == PropEdges(a, N)
             srcs    == Nodes(a) \ NonPropSrcs(a, N)
             trgs    == {g.def[k[2]] : k \in K}
             along(t) == {TargetDomain(k) : k \in {e \in K : e[1] \in srcs /\ g.def[e[2]] = t}}
             cuts    == [t \in Def |-> along(t)]
             splits  == [t \in Def |-> IF t \in trgs THEN <<g.dom[t]>> ELSE <<>>]
  <2>4. \/ run' = [run EXCEPT !.stage = "cut", !.groups = @ \ {a}, !.todo = srcs,
                              !.cuts = cuts, !.splits = splits, !.nonTrgs = N]
        \/ run' = [run EXCEPT !.groups = @ \ {a}]
    BY <2>1, <2>2 DEF Plan
  <2>5. \A t \in trgs : t \notin N
    BY DEF PropEdges
  <2>6. N \subseteq made
    <3>1. \A k \in Def \X Use : g.raw[k] # {} => g.def[k[2]] \in made
      <4> SUFFICES ASSUME NEW k \in Def \X Use, g.raw[k] # {} PROVE g.def[k[2]] \in made
        OBVIOUS
      <4>1. g.def[k[2]] \in Def /\ g.dom[g.def[k[2]]] # {}
        BY <1>1, TargetExists DEF Idle
      <4> QED BY <4>1 DEF DInv, NodesOK
    <3>2. \A D \in SUBSET Def : \A k \in OutEdges(D) : g.def[k[2]] \in made
      BY <3>1 DEF OutEdges
    <3>3. Nodes(a) \in SUBSET Def /\ AffineTargets(a) \cap Nodes(a) \in SUBSET Def
      BY <1>1 DEF Nodes
    <3> QED BY <2>2, <3>2, <3>3 DEF NonPropTrgs, AffineTargets, OpaqueTargets, InGroupTargets
  <2> HIDE DEF K, srcs, trgs, cuts
  <2>7. \A t \in Def : splits[t] # <<>> => t \in trgs
    OBVIOUS
  <2> HIDE DEF splits
  <2>8. CASE run' = [run EXCEPT !.stage = "cut", !.groups = @ \ {a}, !.todo = srcs,
                                !.cuts = cuts, !.splits = splits, !.nonTrgs = N]
    <3>1. /\ run'.stage = "cut" /\ run'.src = NoDef /\ run'.edges = {}
          /\ run'.splits = splits /\ run'.nonTrgs = N
      BY <1>1, <2>8 DEF RunRecord
    <3> QED BY <1>1, <2>3, <2>5, <2>6, <2>7, <3>1 DEF SourceOK
  <2>9. CASE run' = [run EXCEPT !.groups = @ \ {a}]
    BY <1>1, <2>3, <2>9, SourceKept DEF RunRecord
  <2> QED BY <2>4, <2>8, <2>9
<1> QED BY <1>2, <1>3

LEMMA CutTargetSource == ASSUME DInv, SourceOK, CutTarget PROVE SourceOK'
<1>1. run.stage = "cut" /\ op = Idle /\ run \in RunRecord /\ UNCHANGED <<g, op, made>>
  BY DEF CutTarget, DInv, RunOK
<1>2. PICK D, t : run' = [run EXCEPT !.splits[t] = Cut(@, D), !.cuts[t] = @ \ {D}]
  BY DEF CutTarget
<1>3. /\ run'.stage = run.stage /\ run'.src = run.src /\ run'.edges = run.edges
      /\ run'.nonTrgs = run.nonTrgs
      /\ \A x \in Def : run'.splits[x] = IF x = t THEN Cut(run.splits[t], D) ELSE run.splits[x]
  BY <1>1, <1>2 DEF RunRecord
<1>4. \A x \in Def : run'.splits[x] # <<>> => run.splits[x] # <<>>
  BY <1>3, CutNone
<1> QED BY <1>1, <1>3, <1>4 DEF SourceOK

LEMMA SplitSource == ASSUME DInv, SourceOK, NEW t \in Def, Split(t) PROVE SourceOK'
<1>1. /\ run.stage = "split" /\ run \in RunRecord /\ run.src = NoDef /\ run.edges = {}
      /\ Len(run.splits[t]) > 1
  BY DEF Split, DInv, RunOK, SourceOK
<1>2. PICK c : c \in Def \ made /\ made' = made \cup {c}
               /\ c = CHOOSE e \in Def \ made : Orig[e] = Orig[t]
  BY SplitIs
<1>3. PICK s, T : run' = [run EXCEPT !.splits[t] = <<>>, !.splits[c] = s, !.todo = T]
  BY <1>2 DEF Split
<1>4. /\ run'.stage = "split" /\ run'.src = NoDef /\ run'.edges = {} /\ run'.nonTrgs = run.nonTrgs
      /\ \A x \in Def : x # c => run'.splits[x] \in {run.splits[x], <<>>}
  BY <1>1, <1>2, <1>3 DEF RunRecord
<1>5. run.nonTrgs \subseteq made /\ \A x \in Def : run.splits[x] # <<>> => x \notin run.nonTrgs
  BY DEF SourceOK
<1>6. \A x \in Def : run'.splits[x] # <<>> => x \notin run.nonTrgs
  BY <1>2, <1>4, <1>5
<1> QED BY <1>2, <1>4, <1>5, <1>6 DEF SourceOK

LEMMA PropagateEdgeSource ==
    ASSUME DInv, SourceOK, NEW k \in Def \X Use, PropagateEdge(k)
    PROVE  SourceOK'
<1>1. /\ run.stage = "propagate" /\ op = Idle /\ k \in run.edges /\ AssertionsHold(k)
      /\ run \in RunRecord /\ UNCHANGED <<op, made>>
      /\ run' = [run EXCEPT !.stage = "reload", !.edge = k, !.loads = g.ops[k[1]] \ {k[2]}]
  BY DEF PropagateEdge, DInv, RunOK
<1>2. /\ run'.stage = "reload" /\ run'.edge = k /\ run'.src = run.src /\ run'.edges = run.edges
      /\ run'.nonTrgs = run.nonTrgs /\ run'.splits = run.splits
  BY <1>1 DEF RunRecord
<1>3. g'.def = g.def
  BY InvHolds DEF Held, PropagateEdge, RemoveOperand, Graph
<1> QED BY <1>1, <1>2, <1>3 DEF SourceOK, AssertionsHold

LEMMA RunSource == DInv /\ SourceOK /\ [RunNext]_runVars => SourceOK'
<1> SUFFICES ASSUME DInv, SourceOK, [RunNext]_runVars PROVE SourceOK'
  OBVIOUS
<1>1. run \in RunRecord
  BY DEF DInv, RunOK
<1>2. CASE \E d \in Def : RestrictNode(d)
  <2>1. PICK d \in Def : /\ run.stage \in {"create", "delete"} /\ made' = made
                         /\ run' = [run EXCEPT !.todo = @ \ {d}]
    BY <1>2 DEF RestrictNode, RestrictOnce
  <2>2. run.src = NoDef /\ run.edges = {}
    BY <2>1 DEF SourceOK
  <2> QED BY <1>1, <2>1, <2>2, SourceKept DEF RunRecord
<1>3. CASE EndLoop \/ EndWorklist
  <2>1. /\ run.stage \in {"create", "delete", "worklist"} /\ made' = made
        /\ \/ run' = [run EXCEPT !.stage = "worklist"]
           \/ run' = [run EXCEPT !.stage = "done"]
           \/ run' = [run EXCEPT !.stage = "delete", !.todo = made]
    BY <1>3 DEF EndLoop, EndWorklist
  <2>2. run.src = NoDef /\ run.edges = {}
    BY <2>1 DEF SourceOK
  <2>3. run'.stage \in {"worklist", "done", "delete"} /\ run'.src = run.src /\ run'.edges = run.edges
        /\ run'.nonTrgs = run.nonTrgs /\ run'.splits = run.splits
    BY <1>1, <2>1 DEF RunRecord
  <2> QED BY <2>1, <2>2, <2>3, SourceKept
<1>4. CASE GiveUp
  <2>1. /\ run.stage = "cut" /\ made' = made
        /\ run' = [run EXCEPT !.stage = "worklist", !.todo = {}, !.nonTrgs = {},
                              !.splits = [t \in Def |-> <<>>]]
    BY <1>4 DEF GiveUp, AllCut
  <2>2. run.src = NoDef /\ run.edges = {}
    BY <2>1 DEF SourceOK
  <2>3. /\ run'.stage = "worklist" /\ run'.src = run.src /\ run'.edges = run.edges
        /\ run'.nonTrgs = {} /\ run'.splits = [t \in Def |-> <<>>]
    BY <1>1, <2>1 DEF RunRecord
  <2> QED BY <2>1, <2>2, <2>3, SourceKept
<1>5. CASE StartSplits
  <2>1. run.stage = "cut" /\ made' = made /\ UNCHANGED <<g, op>>
    BY <1>5 DEF StartSplits, AllCut
  <2>2. PICK b1, b2 : run' = [run EXCEPT !.stage = "split", !.partial = b1, !.blocked = b2]
    BY <1>5 DEF StartSplits
  <2>3. run.src = NoDef /\ run.edges = {}
    BY <2>1 DEF SourceOK
  <2>4. /\ run'.stage = "split" /\ run'.src = run.src /\ run'.edges = run.edges
        /\ run'.nonTrgs = run.nonTrgs /\ run'.splits = run.splits
    BY <1>1, <2>2 DEF RunRecord
  <2> QED BY <2>1, <2>3, <2>4, SourceKept
<1>6. CASE StartPropagation
  <2>1. /\ run.stage = "split" /\ made' = made
        /\ run' = [run EXCEPT !.stage = "propagate", !.splits = [t \in Def |-> <<>>]]
    BY <1>6 DEF StartPropagation
  <2>2. run.src = NoDef /\ run.edges = {}
    BY <2>1 DEF SourceOK
  <2>3. /\ run'.stage = "propagate" /\ run'.src = run.src /\ run'.edges = run.edges
        /\ run'.nonTrgs = run.nonTrgs /\ run'.splits = [t \in Def |-> <<>>]
    BY <1>1, <2>1 DEF RunRecord
  <2> QED BY <2>1, <2>2, <2>3, SourceKept
<1>7. CASE \E d \in Def : PickSource(d)
  <2>1. PICK d \in Def : PickSource(d)
    BY <1>7
  <2>2. /\ UNCHANGED <<g, op, made>> /\ op = Idle /\ run.stage = "propagate"
        /\ run'.src = d /\ run'.edges = OutEdges({d})
        /\ run'.stage = run.stage /\ run'.nonTrgs = run.nonTrgs /\ run'.splits = run.splits
    BY <1>1, <2>1, PickSourceFacts
  <2>3. \A k \in OutEdges({d}) : k[1] = d
    BY DEF OutEdges
  <2> QED BY <2>2, <2>3, NoDefAssumption DEF SourceOK
<1>8. CASE FinishEdge
  <2>1. /\ run.stage = "reload" /\ op = Idle /\ UNCHANGED <<op, made>>
        /\ run' = [run EXCEPT !.stage = "propagate", !.edges = @ \ {run.edge}, !.edge = NoEdge]
    BY <1>8 DEF FinishEdge
  <2>2. /\ run'.stage = "propagate" /\ run'.src = run.src /\ run'.edges = run.edges \ {run.edge}
        /\ run'.nonTrgs = run.nonTrgs /\ run'.splits = run.splits
    BY <1>1, <2>1 DEF RunRecord
  <2> QED BY <2>1, <2>2 DEF SourceOK
<1>9. CASE \E o \in Use : ReloadOperand(o)
  <2>1. PICK o \in Use : ReloadOperand(o)
    BY <1>9
  <2>2. PICK n, t : /\ IsReloadOf(g, stands, scop, o, n, run.edge, t, g', stands')
                    /\ UNCHANGED <<scop, must, op, made>>
    BY <2>1, ReloadIs
  <2>3. run.stage = "reload" /\ op = Idle /\ run' = [run EXCEPT !.loads = @ \ {o}]
    BY <2>1 DEF ReloadOperand
  <2>4. /\ run'.stage = run.stage /\ run'.src = run.src /\ run'.edges = run.edges
        /\ run'.edge = run.edge /\ run'.nonTrgs = run.nonTrgs /\ run'.splits = run.splits
    BY <1>1, <2>3 DEF RunRecord
  <2>5. g'.def[run.edge[2]] = g.def[run.edge[2]]
    <3>1. \A u \in Use : g'.def[u] = IF u = n THEN t ELSE g.def[u]
      BY <2>2, ReloadEdges
    <3>2. run.edge[2] \in Use /\ n # run.edge[2]
      BY <2>2, PairFacts DEF IsReloadOf
    <3> QED BY <3>1, <3>2
  <2> QED BY <2>2, <2>3, <2>4, <2>5 DEF SourceOK
<1>10. CASE Abort
  <2>1. /\ run.stage = "propagate" /\ UNCHANGED <<g, op, made>>
        /\ run' = [run EXCEPT !.stage = "aborted"]
    BY <1>10 DEF Abort
  <2>2. /\ run'.stage = "aborted" /\ run'.src = run.src /\ run'.edges = run.edges
        /\ run'.nonTrgs = run.nonTrgs /\ run'.splits = run.splits
    BY <1>1, <2>1 DEF RunRecord
  <2> QED BY <2>1, <2>2 DEF SourceOK
<1>11. CASE FinishSource
  <2>1. /\ run.stage = "propagate" /\ run.edges = {} /\ made' = made
        /\ run' = [run EXCEPT !.src = NoDef]
    BY <1>11 DEF FinishSource, RestrictOnce
  <2>2. /\ run'.stage = "propagate" /\ run'.src = NoDef /\ run'.edges = {}
        /\ run'.nonTrgs = run.nonTrgs /\ run'.splits = run.splits
    BY <1>1, <2>1 DEF RunRecord
  <2> QED BY <2>1, <2>2 DEF SourceOK
<1>12. CASE FinishGroup
  <2>1. /\ run.stage = "propagate" /\ made' = made /\ run.src = NoDef
        /\ run' = [run EXCEPT !.stage = "worklist", !.nonTrgs = {}, !.changed = TRUE]
    BY <1>12 DEF FinishGroup
  <2>2. run.edges = {}
    BY <2>1 DEF SourceOK
  <2> QED BY <1>1, <2>1, <2>2, SourceKept DEF RunRecord
<1>13. CASE (VisitEdge \/ NextPhase) /\ UNCHANGED <<run, made, stands>>
  <2>1. op # Idle
    BY <1>13 DEF VisitEdge, NextPhase, Idle
  <2>2. run.stage # "reload"
    BY <2>1 DEF DInv, OperandsOK, Detached
  <2> QED BY <1>13, <2>1, <2>2 DEF SourceOK
<1>14. CASE UNCHANGED runVars \/ Finished
  BY <1>14 DEF runVars, Finished, SourceOK
<1> QED BY <1>2, <1>3, <1>4, <1>5, <1>6, <1>7, <1>8, <1>9, <1>10, <1>11, <1>12, <1>13, <1>14,
           PropagateEdgesSource, CutTargetSource, SplitSource, PropagateEdgeSource DEF RunNext

-----------------------------------------------------------------------------
(***************************************************************************)
(* The group that is considered: the nodes still to be propagated, and     *)
(* those of them that die with it.  Asked: a node with an edge to          *)
(* propagate has its barrier and, if it is a barrier to itself, has to be  *)
(* deleted.  Refusing: a target in the array of the group gives to targets *)
(* that were refused only.  Linked: the edges of the source are on the     *)
(* list, and their reads are affine.                                       *)
(***************************************************************************)
Unpropagated == run.todo \cup ({run.src} \cap Def)
Propagating  == run.stage \in {"split", "propagate", "reload"}
InGroup      == run.stage = "cut" \/ Propagating

Dying == {d \in Unpropagated \cap must : Propagating /\ (run.stage = "split" => run.splits[d] = <<>>)}

Asked ==
    \A d \in Unpropagated : ~ OutBarred(g, stands, scop, run.nonTrgs, d) =>
        /\ WarTimes(g, d) \subseteq Barrier(g, d)
        /\ SelfBarred(g, d) /\ OverwrittenSet(g, d) # {} => d \in must

Refusing ==
    \A t \in Def : \A d \in Unpropagated :
        run.splits[t] # <<>> /\ scop.array[d] = scop.array[t] => OutRefused(g, run.nonTrgs, t)

Linked ==
    /\ \A u \in Use : run.src \in Def /\ g.raw[<<run.src, u>>] # {} =>
          <<run.src, u>> \in run.edges /\ AffineRead(stands, scop, u)
    /\ run.stage = "reload" => g.raw[run.edge] # {}

GroupOK ==
    /\ Timed(g, made, stands, scop, Dying)
    /\ InGroup => Chained(g, stands, scop, run.nonTrgs, Unpropagated)
    /\ run.stage = "cut" => Asked
    /\ run.stage \in {"cut", "split"} => Refusing
    /\ Propagating => Loadable(g, made, stands, scop, run.nonTrgs, Dying, Unpropagated)
    /\ Linked

GroupInv == run.stage = "aborted" \/ run.blocked \/ GroupOK

LEMMA UnpropagatedIn == ASSUME DInv PROVE Unpropagated \in SUBSET Def
BY DEF Unpropagated, DInv, RunOK, RunRecord

LEMMA SameTakes == ASSUME DInv, UNCHANGED <<scop, g, made, stands>> PROVE Taken
<1>1. g \in Graph /\ stands' = stands /\ g' = g
  BY InvHolds DEF Held
<1>2. Narrows(g, stands, g, stands)
  BY DEF Narrows
<1> QED BY <1>1, <1>2 DEF Taken

(* The affine reads stay affine. *)
LEMMA NarrowAffine ==
    ASSUME NEW h, NEW st, NEW r, NEW sp, NEW s, Narrows(h, st, r, sp), NEW u \in Use
    PROVE  AffineRead(st, s, u) => AffineRead(sp, s, u)
BY DEF Narrows, AffineRead

(* A step that takes away, in a group or out of it. *)
LEMMA GroupTaken ==
    ASSUME DInv, LoadInv, GroupOK, Taken, run'.stage # "cut",
           run'.stage = "split" => run.stage = "split" /\ run'.splits = run.splits,
           InGroup' => InGroup /\ run'.nonTrgs = run.nonTrgs /\ Unpropagated' \subseteq Unpropagated,
           Propagating' => Propagating,
           \A e \in made \cap Dying : e \in Dying' \/ \A i \in g'.dom[e] : i \notin WawDomain(g', e),
           Linked'
    PROVE  GroupOK'
<1>1. /\ g' \in Graph /\ Narrows(g, stands, g', stands') /\ made' = made /\ scop' = scop
      /\ made \in SUBSET Def /\ Apart(g, made, scop) /\ Unpropagated \in SUBSET Def
  BY InvHolds, UnpropagatedIn DEF Taken, LoadInv, ReadsOK, Held
<1>2. Carries(g, made, Dying, g', made, Dying')
  BY <1>1, NarrowCarries
<1>3. Timed(g', made, stands', scop, Dying')
  BY <1>1, <1>2, NarrowTimed DEF GroupOK
<1>4. InGroup' => Chained(g', stands', scop, run'.nonTrgs, Unpropagated')
  <2> SUFFICES ASSUME InGroup' PROVE Chained(g', stands', scop, run.nonTrgs, Unpropagated')
    OBVIOUS
  <2>1. Unpropagated' \in SUBSET Unpropagated /\ Chained(g, stands, scop, run.nonTrgs, Unpropagated)
    BY DEF GroupOK
  <2> QED BY <1>1, <2>1, NarrowChained
<1>5. Propagating' => Loadable(g', made, stands', scop, run'.nonTrgs, Dying', Unpropagated')
  <2> SUFFICES ASSUME Propagating' PROVE Loadable(g', made, stands', scop, run.nonTrgs, Dying', Unpropagated')
    BY DEF InGroup
  <2>1. Unpropagated' \in SUBSET Unpropagated /\ Loadable(g, made, stands, scop, run.nonTrgs, Dying, Unpropagated)
    BY DEF GroupOK, InGroup
  <2> QED BY <1>1, <1>2, <2>1, NarrowLoadable
<1>6. run'.stage \in {"cut", "split"} => Refusing'
  <2> SUFFICES ASSUME run'.stage = "split", NEW t \in Def, NEW d \in Unpropagated',
                      run.splits[t] # <<>>, scop.array[d] = scop.array[t]
               PROVE  OutRefused(g', run'.nonTrgs, t)
    BY <1>1 DEF Refusing
  <2>1. d \in Unpropagated /\ run'.nonTrgs = run.nonTrgs
    BY DEF InGroup, Propagating
  <2>2. OutRefused(g, run.nonTrgs, t)
    BY <2>1 DEF GroupOK, Refusing
  <2> QED BY <1>1, <2>1, <2>2, NarrowBarred
<1> QED BY <1>1, <1>3, <1>4, <1>5, <1>6 DEF GroupOK

(* The same, if what dies with the group is what died before. *)
LEMMA GroupMoves ==
    ASSUME DInv, LoadInv, GroupOK, Taken, must' = must, run'.stage # "cut",
           run'.stage = "split" => run.stage = "split" /\ run'.splits = run.splits,
           InGroup' => InGroup /\ run'.nonTrgs = run.nonTrgs,
           InGroup \/ InGroup' => Unpropagated' = Unpropagated,
           Propagating' <=> Propagating,
           Linked'
    PROVE  GroupOK'
<1>1. Dying \subseteq Dying'
  BY DEF Dying, InGroup, Propagating
<1> QED BY <1>1, GroupTaken

-----------------------------------------------------------------------------
(* A step outside of the groups. *)
LEMMA OutsideKeeps ==
    ASSUME DInv, LoadInv, GroupOK, Taken, ~ Propagating, ~ InGroup', run'.src = NoDef
    PROVE  GroupOK'
<1>1. Dying = {} /\ run'.stage \notin {"cut", "split", "reload"} /\ ~ Propagating'
  BY DEF Dying, InGroup, Propagating
<1>2. Linked'
  BY <1>1, NoDefAssumption DEF Linked
<1> QED BY <1>1, <1>2, GroupTaken

(* Loops, and groups that are not taken up or given up. *)
LEMMA LoopGroup ==
    ASSUME DInv, LoadInv, SourceOK, GroupOK,
           (\E d \in Def : RestrictNode(d)) \/ EndLoop \/ EndWorklist \/ GiveUp \/ FinishGroup
    PROVE  GroupOK'
<1>1. run \in RunRecord
  BY DEF DInv, RunOK
<1>2. CASE \E d \in Def : RestrictNode(d)
  <2>1. PICK d \in Def : RestrictNode(d)
    BY <1>2
  <2>2. Taken /\ run.stage \in {"create", "delete"} /\ run' = [run EXCEPT !.todo = @ \ {d}]
    BY <2>1, RestrictTakes DEF RestrictNode, RestrictOnce, Next
  <2>3. run'.stage = run.stage /\ run'.src = run.src /\ run.src = NoDef
    BY <1>1, <2>2 DEF RunRecord, SourceOK
  <2> QED BY <2>2, <2>3, OutsideKeeps DEF InGroup, Propagating
<1>3. CASE EndLoop \/ EndWorklist \/ GiveUp
  <2>1. /\ run.stage \in {"create", "delete", "worklist", "cut"}
        /\ UNCHANGED <<scop, g, made, stands>>
        /\ \/ run' = [run EXCEPT !.stage = "worklist"]
           \/ run' = [run EXCEPT !.stage = "done"]
           \/ run' = [run EXCEPT !.stage = "delete", !.todo = made]
           \/ run' = [run EXCEPT !.stage = "worklist", !.todo = {}, !.nonTrgs = {},
                                 !.splits = [t \in Def |-> <<>>]]
    BY <1>3 DEF EndLoop, EndWorklist, GiveUp, AllCut
  <2>2. run'.stage \in {"worklist", "done", "delete"} /\ run'.src = run.src /\ run.src = NoDef
    BY <1>1, <2>1 DEF RunRecord, SourceOK
  <2> QED BY <2>1, <2>2, OutsideKeeps, SameTakes DEF InGroup, Propagating
<1>4. CASE FinishGroup
  <2>1. /\ run.stage = "propagate" /\ run.src = NoDef /\ run.todo = {}
        /\ UNCHANGED <<scop, g, made, stands>>
        /\ run' = [run EXCEPT !.stage = "worklist", !.nonTrgs = {}, !.changed = TRUE]
    BY <1>4 DEF FinishGroup
  <2>2. run'.stage = "worklist" /\ run'.src = NoDef
    BY <1>1, <2>1 DEF RunRecord
  <2>3. Dying = {}
    BY <2>1, NoDefAssumption DEF Dying, Unpropagated
  <2>4. Linked'
    BY <2>2, NoDefAssumption DEF Linked
  <2> QED BY <2>1, <2>2, <2>3, <2>4, SameTakes, GroupTaken DEF InGroup, Propagating
<1> QED BY <1>2, <1>3, <1>4

(* A setDomain, or nothing at all. *)
LEMMA VisitGroup ==
    ASSUME DInv, LoadInv, SourceOK, GroupOK,
           ((VisitEdge \/ NextPhase) /\ UNCHANGED <<run, made, stands>>) \/ UNCHANGED runVars
    PROVE  GroupOK'
<1>1. CASE UNCHANGED runVars
  <2>1. UNCHANGED <<scop, g, must, op, run, made, stands>>
    BY <1>1 DEF runVars
  <2>2. Dying' = Dying /\ Unpropagated' = Unpropagated /\ InGroup' = InGroup /\ Propagating' = Propagating
    BY <2>1 DEF Dying, Unpropagated, InGroup, Propagating
  <2>3. Asked' = Asked
    BY <2>1, <2>2 DEF Asked
  <2>4. Refusing' = Refusing
    BY <2>1, <2>2 DEF Refusing
  <2>5. Linked' = Linked
    BY <2>1 DEF Linked
  <2> QED BY <2>1, <2>2, <2>3, <2>4, <2>5 DEF GroupOK
<1>2. CASE (VisitEdge \/ NextPhase) /\ UNCHANGED <<run, made, stands>>
  <2>1. op # Idle /\ must' = must
    BY <1>2 DEF VisitEdge, NextPhase, Idle
  <2>2. run.stage \notin {"reload", "cut"} /\ run.src = NoDef
    BY <2>1 DEF DInv, OperandsOK, Detached, SourceOK
  <2>3. Taken
    BY <1>2, <2>2, RestrictTakes DEF Next
  <2>4. Linked'
    BY <1>2, <2>2, NoDefAssumption DEF Linked
  <2> QED BY <1>2, <2>1, <2>2, <2>3, <2>4, GroupMoves DEF InGroup, Propagating, Unpropagated
<1> QED BY <1>1, <1>2

(* The group goes on to be propagated, and takes up a source. *)
LEMMA PropagationGroup ==
    ASSUME DInv, LoadInv, SourceOK, GroupOK, StartPropagation
    PROVE  GroupOK'
<1>1. /\ run.stage = "split" /\ UNCHANGED <<scop, g, must, made, stands>> /\ run \in RunRecord
      /\ run' = [run EXCEPT !.stage = "propagate", !.splits = [t \in Def |-> <<>>]]
  BY DEF StartPropagation, DInv, RunOK
<1>2. /\ run'.stage = "propagate" /\ run'.src = run.src /\ run.src = NoDef /\ run'.todo = run.todo
      /\ run'.nonTrgs = run.nonTrgs
  BY <1>1 DEF RunRecord, SourceOK
<1>3. Linked' /\ Unpropagated' = Unpropagated
  BY <1>2, NoDefAssumption DEF Linked, Unpropagated
<1> QED BY <1>1, <1>2, <1>3, SameTakes, GroupMoves DEF InGroup, Propagating

LEMMA PickSourceGroup ==
    ASSUME DInv, LoadInv, SourceOK, GroupOK, NEW d \in Def, PickSource(d), ~ run'.blocked
    PROVE  GroupOK'
<1>1. /\ UNCHANGED <<scop, g, must, op, made, stands>>
      /\ run.stage = "propagate" /\ run.src = NoDef /\ d \in run.todo
      /\ run'.src = d /\ run'.todo = run.todo \ {d} /\ run'.edges = OutEdges({d})
      /\ run'.blocked = (run.blocked \/ \E k \in OutEdges({d}) : ~ Subscripted(k[2]))
      /\ run'.stage = run.stage /\ run'.nonTrgs = run.nonTrgs
  BY PickSourceFacts DEF DInv, RunOK
<1>2. Unpropagated' = Unpropagated
  BY <1>1, NoDefAssumption DEF Unpropagated
<1>3. ASSUME NEW u \in Use, g.raw[<<d, u>>] # {} PROVE <<d, u>> \in OutEdges({d}) /\ AffineRead(stands, scop, u)
  <2>1. <<d, u>> \in OutEdges({d}) /\ <<d, u>>[2] = u
    BY <1>3 DEF OutEdges
  <2>2. Subscripted(u)
    BY <1>1, <2>1
  <2> QED BY <2>1, <2>2 DEF Subscripted, AffineRead
<1>4. Linked'
  BY <1>1, <1>3 DEF Linked, AffineRead
<1> QED BY <1>1, <1>2, <1>4, SameTakes, GroupMoves DEF InGroup, Propagating

LEMMA PropagateEdgeGroup ==
    ASSUME DInv, LoadInv, SourceOK, GroupOK, NEW k \in Def \X Use, PropagateEdge(k)
    PROVE  GroupOK'
<1>1. /\ run.stage = "propagate" /\ k \in run.edges /\ AssertionsHold(k)
      /\ g' = RemoveOperand(g, k[2])
      /\ run \in RunRecord /\ UNCHANGED <<scop, must, made, stands>>
      /\ run' = [run EXCEPT !.stage = "reload", !.edge = k, !.loads = g.ops[k[1]] \ {k[2]}]
  BY DEF PropagateEdge, DInv, RunOK
<1>2. /\ run'.stage = "reload" /\ run'.edge = k /\ run'.src = run.src /\ run'.edges = run.edges
      /\ run'.nonTrgs = run.nonTrgs /\ run'.todo = run.todo
  BY <1>1 DEF RunRecord
<1>3. g'.raw = g.raw
  BY <1>1, InvHolds DEF Held, RemoveOperand, Graph
<1>4. g.raw[k] # {}
  <2>1. k = <<k[1], k[2]>> /\ k[1] \in Def /\ k[2] \in Use
    BY PairFacts
  <2> QED BY <1>1, <2>1 DEF AssertionsHold, Sources
<1>5. Linked' /\ Unpropagated' = Unpropagated
  BY <1>1, <1>2, <1>3, <1>4 DEF Linked, Unpropagated, GroupOK, AffineRead
<1> QED BY <1>1, <1>2, <1>5, RemoveTakes, GroupMoves DEF InGroup, Propagating

LEMMA FinishEdgeGroup ==
    ASSUME DInv, LoadInv, SourceOK, GroupOK, FinishEdge
    PROVE  GroupOK'
<1>1. /\ run.stage = "reload" /\ op = Idle /\ run \in RunRecord /\ UNCHANGED <<scop, must, made>>
      /\ run' = [run EXCEPT !.stage = "propagate", !.edges = @ \ {run.edge}, !.edge = NoEdge]
  BY DEF FinishEdge, DInv, RunOK
<1>2. /\ run'.stage = "propagate" /\ run'.src = run.src /\ run'.edges = run.edges \ {run.edge}
      /\ run'.nonTrgs = run.nonTrgs /\ run'.todo = run.todo
  BY <1>1 DEF RunRecord
<1>3. Taken /\ \A u \in Use : g'.def[u] # NoDef => u # run.edge[2] /\ g'.def[u] = g.def[u]
  BY ClearTakes
<1>4. ASSUME run.src \in Def, NEW u \in Use, g'.raw[<<run.src, u>>] # {}
      PROVE  <<run.src, u>> \in run'.edges /\ AffineRead(stands', scop', u)
  <2>1. g.raw[<<run.src, u>>] # {} /\ g'.def[u] = g.def[u] /\ Narrows(g, stands, g', stands')
    BY <1>3, <1>4, NarrowEdge DEF Taken
  <2>2. g.def[u] \in Def
    <3>1. GInv /\ op.phase = 0 /\ <<run.src, u>> \in Def \X Use /\ <<run.src, u>>[2] = u
      BY <1>1, <1>4 DEF DInv, Idle
    <3> QED BY <2>1, <3>1, TargetExists
  <2>3. u # run.edge[2]
    BY <1>3, <2>1, <2>2, NoDefAssumption
  <2>4. <<run.src, u>> \in run.edges /\ AffineRead(stands, scop, u)
    BY <1>4, <2>1 DEF GroupOK, Linked
  <2>5. <<run.src, u>> # run.edge
    BY <2>3
  <2> QED BY <1>1, <1>2, <2>1, <2>4, <2>5, NarrowAffine
<1>5. Linked' /\ Unpropagated' = Unpropagated
  BY <1>2, <1>4 DEF Linked, Unpropagated
<1> QED BY <1>1, <1>2, <1>3, <1>5, GroupMoves DEF InGroup, Propagating

(* A node that has to be deleted and has no reader left keeps no write that is overwritten. *)
LEMMA DeadRestricted ==
    ASSUME DInv, LoadInv, NEW d \in Def, d \in must, d \in scop.affine, RestrictOnce(d),
           \A u \in Use : g.raw[<<d, u>>] = {}, NEW i \in g'.dom[d]
    PROVE  i \notin WawDomain(g, d)
<1>1. RestrictStmt(d) /\ g \in Graph
  BY InvHolds DEF RestrictOnce, Restrictable, Held
<1>2. UsedDomain(g, d) = {}
  <2>1. RawDomain(g, d) = {}
    BY DEF RawDomain
  <2>2. UsedCoherent
    BY DEF DInv, GInv, IInv
  <2> QED BY <2>1, <2>2 DEF UsedDomain, UsedCoherent
<1> DEFINE asked == IF LiveOut(d) THEN FillOver(FillUsed(g, d), d) ELSE FillUsed(g, d)
<1>3. asked \in Graph /\ asked.dom = g.dom
  <2>1. /\ FillUsed(g, d) \in Graph /\ FillUsed(g, d).dom = g.dom
    BY <1>1, FillUsedFacts DEF SameNodes
  <2> QED BY <2>1, FillOverFacts DEF SameNodes
<1>4. \/ g.dom[d] \subseteq NeededDomain(d) /\ g' = asked
      \/ g' = KeepInstances(asked, d, NeededDomain(d))
  BY <1>1 DEF RestrictStmt
<1> HIDE DEF asked
<1>5. i \in NeededDomain(d)
  <2>1. CASE g.dom[d] \subseteq NeededDomain(d) /\ g' = asked
    BY <1>3, <2>1
  <2>2. CASE g' = KeepInstances(asked, d, NeededDomain(d))
    BY <1>3, <2>2 DEF KeepInstances, Graph
  <2> QED BY <1>4, <2>1, <2>2
<1>6. i \in g.dom[d] /\ i \notin OverwrittenSet(g, d)
  BY <1>2, <1>5 DEF NeededDomain
<1>7. OverHolds(g, d)
  BY DEF LoadInv, ReadsOK, Covers
<1> QED BY <1>6, <1>7 DEF OverwrittenSet, OverHolds

LEMMA FinishSourceGroup ==
    ASSUME DInv, LoadInv, SourceOK, GroupOK, FinishSource
    PROVE  GroupOK'
<1>1. /\ run.stage = "propagate" /\ run.src # NoDef /\ run.edges = {} /\ RestrictOnce(run.src)
      /\ run \in RunRecord /\ UNCHANGED <<made, stands>>
      /\ run' = [run EXCEPT !.src = NoDef]
  BY DEF FinishSource, RestrictOnce, DInv, RunOK
<1>2. PICK d : d = run.src
  OBVIOUS
<1>3. d \in Def /\ d \in Unpropagated
  BY <1>1, <1>2 DEF RunRecord, Unpropagated
<1>4. /\ run'.stage = "propagate" /\ run'.src = NoDef /\ run'.edges = {}
      /\ run'.nonTrgs = run.nonTrgs /\ run'.todo = run.todo
  BY <1>1 DEF RunRecord
<1>5. Taken /\ must' = must
  <2>1. [Next]_vars
    BY <1>1, <1>2, <1>3 DEF RestrictOnce, Next
  <2>2. must' = must
    BY <1>1 DEF RestrictOnce, RestrictStmt, vars
  <2> QED BY <1>1, <2>1, <2>2, RestrictTakes
<1>6. Linked'
  BY <1>4, NoDefAssumption DEF Linked
<1>7. Unpropagated' \subseteq Unpropagated /\ Dying \subseteq Dying' \cup {d}
  BY <1>1, <1>2, <1>4, <1>5, NoDefAssumption DEF Unpropagated, Dying, Propagating
<1>8. ASSUME d \in Dying, NEW i \in g'.dom[d] PROVE i \notin WawDomain(g', d)
  <2>1. d \in must /\ d \in scop.affine
    BY <1>1, <1>3, <1>8 DEF Dying, GroupOK, InGroup, Propagating, Chained
  <2>2. \A u \in Use : g.raw[<<d, u>>] = {}
    BY <1>1, <1>2, <1>3 DEF GroupOK, Linked
  <2>3. i \notin WawDomain(g, d)
    BY <1>1, <1>2, <1>3, <1>8, <2>1, <2>2, DeadRestricted
  <2> QED BY <1>3, <1>5, <2>3 DEF Taken, Narrows
<1>9. \A e \in made \cap Dying : e \in Dying' \/ \A i \in g'.dom[e] : i \notin WawDomain(g', e)
  BY <1>7, <1>8
<1> QED BY <1>1, <1>4, <1>5, <1>6, <1>7, <1>9, GroupTaken DEF InGroup, Propagating

LEMMA CutTargetGroup ==
    ASSUME DInv, LoadInv, SourceOK, GroupOK, CutTarget
    PROVE  GroupOK'
<1>1. run.stage = "cut" /\ run \in RunRecord /\ UNCHANGED <<scop, g, must, op, made, stands>>
  BY DEF CutTarget, DInv, RunOK
<1>2. PICK D, t : run' = [run EXCEPT !.splits[t] = Cut(@, D), !.cuts[t] = @ \ {D}]
  BY DEF CutTarget
<1>3. /\ run'.stage = "cut" /\ run'.src = run.src /\ run'.todo = run.todo
      /\ run'.nonTrgs = run.nonTrgs /\ run.src = NoDef
      /\ \A x \in Def : run'.splits[x] = IF x = t THEN Cut(run.splits[t], D) ELSE run.splits[x]
  BY <1>1, <1>2 DEF RunRecord, SourceOK
<1>4. \A x \in Def : run'.splits[x] # <<>> => run.splits[x] # <<>>
  BY <1>3, CutNone
<1>5. Unpropagated' = Unpropagated /\ Dying = {} /\ Dying' = {}
  BY <1>1, <1>3 DEF Unpropagated, Dying, Propagating
<1>6. Refusing'
  BY <1>1, <1>3, <1>4, <1>5 DEF GroupOK, Refusing, OutRefused
<1>7. Asked'
  <2>1. Asked
    BY <1>1 DEF GroupOK
  <2> QED BY <1>1, <1>3, <1>5, <2>1 DEF Asked, OutBarred, Barred, AffineRead
<1>8. Timed(g', made', stands', scop', Dying')
  BY <1>1, <1>5 DEF GroupOK
<1>9. Chained(g', stands', scop', run'.nonTrgs, Unpropagated')
  BY <1>1, <1>3, <1>5 DEF GroupOK, InGroup
<1>10. Linked'
  BY <1>3, NoDefAssumption DEF Linked
<1> QED BY <1>3, <1>6, <1>7, <1>8, <1>9, <1>10 DEF GroupOK, Propagating

LEMMA ReloadInGroup ==
    ASSUME DInv, LoadInv, SourceOK, GroupOK, run.stage = "reload", NEW o, NEW n, NEW t, NEW k, k = run.edge,
           IsReloadOf(g, stands, scop, o, n, k, t, g', stands')
    PROVE  IsGroupReload(g, made, stands, scop, o, n, k, t, g', stands', run.nonTrgs, Unpropagated)
<1>1. /\ k \in run.edges /\ k[1] = run.src /\ g.def[k[2]] \notin run.nonTrgs
      /\ k \in Def \X Use /\ k = <<k[1], k[2]>> /\ k[1] \in Def /\ k[2] \in Use
  BY PairFacts DEF SourceOK, IsReloadOf
<1>2. \A u \in Use : g.raw[<<k[1], u>>] # {} => AffineRead(stands, scop, u)
  BY <1>1 DEF GroupOK, Linked
<1>3. g.raw[k] # {}
  BY DEF GroupOK, Linked
<1>4. ReadsOK(g, made, stands, scop) /\ made \subseteq Def /\ Unpropagated \subseteq Def
  BY UnpropagatedIn, InvHolds DEF LoadInv, Held
<1>5. k[1] \in Unpropagated
  BY <1>1 DEF Unpropagated
<1>6. AffineRead(stands, scop, k[2])
  BY <1>1, <1>2, <1>3
<1>7. Chained(g, stands, scop, run.nonTrgs, Unpropagated)
  BY DEF GroupOK, InGroup, Propagating
<1> QED BY <1>1, <1>2, <1>3, <1>4, <1>5, <1>6, <1>7 DEF IsGroupReload, Barred

LEMMA ReloadGroup ==
    ASSUME DInv, LoadInv, SourceOK, GroupOK, NEW o \in Use, ReloadOperand(o)
    PROVE  GroupOK'
<1>1. PICK k : k = run.edge
  OBVIOUS
<1>2. PICK n, t : /\ IsReloadOf(g, stands, scop, o, n, k, t, g', stands')
                  /\ UNCHANGED <<scop, must, op, made>>
  BY <1>1, ReloadIs
<1>3. /\ run.stage = "reload" /\ run \in RunRecord /\ run' = [run EXCEPT !.loads = @ \ {o}]
  BY DEF ReloadOperand, DInv, RunOK
<1>4. /\ run'.stage = "reload" /\ run'.src = run.src /\ run'.todo = run.todo /\ run'.edges = run.edges
      /\ run'.nonTrgs = run.nonTrgs /\ run'.edge = k
  BY <1>1, <1>3 DEF RunRecord
<1>5. Unpropagated' = Unpropagated /\ Dying' = Dying
  BY <1>2, <1>3, <1>4 DEF Unpropagated, Dying, Propagating
<1>6. /\ k \in run.edges /\ k[1] = run.src /\ g.def[k[2]] \notin run.nonTrgs
      /\ k \in Def \X Use /\ k = <<k[1], k[2]>> /\ k[1] \in Def /\ k[2] \in Use
  BY <1>1, <1>2, <1>3, PairFacts DEF SourceOK, IsReloadOf
<1>7. /\ \A u \in Use : g.raw[<<k[1], u>>] # {} => <<k[1], u>> \in run.edges /\ AffineRead(stands, scop, u)
      /\ g.raw[k] # {}
  BY <1>1, <1>3, <1>6 DEF GroupOK, Linked
<1>8. IsGroupReload(g, made, stands, scop, o, n, k, t, g', stands', run.nonTrgs, Unpropagated)
  BY <1>1, <1>2, <1>3, ReloadInGroup
<1>9. Timed(g, made, stands, scop, Dying) /\ Loadable(g, made, stands, scop, run.nonTrgs, Dying, Unpropagated)
  BY <1>3 DEF GroupOK, Propagating
<1>10. Timed(g', made, stands', scop, Dying)
  BY <1>8, <1>9, ReloadTimed
<1>11. Loadable(g', made, stands', scop, run.nonTrgs, Dying, Unpropagated)
  BY <1>8, <1>9, ReloadLoadable
<1>12. Chained(g', stands', scop, run.nonTrgs, Unpropagated)
  BY <1>8, ReloadChained
<1>13. \A u \in Use : /\ g'.raw[<<k[1], u>>] # {} <=> g.raw[<<k[1], u>>] # {}
                      /\ g'.raw[<<k[1], u>>] # {} => AffineRead(stands', scop, u)
  BY <1>8, ReloadSource
<1>14. Linked'
  <2>1. g'.raw[k] # {}
    BY <1>6, <1>7, <1>13
  <2>2. \A u \in Use : g'.raw[<<k[1], u>>] # {} =>
           <<k[1], u>> \in run.edges /\ AffineRead(stands', scop', u)
    BY <1>2, <1>7, <1>13
  <2> QED BY <1>4, <1>6, <2>1, <2>2 DEF Linked
<1> QED BY <1>2, <1>4, <1>5, <1>10, <1>11, <1>12, <1>14 DEF GroupOK

(* A target is split: what it gives is not propagated if it writes the array of the group. *)
LEMMA SplitGroup ==
    ASSUME DInv, LoadInv, SourceOK, GroupOK, NEW t \in Def, Split(t)
    PROVE  GroupOK'
<1>1. /\ run.stage = "split" /\ Len(run.splits[t]) > 1 /\ must' = must /\ run \in RunRecord
      /\ run.src = NoDef
  BY DEF Split, DInv, RunOK, SourceOK
<1>2. PICK c, keep, twin :
         /\ IsSplitOf(g, made, stands, t, c, keep, twin, g', stands')
         /\ c \in Def \ made /\ Orig[c] = Orig[t]
         /\ c = CHOOSE e \in Def \ made : Orig[e] = Orig[t]
         /\ made' = made \cup {c} /\ scop' = scop
  BY SplitIs
<1>3. PICK s : run' = [run EXCEPT !.splits[t] = <<>>, !.splits[c] = s,
                          !.todo = IF \E d \in @ : scop.array[d] = scop.array[t] THEN @ \cup {c} ELSE @]
  BY <1>2 DEF Split
<1>4. /\ run'.stage = "split" /\ run'.src = NoDef /\ run'.nonTrgs = run.nonTrgs
      /\ run'.todo = IF \E d \in run.todo : scop.array[d] = scop.array[t] THEN run.todo \cup {c} ELSE run.todo
      /\ \A x \in Def : run'.splits[x] = IF x = c THEN s ELSE IF x = t THEN <<>> ELSE run.splits[x]
  BY <1>1, <1>2, <1>3 DEF RunRecord
<1>5. Unpropagated = run.todo /\ Unpropagated' = run'.todo /\ Unpropagated \subseteq made /\ made \subseteq Def
  BY <1>1, <1>4, NoDefAssumption DEF Unpropagated, DInv, RunOK, NodesOK
<1>6. run.splits[t] # <<>>
  <2>1. run.splits[t] = <<>> => Len(run.splits[t]) = 0
    OBVIOUS
  <2> QED BY <1>1, <2>1
<1>7. t \notin run.nonTrgs /\ c \notin run.nonTrgs
  BY <1>2, <1>6 DEF SourceOK
<1>8. scop.time[c] = scop.time[t] /\ scop.array[c] = scop.array[t]
  BY <1>2, CopiesAssumption, InvHolds DEF Held
<1>9. Refusing /\ Apart(g, made, scop)
  BY <1>1 DEF GroupOK, LoadInv, ReadsOK
<1>10. IsGroupSplit(g, made, stands, scop, t, c, keep, twin, g', stands', run.nonTrgs, Unpropagated, Unpropagated')
  <2>1. Unpropagated' \subseteq Unpropagated \cup {c}
    BY <1>4, <1>5
  <2>2. c \in Unpropagated' => \E x \in Unpropagated : scop.array[x] = scop.array[t]
    BY <1>2, <1>4, <1>5
  <2>3. c \in Unpropagated' => OutRefused(g, run.nonTrgs, t)
    BY <1>6, <1>9, <2>2 DEF Refusing
  <2> QED BY <1>2, <1>5, <1>7, <1>8, <1>9, <2>1, <2>2, <2>3 DEF IsGroupSplit
<1>11. t \notin Dying /\ Dying \subseteq Dying'
  <2>1. t \notin Dying
    BY <1>1, <1>6 DEF Dying
  <2>2. \A x \in Dying : x \in Unpropagated /\ x \in must /\ run.splits[x] = <<>> /\ x # c
    BY <1>1, <1>2, <1>5 DEF Dying
  <2>3. \A x \in Dying : x \in Unpropagated' /\ x \in must' /\ run'.splits[x] = <<>>
    BY <1>1, <1>4, <1>5, <2>2
  <2>4. \A x \in Dying : x \in Dying'
    BY <1>4, <2>3 DEF Dying, Propagating
  <2> QED BY <2>1, <2>4
<1>12. Carries(g, made, Dying, g', made \cup {c}, Dying')
  BY <1>2, <1>11, SplitCarries
<1>13. Timed(g', made \cup {c}, stands', scop, Dying')
  BY <1>2, <1>8, <1>9, <1>12, SplitTimed DEF GroupOK
<1>14. Loadable(g', made \cup {c}, stands', scop, run.nonTrgs, Dying', Unpropagated')
  <2>1. Loadable(g, made, stands, scop, run.nonTrgs, Dying, Unpropagated)
    BY <1>1 DEF GroupOK, Propagating
  <2> QED BY <1>10, <1>12, <2>1, SplitLoadable
<1>15. Chained(g', stands', scop, run.nonTrgs, Unpropagated')
  <2>1. Chained(g, stands, scop, run.nonTrgs, Unpropagated)
    BY <1>1 DEF GroupOK, InGroup, Propagating
  <2> QED BY <1>10, <2>1, SplitChained
<1>16. Refusing'
  <2> SUFFICES ASSUME NEW x \in Def, NEW d \in Unpropagated',
                      run'.splits[x] # <<>>, scop.array[d] = scop.array[x]
               PROVE  OutRefused(g', run.nonTrgs, x)
    BY <1>2, <1>4 DEF Refusing
  <2>1. PICK y \in Unpropagated : scop.array[y] = scop.array[d]
    BY <1>4, <1>5, <1>8
  <2>2. WasDef(t, c, x) \in Def /\ run.splits[WasDef(t, c, x)] # <<>>
        /\ scop.array[WasDef(t, c, x)] = scop.array[x]
    BY <1>4, <1>6, <1>8 DEF WasDef
  <2>3. OutRefused(g, run.nonTrgs, WasDef(t, c, x))
    BY <1>9, <2>1, <2>2 DEF Refusing
  <2> QED BY <1>2, <1>7, <2>3, SplitRefused
<1>17. Linked'
  BY <1>4, NoDefAssumption DEF Linked
<1> QED BY <1>2, <1>4, <1>13, <1>14, <1>15, <1>16, <1>17 DEF GroupOK

(***************************************************************************)
(* The splits are taken up.  A source whose edge is not blocked is loaded  *)
(* before what it loads is overwritten: that write is in its barrier, as   *)
(* it has been asked for it, unless it is the write of the source itself,  *)
(* which is not overwritten or is to be deleted.                           *)
(***************************************************************************)
LEMMA StartSplitsLoadable ==
    ASSUME DInv, LoadInv, SourceOK, GroupOK, run.stage = "cut", run.src = NoDef,
           NEW E, \A d \in Unpropagated \cap must : run.splits[d] = <<>> => d \in E,
           NEW d \in Unpropagated, NEW u \in Use, NEW i \in Inst, NEW j \in Inst, NEW o \in g.ops[d],
           <<i, j>> \in g.raw[<<d, u>>], ~ Barred(g, stands, scop, run.nonTrgs, u), Unblocked(<<d, u>>)
    PROVE  Punctual(g, made, stands, scop, E, g.def[u], j, o, i)
<1>1. ASSUME NEW v \in stands[o][i], NEW p \in Overwrites(scop, v), NEW e \in made,
             Orig[e] = p[1], p[2] \in g.dom[e], <<i, p[2]>> \in g.war[<<o, e>>]
      PROVE  \/ TimeOf(scop, <<g.def[u], j>>) <= TimeOf(scop, p)
             \/ /\ \E x \in made : /\ Orig[x] = p[1] /\ p[2] \in g.dom[x]
                                   /\ x \in E \/ p[2] \notin WawDomain(g, x)
                /\ Updates(scop, v, p)
  <2> DEFINE t == g.def[u]
  <2>1. /\ d \in Def /\ g \in Graph /\ Tied(g) /\ OpsAre(g) /\ scop \in Scops /\ made \subseteq Def
        /\ o \in Use /\ g.def[o] = d
    BY UnpropagatedIn, InvHolds DEF Held, SourceOK, OpsAre
  <2>2. i \in g.dom[d] /\ t \in Def /\ j \in g.dom[t]
    <3>1. /\ <<d, u>> \in Def \X Use /\ <<d, u>>[1] = d /\ <<d, u>>[2] = u
          /\ <<i, j>>[1] = i /\ <<i, j>>[2] = j
      BY <2>1
    <3> QED BY <2>1, <3>1 DEF Tied
  <2>3. Flows(g, stands, scop) /\ Apart(g, made, scop) /\ OverHolds(g, d)
    BY <2>1 DEF LoadInv, ReadsOK, Covers
  <2>4. /\ IsScop(scop) /\ RunsInSequence(scop)
        /\ \A x \in Def : scop.time[x] = scop.time[Orig[x]]
    BY <2>1, ScopsAssumption, CopiesAssumption
  <2>5. /\ WarTimes(g, d) \subseteq Barrier(g, d)
        /\ SelfBarred(g, d) /\ OverwrittenSet(g, d) # {} => d \in must
    <3>1. ~ OutBarred(g, stands, scop, run.nonTrgs, d)
      BY DEF OutBarred
    <3> QED BY <3>1 DEF GroupOK, Asked
  <2> SUFFICES ASSUME ~ (TimeOf(scop, <<t, j>>) <= TimeOf(scop, p))
               PROVE  /\ \E x \in made : /\ Orig[x] = p[1] /\ p[2] \in g.dom[x]
                                         /\ x \in E \/ p[2] \notin WawDomain(g, x)
                      /\ Updates(scop, v, p)
    OBVIOUS
  <2>6. e \in Def /\ p[2] \in Inst /\ p[1] \in Def /\ p = <<p[1], p[2]>>
    <3>1. p \in Def \X Inst
      BY DEF Overwrites
    <3> QED BY <2>1, <3>1, PairFacts
  <2> DEFINE b == <<i, <<e, p[2]>>>>
  <2>7. b[1] = i /\ b[2] = <<e, p[2]>> /\ b[2][1] = e /\ b[2][2] = p[2]
    OBVIOUS
  <2>8. b \in Barrier(g, d)
    <3>1. b \in Inst \X (Def \X Inst)
      BY <2>6
    <3> HIDE DEF b
    <3>2. b \in WarTimes(g, d)
      BY <1>1, <2>7, <3>1 DEF WarTimes
    <3> QED BY <2>5, <3>2
  <2>9. TimeOf(scop, b[2]) = TimeOf(scop, p) /\ TimeOf(scop, <<d, i>>) = scop.time[d][i]
        /\ TimeOf(scop, b[2]) = scop.time[e][p[2]]
    <3>1. TimeOf(scop, b[2]) = scop.time[e][p[2]] /\ TimeOf(scop, p) = scop.time[p[1]][p[2]]
      BY <2>7 DEF TimeOf
    <3>2. TimeOf(scop, <<d, i>>) = scop.time[d][i]
      BY DEF TimeOf
    <3> QED BY <1>1, <2>4, <2>6, <3>1, <3>2
  <2>10. /\ i \in scop.dom[Orig[d]] /\ j \in scop.dom[Orig[t]] /\ p[2] \in scop.dom[Orig[e]]
         /\ d \in made /\ t \in made
    <3>1. d \in made /\ t \in made
      BY <2>1, <2>2 DEF DInv, NodesOK
    <3> QED BY <1>1, <2>2, <2>3, <3>1 DEF Apart
  <2>11. scop.time[t][j] \in Nat /\ scop.time[e][p[2]] \in Nat /\ scop.time[d][i] \in Nat
    BY <2>1, <2>2, <2>4, <2>6 DEF IsScop
  <2>12. scop.time[e][p[2]] < scop.time[t][j]
    <3>1. TimeOf(scop, <<t, j>>) = scop.time[t][j]
      BY DEF TimeOf
    <3> QED BY <2>9, <2>11, <3>1
  <2> DEFINE k == <<d, u>>
             self == SelfWAR(g, d) # {}
             uses == {q \in g.raw[k] : /\ q[1] \in g.dom[d] /\ q[2] \in g.dom[t]
                                       /\ self => q[1] \in PropDomain(g, k)}
             stay == {x \in Barrier(g, d) : self => TimeOf(scop, x[2]) # TimeOf(scop, <<d, x[1]>>)}
             blocked == {TimeOf(scop, <<t, q[2]>>) : q \in {y \in uses :
                           \E x \in stay : x[1] = y[1] /\ TimeOf(scop, x[2]) < TimeOf(scop, <<t, y[2]>>)}}
  <2>13. <<i, j>> \in uses /\ TimeOf(scop, <<t, j>>) \notin blocked
    <3>1. k[1] = d /\ g.def[k[2]] = t
      OBVIOUS
    <3>2. RecomputeUses(scop, g, k) = IF Barrier(g, d) = {} THEN g.raw[k]
                                      ELSE {q \in uses : TimeOf(scop, <<t, q[2]>>) \notin blocked}
      BY <3>1 DEF RecomputeUses
    <3>3. RecomputeUses(scop, g, k) = g.raw[k]
      BY DEF Unblocked
    <3> HIDE DEF uses, blocked, k, t
    <3>4. <<i, j>> \in {q \in uses : TimeOf(scop, <<t, q[2]>>) \notin blocked}
      BY <2>8, <3>2, <3>3 DEF k
    <3> QED BY <3>4
  <2>14. b \notin stay
    <3> SUFFICES ASSUME b \in stay PROVE FALSE
      OBVIOUS
    <3>1. TimeOf(scop, b[2]) < TimeOf(scop, <<t, j>>)
      <4>1. TimeOf(scop, <<t, j>>) = scop.time[t][j]
        BY DEF TimeOf
      <4> QED BY <2>9, <2>12, <4>1
    <3>2. \E x \in stay : x[1] = <<i, j>>[1] /\ TimeOf(scop, x[2]) < TimeOf(scop, <<t, <<i, j>>[2]>>)
      BY <2>7, <3>1
    <3>3. <<i, j>>[2] = j
      OBVIOUS
    <3> HIDE DEF uses, stay, b, t
    <3>4. TimeOf(scop, <<t, j>>) \in blocked
      BY <2>13, <3>2, <3>3
    <3> QED BY <2>13, <3>4
  <2>15. self /\ TimeOf(scop, b[2]) = TimeOf(scop, <<d, i>>)
    BY <2>7, <2>8, <2>14
  <2>16. Orig[e] = Orig[d] /\ p[2] = i
    <3>1. scop.time[Orig[e]][p[2]] = scop.time[Orig[d]][i]
      BY <2>1, <2>4, <2>6, <2>9, <2>15
    <3>2. Orig[e] \in Def /\ Orig[d] \in Def
      BY <2>1, <2>6, OrigAssumption
    <3> QED BY <2>4, <2>10, <3>1, <3>2 DEF RunsInSequence
  <2>17. FlowsTo(scop, ReaderOf(scop, v), p)
    <3>1. FlowsTo(scop, ReaderOf(scop, v), <<Orig[d], i>>)
      BY <2>1, <2>2, <2>3 DEF Flows
    <3> QED BY <1>1, <2>6, <2>16, <3>1
  <2>18. d \in E \/ i \notin WawDomain(g, d)
    <3>1. i \in PropDomain(g, k) /\ SelfBarred(g, d)
      <4>1. <<i, j>>[1] = i
        OBVIOUS
      <4>2. i \in PropDomain(g, k)
        BY <2>13, <2>15, <4>1
      <4> QED BY <2>8, <2>15, <4>2 DEF SelfBarred
    <3>2. CASE OverwrittenSet(g, d) = {}
      BY <2>2, <2>3, <3>2 DEF OverwrittenSet, OverHolds
    <3>3. CASE OverwrittenSet(g, d) # {}
      <4>1. d \in must
        BY <2>5, <3>1, <3>3
      <4>2. run.splits[d] = <<>>
        <5> SUFFICES ASSUME run.splits[d] # <<>> PROVE FALSE
          OBVIOUS
        <5>1. OutRefused(g, run.nonTrgs, d)
          BY <2>1 DEF GroupOK, Refusing
        <5> QED BY <5>1 DEF OutRefused, Barred
      <4> QED BY <4>1, <4>2
    <3> QED BY <3>2, <3>3
  <2>19. Unsourced(scop, v)
    <3> SUFFICES ASSUME v[1] \in scop.affine, NEW x \in Def, NEW m \in Inst,
                        <<m, v[2]>> \in RAW(scop)[<<x, v[1]>>]
                 PROVE  FALSE
      BY DEF Unsourced
    <3>1. v[1] \in Use /\ v[2] \in Inst
      BY <2>1, <2>2 DEF DInv, StandsOK, ReadAt, Graph
    <3>2. PICK c \in made : Orig[c] = x /\ <<m, i>> \in g.raw[<<c, o>>]
      BY <2>1, <2>2 DEF DInv, StandsKept, Kept
    <3>3. scop.cells[x][m] \cap scop.cells[v[1]][v[2]] # {}
      BY <3>1, RawPair
    <3>4. scop.cells[Orig[d]][i] \cap scop.cells[v[1]][v[2]] # {}
      BY <1>1, <2>16 DEF Overwrites
    <3>5. scop.array[c] = scop.array[d]
      <4>1. scop.array[x] = scop.array[v[1]] /\ scop.array[Orig[d]] = scop.array[v[1]]
        BY <2>1, <2>2, <3>1, <3>3, <3>4, ScopsAssumption, OrigAssumption DEF OneCell, Node
      <4>2. scop.array[c] = scop.array[Orig[c]] /\ scop.array[d] = scop.array[Orig[d]]
        BY <2>1, CopiesAssumption
      <4> QED BY <3>2, <4>1, <4>2
    <3>6. AffineRead(stands, scop, o)
      BY <2>1, <2>2 DEF LoadInv, ReadsOK, Alike
    <3>7. OutBarred(g, stands, scop, run.nonTrgs, d)
      <4>1. Chained(g, stands, scop, run.nonTrgs, Unpropagated)
        BY DEF GroupOK, InGroup
      <4> QED BY <2>1, <3>2, <3>5, <3>6, <4>1 DEF Chained
    <3> QED BY <3>7 DEF OutBarred
  <2> QED BY <1>1, <2>2, <2>10, <2>16, <2>17, <2>18, <2>19 DEF Updates
<1>2. /\ d \in Def /\ Tied(g) /\ made \subseteq Def /\ o \in Use
      /\ Waits(g, made, stands, scop) /\ Behind(g, stands, scop)
  BY UnpropagatedIn, InvHolds DEF Held, SourceOK, OpsAre, LoadInv, ReadsOK
<1>3. i \in g.dom[d]
  <2>1. <<d, u>> \in Def \X Use /\ <<d, u>>[1] = d /\ <<i, j>>[1] = i
    BY <1>2
  <2> QED BY <1>2, <2>1 DEF Tied
<1>4. ASSUME NEW v \in stands[o][i]
      PROVE  Timely(g, made, scop, E, g.def[u], j, {v}, FirstOverwrites(scop, v))
  <2> SUFFICES ASSUME NEW p \in FirstOverwrites(scop, v), NEW e \in made, Orig[e] = p[1], p[2] \in g.dom[e]
               PROVE  \/ TimeOf(scop, <<g.def[u], j>>) <= TimeOf(scop, p)
                      \/ /\ \E x \in made : /\ Orig[x] = p[1] /\ p[2] \in g.dom[x]
                                            /\ x \in E \/ p[2] \notin WawDomain(g, x)
                         /\ \E w \in {v} : Updates(scop, w, p)
    BY DEF Timely
  <2>1. p \in Overwrites(scop, v) /\ <<i, p[2]>> \in g.war[<<o, e>>]
    BY <1>2, <1>3 DEF Waits, FirstOverwrites
  <2>2. \/ TimeOf(scop, <<g.def[u], j>>) <= TimeOf(scop, p)
        \/ /\ \E x \in made : /\ Orig[x] = p[1] /\ p[2] \in g.dom[x]
                              /\ x \in E \/ p[2] \notin WawDomain(g, x)
           /\ Updates(scop, v, p)
    BY <1>1, <2>1
  <2> QED BY ONLY <2>2
<1>5. Timely(g, made, scop, E, g.def[u], j, stands[o][i], Awaited(g, made, o, i))
  <2> SUFFICES ASSUME NEW p \in Awaited(g, made, o, i)
               PROVE  \/ TimeOf(scop, <<g.def[u], j>>) <= TimeOf(scop, p)
                      \/ /\ \E x \in made : /\ Orig[x] = p[1] /\ p[2] \in g.dom[x]
                                            /\ x \in E \/ p[2] \notin WawDomain(g, x)
                         /\ \E v \in stands[o][i] : Updates(scop, v, p)
    BY DEF Timely
  <2>1. p = <<p[1], p[2]>> /\ p[2] \in Inst
    BY PairFacts DEF Awaited
  <2>2. PICK e \in made : Orig[e] = p[1] /\ p[2] \in g.dom[e] /\ <<i, p[2]>> \in g.war[<<o, e>>]
    BY DEF Awaited
  <2>3. PICK v \in stands[o][i] : p \in Overwrites(scop, v)
    <3>1. e \in Def
      BY <1>2
    <3>2. \E v \in stands[o][i] : <<Orig[e], p[2]>> \in Overwrites(scop, v)
      BY <1>2, <2>1, <2>2, <3>1 DEF Behind
    <3> QED BY <2>1, <2>2, <3>2
  <2>4. \/ TimeOf(scop, <<g.def[u], j>>) <= TimeOf(scop, p)
        \/ /\ \E x \in made : /\ Orig[x] = p[1] /\ p[2] \in g.dom[x]
                              /\ x \in E \/ p[2] \notin WawDomain(g, x)
           /\ Updates(scop, v, p)
    BY <1>1, <2>2, <2>3
  <2> QED BY ONLY <2>3, <2>4
<1> QED BY <1>4, <1>5 DEF Punctual

(* The group is split: nothing of it is blocked, or the pass says so. *)
LEMMA StartSplitsGroup ==
    ASSUME DInv, LoadInv, SourceOK, GroupOK, StartSplits, ~ run'.blocked
    PROVE  GroupOK'
<1>1. /\ run.stage = "cut" /\ UNCHANGED <<scop, g, must, op, made, stands>> /\ run \in RunRecord
      /\ \A t \in Def : run.cuts[t] = {}
  BY DEF StartSplits, AllCut, DInv, RunOK
<1>2. /\ run'.stage = "split" /\ run'.src = run.src /\ run'.todo = run.todo
      /\ run'.nonTrgs = run.nonTrgs /\ run'.splits = run.splits
      /\ run'.blocked = (run.blocked \/ \E k \in OutEdges(run.todo) : ~ Unblocked(k))
  BY <1>1 DEF StartSplits, RunRecord
<1>3. run.src = NoDef
  BY <1>1 DEF SourceOK
<1>4. Unpropagated' = Unpropagated /\ Unpropagated = run.todo /\ Unpropagated \in SUBSET Def
  BY <1>2, <1>3, NoDefAssumption, UnpropagatedIn DEF Unpropagated
<1>5. Dying = {} /\ Dying' = {d \in Unpropagated \cap must : run.splits[d] = <<>>}
  BY <1>1, <1>2, <1>4 DEF Dying, Propagating
<1>6. Timed(g, made, stands, scop, Dying')
  <2>1. Taken /\ made \in SUBSET Def /\ Apart(g, made, scop)
    BY <1>1, SameTakes, InvHolds DEF LoadInv, ReadsOK, Held
  <2>2. Narrows(g, stands, g, stands)
    BY <1>1, <2>1 DEF Taken
  <2>3. Carries(g, made, Dying, g, made, Dying')
    BY <1>5, <2>1, <2>2, NarrowCarries
  <2> QED BY <2>1, <2>2, <2>3, NarrowTimed DEF GroupOK
<1>7. Loadable(g, made, stands, scop, run.nonTrgs, Dying', Unpropagated)
  <2> SUFFICES ASSUME NEW d \in Unpropagated, NEW u \in Use, NEW i \in Inst, NEW j \in Inst,
                      NEW o \in g.ops[d], <<i, j>> \in g.raw[<<d, u>>],
                      ~ Barred(g, stands, scop, run.nonTrgs, u)
               PROVE  Punctual(g, made, stands, scop, Dying', g.def[u], j, o, i)
    BY DEF Loadable
  <2>1. Unblocked(<<d, u>>)
    <3>1. <<d, u>> \in OutEdges(run.todo)
      BY <1>4 DEF OutEdges
    <3> QED BY <1>2, <3>1
  <2> QED BY <1>1, <1>3, <1>5, <2>1, StartSplitsLoadable
<1>8. Linked'
  BY <1>2, <1>3, NoDefAssumption DEF Linked
<1>9. Chained(g, stands, scop, run.nonTrgs, Unpropagated) /\ Refusing
  BY <1>1 DEF GroupOK, InGroup
<1>10. Refusing'
  BY <1>1, <1>2, <1>4, <1>9 DEF Refusing
<1> QED BY <1>1, <1>2, <1>4, <1>6, <1>7, <1>8, <1>9, <1>10 DEF GroupOK

(* The edges that are to be propagated, once their barriers were asked. *)
LEMMA AskedEdges ==
    ASSUME DInv, BarriersUnasked, op = Idle, NEW a \in run.groups, NEW N, NEW d \in Nodes(a),
           Ask(PropEdges(a, N)), ~ OutBarred(g, stands, scop, N, d)
    PROVE  /\ WarTimes(g', d) \subseteq Barrier(g', d)
           /\ SelfBarred(g', d) /\ OverwrittenSet(g', d) # {} => d \in must'
<1> DEFINE D == {k[1] : k \in PropEdges(a, N)}
<1>1. d \in Def /\ g \in Graph /\ d \in made /\ scop.array[d] = a
  BY InvHolds DEF Held, Nodes
<1>2. g.barrier[d] = Miss
  BY <1>1 DEF BarriersUnasked
<1>3. d \in D
  <2>1. PICK u \in Use : g.raw[<<d, u>>] # {} /\ ~ Barred(g, stands, scop, N, u)
    BY DEF OutBarred
  <2>2. <<d, u>> \in PropEdges(a, N) /\ <<d, u>>[1] = d
    BY <2>1 DEF PropEdges, OutEdges, Barred, AffineRead, Subscripted
  <2> QED BY <2>2
<1>4. g' = AskBarriers(g, D) /\ must' = must \cup MustDelete(g, D)
  BY DEF Ask
<1> HIDE DEF D
<1>5. /\ g'.barrier[d] \in {Miss, WarTimes(g, d)}
      /\ g'.over[d] = IF SelfBarred(g, d) THEN OverwrittenSet(g, d) ELSE g.over[d]
      /\ g'.war = g.war /\ g'.waw = g.waw /\ g'.def = g.def
  <2>1. FillBarrier(g, d).barrier[d] \in {Miss, WarTimes(g, d)}
    BY <1>1, <1>2 DEF FillBarrier, Barrier, Graph
  <2> QED BY <1>1, <1>3, <1>4, <2>1 DEF AskBarriers, Graph
<1>6. WarTimes(g', d) = WarTimes(g, d) /\ SelfWAR(g', d) = SelfWAR(g, d)
  <2>1. g'.ops = g.ops /\ g'.dom = g.dom
    BY <1>1, <1>4 DEF AskBarriers, Graph
  <2> QED BY <1>5, <2>1 DEF WarTimes, SelfWAR
<1>8. Barrier(g', d) = WarTimes(g, d) /\ Barrier(g, d) = WarTimes(g, d)
  BY <1>2, <1>5, <1>6 DEF Barrier
<1>9. SelfBarred(g', d) = SelfBarred(g, d)
  BY <1>6, <1>8 DEF SelfBarred
<1>10. OverwrittenSet(g', d) = OverwrittenSet(g, d)
  BY <1>5 DEF OverwrittenSet, WawDomain
<1> QED BY <1>3, <1>4, <1>6, <1>8, <1>9, <1>10 DEF MustDelete

(* The sources of a group, of which one that is a target of the group is not propagated further. *)
LEMMA GroupChained ==
    ASSUME DInv, op = Idle, NEW a \in Array, GroupAffine(CHOOSE d \in Nodes(a) : TRUE),
           NEW P \in SUBSET Nodes(a), NEW N, InGroupTargets(a) \subseteq N
    PROVE  Chained(g, stands, scop, N, P)
<1>1. Nodes(a) \subseteq Def /\ GInv /\ \A d \in Nodes(a) : scop.array[d] = a
  BY InvHolds DEF Held, Nodes, DInv
<1>2. \A d \in P, e \in Def : scop.array[e] = scop.array[d] => e \in scop.affine
  <2> SUFFICES ASSUME NEW d \in P, NEW e \in Def, scop.array[e] = scop.array[d] PROVE e \in scop.affine
    OBVIOUS
  <2>1. PICK c : c = CHOOSE x \in Nodes(a) : TRUE
    OBVIOUS
  <2>2. c \in Nodes(a)
    BY <2>1
  <2> QED BY <1>1, <2>1, <2>2 DEF GroupAffine
<1>3. ASSUME NEW d \in P, NEW e \in Def, NEW o \in Use, scop.array[e] = scop.array[d],
             g.def[o] = d, g.raw[<<e, o>>] # {}, AffineRead(stands, scop, o)
      PROVE  OutBarred(g, stands, scop, N, d)
  <2>1. e \in Nodes(a)
    <3>1. g.dom[e] # {}
      <4>1. PICK i, j \in Inst : <<i, j>> \in g.raw[<<e, o>>]
        BY <1>3, InvHolds, EdgePair DEF Held
      <4>2. Tied(g) /\ <<e, o>> \in Def \X Use /\ <<e, o>>[1] = e /\ <<i, j>>[1] = i
        BY <1>1, TiedIdle DEF DInv
      <4> QED BY <4>1, <4>2 DEF Tied
    <3> QED BY <1>1, <1>3, <3>1 DEF DInv, NodesOK, Nodes
  <2>2. d \in AffineTargets(a) \cap Nodes(a)
    <3>1. <<e, o>> \in OutEdges(Nodes(a)) /\ <<e, o>>[2] = o
      BY <1>3, <2>1 DEF OutEdges
    <3>2. Subscripted(o)
      BY <1>3 DEF Subscripted, AffineRead
    <3> QED BY <1>3, <3>1, <3>2 DEF AffineTargets
  <2> SUFFICES ASSUME NEW u \in Use, g.raw[<<d, u>>] # {}, AffineRead(stands, scop, u)
               PROVE  g.def[u] \in N
    BY DEF OutBarred, Barred
  <2>3. <<d, u>> \in OutEdges(AffineTargets(a) \cap Nodes(a)) /\ <<d, u>>[2] = u
    BY <2>2 DEF OutEdges
  <2>4. Subscripted(u)
    BY DEF Subscripted, AffineRead
  <2>5. g.def[u] \in InGroupTargets(a)
    BY <2>3, <2>4 DEF InGroupTargets
  <2> QED BY <2>5
<1> QED BY <1>1, <1>2, <1>3 DEF Chained

(* A target that is in the group has no edge to propagate. *)
LEMMA GroupRefuses ==
    ASSUME DInv, op = Idle, NEW a \in Array, NEW N, InGroupTargets(a) \cup OpaqueTargets(a) \subseteq N,
           NEW k \in PropEdges(a, N), scop.array[g.def[k[2]]] = a
    PROVE  OutRefused(g, N, g.def[k[2]])
<1> DEFINE t == g.def[k[2]]
<1>1. k \in OutEdges(Nodes(a)) /\ Subscripted(k[2]) /\ k \in Def \X Use /\ g.raw[k] # {} /\ GInv
  BY InvHolds DEF Held, PropEdges, OutEdges, Nodes, DInv
<1>2. t \in Def /\ g.dom[t] # {}
  BY <1>1, TargetExists DEF Idle
<1>3. t \in AffineTargets(a) \cap Nodes(a)
  <2>1. t \in AffineTargets(a)
    BY <1>1 DEF AffineTargets
  <2>2. t \in Nodes(a)
    BY <1>2 DEF Nodes, DInv, NodesOK
  <2> QED BY <2>1, <2>2
<1> HIDE DEF t
<1>4. ASSUME NEW u \in Use, g.raw[<<t, u>>] # {} PROVE g.def[u] \in N
  <2>1. <<t, u>> \in OutEdges(AffineTargets(a) \cap Nodes(a)) /\ <<t, u>> \in OutEdges(Nodes(a)) /\ <<t, u>>[2] = u
    BY <1>3, <1>4 DEF OutEdges
  <2>2. CASE Subscripted(u)
    <3>1. g.def[u] \in InGroupTargets(a)
      BY <2>1, <2>2 DEF InGroupTargets
    <3> QED BY <3>1
  <2>3. CASE ~ Subscripted(u)
    <3>1. g.def[u] \in OpaqueTargets(a)
      BY <2>1, <2>3 DEF OpaqueTargets
    <3> QED BY <3>1
  <2> QED BY <2>2, <2>3
<1> QED BY <1>4 DEF OutRefused, t

(* A group is taken up: its barriers are asked, and its targets planned. *)
LEMMA PropagateEdgesGroup ==
    ASSUME DInv, LoadInv, SourceOK, GroupOK, BarriersUnasked, NEW a \in Array, PropagateEdges(a)
    PROVE  GroupOK'
<1>1. /\ run.stage = "worklist" /\ op = Idle /\ run \in RunRecord /\ made \in SUBSET Def
      /\ run.src = NoDef /\ a \in run.groups /\ Dying = {} /\ ~ Propagating
  BY InvHolds DEF PropagateEdges, DInv, RunOK, SourceOK, Dying, Propagating, Held
<1>2. CASE Skip(a)
  <2>1. run' = [run EXCEPT !.groups = @ \ {a}] /\ UNCHANGED <<scop, g, made, stands>>
    BY <1>2 DEF Skip
  <2>2. run'.stage = "worklist" /\ run'.src = NoDef
    BY <1>1, <2>1 DEF RunRecord
  <2> QED BY <1>1, <2>1, <2>2, SameTakes, OutsideKeeps DEF InGroup, Propagating
<1>3. CASE ~ Skip(a)
  <2>1. PICK unworthy : Ask(PropEdges(a, NonPropTrgs(a, unworthy)))
                        /\ Plan(a, PropEdges(a, NonPropTrgs(a, unworthy)), NonPropTrgs(a, unworthy))
    BY <1>3 DEF PropagateEdges
  <2>2. PICK N : N = NonPropTrgs(a, unworthy)
    OBVIOUS
  <2>3. GroupAffine(CHOOSE d \in Nodes(a) : TRUE)
    BY <1>3 DEF PropagateEdges
  <2>4. InGroupTargets(a) \cup OpaqueTargets(a) \subseteq N
    BY <2>2 DEF NonPropTrgs
  <2>5. Taken /\ Ask(PropEdges(a, N))
    BY <2>1, <2>2, AskTakes
  <2> DEFINE K       == PropEdges(a, N)
             srcs    == Nodes(a) \ NonPropSrcs(a, N)
             trgs    == {g.def[k[2]] : k \in K}
             along(t) == {TargetDomain(k) : k \in {e \in K : e[1] \in srcs /\ g.def[e[2]] = t}}
             cuts    == [t \in Def |-> along(t)]
             splits  == [t \in Def |-> IF t \in trgs THEN <<g.dom[t]>> ELSE <<>>]
  <2>6. \/ run' = [run EXCEPT !.stage = "cut", !.groups = @ \ {a}, !.todo = srcs,
                              !.cuts = cuts, !.splits = splits, !.nonTrgs = N]
        \/ run' = [run EXCEPT !.groups = @ \ {a}]
    BY <2>1, <2>2 DEF Plan
  <2>7. srcs \in SUBSET Nodes(a) /\ \A t \in Def : splits[t] # <<>> => \E k \in K : t = g.def[k[2]]
    OBVIOUS
  <2> HIDE DEF srcs, trgs, cuts, splits
  <2>8. CASE run' = [run EXCEPT !.groups = @ \ {a}]
    <3>1. run'.stage = "worklist" /\ run'.src = NoDef
      BY <1>1, <2>8 DEF RunRecord
    <3> QED BY <1>1, <2>5, <3>1, OutsideKeeps DEF InGroup, Propagating
  <2>9. CASE run' = [run EXCEPT !.stage = "cut", !.groups = @ \ {a}, !.todo = srcs,
                                !.cuts = cuts, !.splits = splits, !.nonTrgs = N]
    <3>1. /\ run'.stage = "cut" /\ run'.src = NoDef /\ run'.todo = srcs
          /\ run'.splits = splits /\ run'.nonTrgs = N
      BY <1>1, <2>9 DEF RunRecord
    <3>2. /\ Unpropagated' = srcs /\ Dying' = {} /\ ~ Propagating' /\ Linked'
          /\ Unpropagated' \in SUBSET Nodes(a) /\ Unpropagated' \in SUBSET Def
          /\ \A d \in Nodes(a) : d \in Def /\ scop.array[d] = a
      BY <1>1, <2>7, <3>1, NoDefAssumption DEF Unpropagated, Dying, Propagating, Linked, Nodes
    <3>3. /\ g' \in Graph /\ Narrows(g, stands, g', stands') /\ made' = made /\ scop' = scop
          /\ Apart(g, made, scop)
      BY <2>5 DEF Taken, LoadInv, ReadsOK
    <3>4. Timed(g', made, stands', scop, Dying')
      <4>1. Carries(g, made, Dying, g', made, Dying')
        BY <1>1, <3>3, NarrowCarries
      <4> QED BY <1>1, <3>3, <4>1, NarrowTimed DEF GroupOK
    <3>5. Chained(g', stands', scop, N, Unpropagated')
      <4>1. Chained(g, stands, scop, N, Unpropagated')
        BY <1>1, <2>3, <2>4, <3>2, GroupChained
      <4> QED BY <3>2, <3>3, <4>1, NarrowChained
    <3>6. Asked'
      <4> SUFFICES ASSUME NEW d \in Unpropagated', ~ OutBarred(g', stands', scop, N, d)
                   PROVE  /\ WarTimes(g', d) \subseteq Barrier(g', d)
                          /\ SelfBarred(g', d) /\ OverwrittenSet(g', d) # {} => d \in must'
        BY <3>1, <3>3 DEF Asked
      <4>1. d \in Nodes(a) /\ d \in Def
        BY <3>2
      <4>2. ~ OutBarred(g, stands, scop, N, d)
        BY <3>3, <4>1, NarrowBarred
      <4> QED BY <1>1, <2>5, <4>1, <4>2, AskedEdges
    <3>7. Refusing'
      <4> SUFFICES ASSUME NEW t \in Def, NEW d \in Unpropagated', splits[t] # <<>>, scop.array[d] = scop.array[t]
                   PROVE  OutRefused(g', N, t)
        BY <3>1, <3>3 DEF Refusing
      <4>1. PICK k \in K : t = g.def[k[2]]
        BY <2>7
      <4>2. scop.array[g.def[k[2]]] = a
        BY <3>2, <4>1
      <4>3. OutRefused(g, N, t)
        BY <1>1, <2>4, <4>1, <4>2, GroupRefuses
      <4> QED BY <3>3, <4>3, NarrowBarred
    <3> QED BY <3>1, <3>2, <3>3, <3>4, <3>5, <3>6, <3>7 DEF GroupOK, InGroup
  <2> QED BY <2>6, <2>8, <2>9
<1> QED BY <1>2, <1>3

(* What was blocked stays so, and the pass does not go on once it was aborted. *)
LEMMA GroupProgress ==
    ASSUME DInv, [RunNext]_runVars
    PROVE  (run.blocked => run'.blocked) /\ (run.stage = "aborted" => run'.stage = "aborted")
<1>1. run \in RunRecord
  BY DEF DInv, RunOK
<1>2. ASSUME NEW d \in Def, RestrictNode(d) \/ Split(d) \/ PickSource(d)
      PROVE  (run.blocked => run'.blocked) /\ run.stage # "aborted"
  <2>1. CASE RestrictNode(d)
    BY <1>1, <2>1 DEF RestrictNode, RunRecord
  <2>2. CASE PickSource(d)
    BY <1>1, <2>2, PickSourceFacts DEF PickSource
  <2>3. CASE Split(d)
    <3>1. PICK x, y : run' = [run EXCEPT !.splits = x, !.todo = y]
      BY <2>3 DEF Split
    <3> QED BY <1>1, <2>3, <3>1 DEF Split, RunRecord
  <2> QED BY <1>2, <2>1, <2>2, <2>3
<1>3. ASSUME NEW a \in Array, PropagateEdges(a)
      PROVE  (run.blocked => run'.blocked) /\ run.stage # "aborted"
  <2>1. \/ run' = [run EXCEPT !.groups = @ \ {a}]
        \/ \E s, c, p, n : run' = [run EXCEPT !.stage = "cut", !.groups = @ \ {a}, !.todo = s,
                                              !.cuts = c, !.splits = p, !.nonTrgs = n]
    BY <1>3 DEF PropagateEdges, Skip, Plan
  <2> QED BY <1>1, <1>3, <2>1 DEF PropagateEdges, RunRecord
<1>4. CASE CutTarget
  <2>1. PICK s, c : run' = [run EXCEPT !.splits = s, !.cuts = c]
    BY <1>4 DEF CutTarget
  <2> QED BY <1>1, <1>4, <2>1 DEF CutTarget, RunRecord
<1>5. CASE StartSplits
  <2>1. PICK p : run' = [run EXCEPT !.stage = "split", !.partial = p,
                                    !.blocked = @ \/ \E k \in OutEdges(run.todo) : ~ Unblocked(k)]
    BY <1>5 DEF StartSplits
  <2> QED BY <1>1, <1>5, <2>1 DEF StartSplits, AllCut, RunRecord
<1>6. CASE GiveUp \/ EndLoop \/ StartPropagation \/ Abort \/ FinishGroup \/ EndWorklist
  BY <1>1, <1>6 DEF GiveUp, AllCut, EndLoop, StartPropagation, Abort, FinishGroup, EndWorklist, RunRecord
<1>7. CASE FinishEdge \/ FinishSource
  BY <1>1, <1>7 DEF FinishEdge, FinishSource, RunRecord
<1>8. CASE \E k \in Def \X Use : PropagateEdge(k)
  <2>1. PICK k \in Def \X Use : /\ run.stage = "propagate"
                               /\ run' = [run EXCEPT !.stage = "reload", !.edge = k,
                                                     !.loads = g.ops[k[1]] \ {k[2]}]
    BY <1>8 DEF PropagateEdge
  <2> QED BY <1>1, <2>1 DEF RunRecord
<1>9. CASE \E o \in Use : ReloadOperand(o)
  <2>1. PICK o \in Use : run' = [run EXCEPT !.loads = @ \ {o}]
    BY <1>9 DEF ReloadOperand
  <2> QED BY <1>1, <2>1 DEF RunRecord
<1>10. CASE ((VisitEdge \/ NextPhase) /\ UNCHANGED <<run, made, stands>>) \/ Finished \/ UNCHANGED runVars
  BY <1>10 DEF Finished, runVars
<1> QED BY <1>2, <1>3, <1>4, <1>5, <1>6, <1>7, <1>8, <1>9, <1>10 DEF RunNext

LEMMA RunGroup == DInv /\ LoadInv /\ SourceOK /\ BarriersUnasked /\ GroupInv /\ [RunNext]_runVars => GroupInv'
<1> SUFFICES ASSUME DInv, LoadInv, SourceOK, BarriersUnasked, GroupInv, [RunNext]_runVars,
                    run'.stage # "aborted", ~ run'.blocked
             PROVE  GroupOK'
  BY DEF GroupInv
<1>1. GroupOK
  BY GroupProgress DEF GroupInv
<1>2. ASSUME NEW d \in Def, RestrictNode(d) \/ Split(d) \/ PickSource(d) PROVE GroupOK'
  BY <1>1, <1>2, LoopGroup, SplitGroup, PickSourceGroup
<1>3. CASE \E a \in Array : PropagateEdges(a)
  BY <1>1, <1>3, PropagateEdgesGroup
<1>4. CASE CutTarget \/ GiveUp \/ StartSplits
  BY <1>1, <1>4, CutTargetGroup, LoopGroup, StartSplitsGroup
<1>5. CASE (\E k \in Def \X Use : PropagateEdge(k)) \/ \E o \in Use : ReloadOperand(o)
  BY <1>1, <1>5, PropagateEdgeGroup, ReloadGroup
<1>6. CASE EndLoop \/ StartPropagation \/ FinishEdge \/ FinishSource \/ FinishGroup \/ EndWorklist
  BY <1>1, <1>6, LoopGroup, PropagationGroup, FinishEdgeGroup, FinishSourceGroup
<1>7. CASE Abort
  BY <1>7 DEF Abort, DInv, RunOK, RunRecord
<1>8. CASE ((VisitEdge \/ NextPhase) /\ UNCHANGED <<run, made, stands>>) \/ UNCHANGED runVars \/ Finished
  BY <1>1, <1>8, VisitGroup DEF Finished
<1> QED BY <1>2, <1>3, <1>4, <1>5, <1>6, <1>7, <1>8 DEF RunNext

-----------------------------------------------------------------------------
(* A read of the program runs before any write that overwrites what it reads. *)
LEMMA InitTimed == ASSUME RunInit PROVE Timed(g, made, stands, scop, {})
<1>1. scop \in Scops /\ g = CreateDependenceGraph(scop) /\ made \subseteq Def
  BY DEF RunInit, Init
<1>2. g \in Graph /\ g.def = scop.def
  BY <1>1, CreateFacts, ScopsAssumption
<1>3. Behind(g, stands, scop)
  BY InitLoads DEF ReadsOK
<1> SUFFICES ASSUME NEW u \in Use, g.def[u] \in Def, NEW j \in g.dom[g.def[u]]
             PROVE  Punctual(g, made, stands, scop, {}, g.def[u], j, u, j)
  BY DEF Timed
<1>4. j \in Inst
  BY <1>2 DEF Graph
<1>5. ASSUME NEW v \in stands[u][j], NEW p \in Overwrites(scop, v)
      PROVE  TimeOf(scop, <<g.def[u], j>>) <= TimeOf(scop, p)
  <2>1. v = <<u, j>>
    BY <1>4 DEF RunInit
  <2>2. ReaderOf(scop, v) = <<g.def[u], j>>
    BY <1>2, <2>1 DEF ReaderOf
  <2> QED BY <2>2 DEF Overwrites
<1>6. \A v \in stands[u][j] : Timely(g, made, scop, {}, g.def[u], j, {v}, FirstOverwrites(scop, v))
  BY <1>5 DEF Timely, FirstOverwrites
<1>7. ASSUME NEW p \in Awaited(g, made, u, j) PROVE TimeOf(scop, <<g.def[u], j>>) <= TimeOf(scop, p)
  <2>1. p = <<p[1], p[2]>> /\ p[2] \in Inst
    BY PairFacts DEF Awaited
  <2>2. PICK e \in made : Orig[e] = p[1] /\ <<j, p[2]>> \in g.war[<<u, e>>]
    BY DEF Awaited
  <2>3. \E v \in stands[u][j] : <<Orig[e], p[2]>> \in Overwrites(scop, v)
    BY <1>1, <1>3, <1>4, <2>1, <2>2 DEF Behind
  <2> QED BY <1>5, <2>1, <2>2, <2>3
<1>8. Timely(g, made, scop, {}, g.def[u], j, stands[u][j], Awaited(g, made, u, j))
  BY <1>7 DEF Timely
<1> QED BY <1>6, <1>8 DEF Punctual

LEMMA InitGroup == RunInit => SourceOK /\ GroupOK /\ BarriersUnasked
<1> SUFFICES ASSUME RunInit PROVE SourceOK /\ GroupOK /\ BarriersUnasked
  OBVIOUS
<1>1. /\ run.stage = "create" /\ run.src = NoDef /\ run.edges = {} /\ run.nonTrgs = {}
      /\ \A t \in Def : run.splits[t] = <<>>
  BY DEF RunInit
<1>2. SourceOK
  BY <1>1 DEF SourceOK
<1>3. Dying = {} /\ ~ InGroup /\ ~ Propagating /\ Linked
  BY <1>1, NoDefAssumption DEF Dying, InGroup, Propagating, Linked
<1>4. GroupOK
  BY <1>1, <1>3, InitTimed DEF GroupOK, InGroup
<1>5. BarriersUnasked
  BY ScopsAssumption, CreateFacts DEF RunInit, Init, BarriersUnasked
<1> QED BY <1>2, <1>4, <1>5

(* Between two groups nothing dies any more: the operands are loaded in time. *)
LEMMA TimedLoads == ASSUME DInv, GroupInv PROVE LoadsSameValueUnlessBlocked
<1> SUFFICES ASSUME ~ run.blocked, BetweenGroups, NEW d \in made, NEW u \in g.ops[d], NEW j \in g.dom[d],
                    NEW v \in stands[u][j], NEW p \in FirstOverwrites(scop, v), Exists(p)
             PROVE  At(<<d, j>>) <= At(p) \/ OwnLastWrite(v, p)
  BY DEF LoadsSameValueUnlessBlocked, LoadsSameValue
<1>1. run.stage \in {"worklist", "delete", "done"} /\ op = Idle
  BY DEF BetweenGroups
<1>2. d \in Def /\ u \in Use /\ g.def[u] = d
  <2>1. OpsAre(g) /\ g \in Graph /\ d \in Def
    BY <1>1, InvHolds DEF Held
  <2>2. u \in Use
    BY <2>1 DEF Graph
  <2> QED BY <2>1, <2>2 DEF OpsAre
<1>3. Dying = {} /\ GroupOK
  BY <1>1 DEF Dying, Propagating, GroupInv
<1>4. Timely(g, made, scop, {}, d, j, {v}, FirstOverwrites(scop, v))
  BY <1>2, <1>3 DEF GroupOK, Timed, Punctual
<1>5. PICK e \in made : Orig[e] = p[1] /\ p[2] \in g.dom[e]
  BY DEF Exists
<1>6. \/ TimeOf(scop, <<d, j>>) <= TimeOf(scop, p)
      \/ /\ \E x \in made : /\ Orig[x] = p[1] /\ p[2] \in g.dom[x] /\ p[2] \notin WawDomain(g, x)
         /\ Updates(scop, v, p)
  BY <1>4, <1>5 DEF Timely
<1> QED BY <1>6 DEF At, OwnLastWrite, Updates

(***************************************************************************)
(* The barriers do what they are for (getRecomputeDomain, MustDeleteNodes, *)
(* hasInGroupDef): unless a blocked use was propagated, between two groups *)
(* every operand is loaded before the first write that overwrites what it  *)
(* stands for, or that write is the last of its cell and depends on it.    *)
(***************************************************************************)
THEOREM LoadsSameCorrect == RunSpec => []LoadsSameValueUnlessBlocked
<1>1. RunInit => LoadInv /\ SourceOK /\ GroupInv /\ BarriersUnasked
  BY InitLoads, InitGroup DEF LoadInv, GroupInv
<1>2. DInv /\ GroupInv => LoadsSameValueUnlessBlocked
  BY TimedLoads
<1>3. DInv /\ LoadInv /\ SourceOK /\ BarriersUnasked /\ GroupInv /\ [RunNext]_runVars
         => LoadInv' /\ SourceOK' /\ BarriersUnasked' /\ GroupInv'
  BY RunReads, RunSource, RunUnasked, RunGroup
<1> QED BY <1>1, <1>2, <1>3, RunInvariance, PTL DEF RunSpec

-----------------------------------------------------------------------------
(***************************************************************************)
(* A barrier that decides is not stale: it was first asked for when the    *)
(* group was taken up (BarriersUnasked), and nothing has changed since.    *)
(***************************************************************************)
CutAsked ==
    run.stage = "cut" => \A d \in run.todo : d \in Def /\ g.barrier[d] \in {Miss, WarTimes(g, d)}

LEMMA PropagateEdgesCut ==
    ASSUME DInv, BarriersUnasked, NEW a \in Array, PropagateEdges(a)
    PROVE  CutAsked'
<1>1. /\ run.stage = "worklist" /\ a \in run.groups /\ run \in RunRecord
      /\ g \in Graph /\ made \subseteq Def
  BY DEF PropagateEdges, DInv, GInv, IInv, TypeOK, RunOK, NodesOK
<1>2. CASE Skip(a)
  BY <1>1, <1>2 DEF Skip, RunRecord, CutAsked
<1>3. ASSUME NEW nonTrgs, Ask(PropEdges(a, nonTrgs)), Plan(a, PropEdges(a, nonTrgs), nonTrgs)
      PROVE  CutAsked'
  <2> DEFINE D    == {k[1] : k \in PropEdges(a, nonTrgs)}
             srcs == Nodes(a) \ NonPropSrcs(a, nonTrgs)
  <2>1. g' = AskBarriers(g, D)
    BY <1>3 DEF Ask
  <2>2. run'.stage = "cut" => run'.todo = srcs
    BY <1>1, <1>3 DEF Plan, RunRecord
  <2>3. ASSUME NEW d \in srcs PROVE d \in Def /\ g.barrier[d] = Miss
    BY <1>1, <2>3 DEF Nodes, BarriersUnasked
  <2> HIDE DEF D, srcs
  <2> SUFFICES ASSUME NEW d \in srcs PROVE d \in Def /\ g'.barrier[d] \in {Miss, WarTimes(g', d)}
    BY <2>2 DEF CutAsked
  <2>4. d \in Def /\ g.barrier[d] = Miss
    BY <2>3
  <2>5. FillBarrier(g, d).barrier[d] \in {Miss, WarTimes(g, d)}
    BY <1>1, <2>4 DEF FillBarrier, Barrier, Graph
  <2>6. g'.barrier[d] \in {FillBarrier(g, d).barrier[d], g.barrier[d]} /\ g'.ops = g.ops /\ g'.war = g.war
    BY <1>1, <2>1, <2>4 DEF AskBarriers, Graph
  <2>7. WarTimes(g', d) = WarTimes(g, d)
    BY <2>6 DEF WarTimes
  <2> QED BY <2>4, <2>5, <2>6, <2>7
<1> QED BY <1>2, <1>3 DEF PropagateEdges

LEMMA RunCut == DInv /\ SourceOK /\ BarriersUnasked /\ CutAsked /\ [RunNext]_runVars => CutAsked'
<1> SUFFICES ASSUME DInv, SourceOK, BarriersUnasked, CutAsked, [RunNext]_runVars PROVE CutAsked'
  OBVIOUS
<1>1. run \in RunRecord
  BY DEF DInv, RunOK
<1>2. CASE \E a \in Array : PropagateEdges(a)
  BY <1>2, PropagateEdgesCut
<1>3. CASE CutTarget
  <2>1. g' = g
    BY <1>3 DEF CutTarget
  <2>2. PICK D, t : run' = [run EXCEPT !.splits[t] = Cut(@, D), !.cuts[t] = @ \ {D}]
    BY <1>3 DEF CutTarget
  <2>3. run'.stage = run.stage /\ run'.todo = run.todo
    BY <1>1, <2>2 DEF RunRecord
  <2> QED BY <2>1, <2>3 DEF CutAsked
<1>4. CASE (VisitEdge \/ NextPhase) /\ UNCHANGED <<run, made, stands>>
  <2>1. op # Idle /\ run' = run
    BY <1>4 DEF VisitEdge, NextPhase, Idle
  <2> QED BY <2>1 DEF SourceOK, CutAsked
<1>5. CASE UNCHANGED runVars \/ Finished
  BY <1>5 DEF runVars, Finished, CutAsked
<1>6. ASSUME run'.stage # "cut" PROVE CutAsked'
  BY <1>6 DEF CutAsked
<1>7. CASE \E d \in Def : RestrictNode(d) \/ PickSource(d)
  BY <1>1, <1>6, <1>7 DEF RestrictNode, PickSource, RunRecord
<1>8. CASE EndLoop \/ GiveUp \/ StartSplits \/ StartPropagation
  BY <1>1, <1>6, <1>8 DEF EndLoop, GiveUp, StartSplits, StartPropagation, RunRecord
<1>9. CASE Abort \/ FinishEdge \/ FinishSource \/ FinishGroup \/ EndWorklist
  BY <1>1, <1>6, <1>9 DEF Abort, FinishEdge, FinishSource, FinishGroup, EndWorklist, RunRecord
<1>10. CASE \E t \in Def : Split(t)
  BY <1>1, <1>6, <1>10 DEF Split, RunRecord
<1>11. CASE \E k \in Def \X Use : PropagateEdge(k)
  BY <1>1, <1>6, <1>11 DEF PropagateEdge, RunRecord
<1>12. CASE \E o \in Use : ReloadOperand(o)
  BY <1>1, <1>6, <1>12 DEF ReloadOperand, RunRecord
<1> QED BY <1>2, <1>3, <1>4, <1>5, <1>7, <1>8, <1>9, <1>10, <1>11, <1>12 DEF RunNext

LEMMA CutSees == ASSUME DInv, LoadInv, CutAsked PROVE BarrierSeesOverwrites
<1> SUFFICES ASSUME run.stage = "cut", NEW d \in run.todo, NEW o \in g.ops[d], NEW i \in g.dom[d],
                    NEW v \in stands[o][i], NEW p \in FirstOverwrites(scop, v), Exists(p)
             PROVE  \E b \in Barrier(g, d) : b[1] = i /\ At(b[2]) = At(p)
  BY DEF BarrierSeesOverwrites
<1>1. d \in Def /\ g.barrier[d] \in {Miss, WarTimes(g, d)} /\ g \in Graph /\ made \subseteq Def
  BY DEF CutAsked, DInv, GInv, IInv, TypeOK, NodesOK
<1>2. PICK e \in made : Orig[e] = p[1] /\ p[2] \in g.dom[e]
  BY DEF Exists
<1>3. e \in Def /\ p[2] \in Inst /\ i \in Inst
  BY <1>1, <1>2 DEF Graph
<1>4. <<i, p[2]>> \in g.war[<<o, e>>]
  BY <1>1, <1>2 DEF LoadInv, ReadsOK, Waits
<1> DEFINE b == <<i, <<e, p[2]>>>>
<1>5. b[1] = i /\ b[2] = <<e, p[2]>> /\ b[2][1] = e /\ b[2][2] = p[2] /\ b \in Inst \X (Def \X Inst)
  BY <1>3
<1> HIDE DEF b
<1>6. b \in Barrier(g, d)
  BY <1>1, <1>4, <1>5 DEF Barrier, WarTimes
<1>7. At(b[2]) = At(p)
  <2>1. scop \in Scops
    BY InvHolds DEF Held
  <2>2. scop.time[e] = scop.time[p[1]]
    BY <1>2, <1>3, <2>1, CopiesAssumption
  <2> QED BY <1>5, <2>2 DEF At, TimeOf
<1> QED BY <1>5, <1>6, <1>7

(***************************************************************************)
(* The barriers decide rightly: when the targets of a group are cut, the   *)
(* barrier of a source names, for every operand and wherever it was moved, *)
(* the write that first overwrites what the operand stands for, if that    *)
(* write, or a copy of it, is still executed.  The argument is that the    *)
(* edges of reloads and splits keep these writes (Waits) and that no cache *)
(* filled earlier is asked again (CutAsked).                               *)
(***************************************************************************)
THEOREM BarrierSeesCorrect == RunSpec => []BarrierSeesOverwrites
<1>1. RunInit => LoadInv /\ SourceOK /\ BarriersUnasked /\ CutAsked
  BY InitLoads, InitGroup DEF LoadInv, CutAsked, RunInit
<1>2. DInv /\ LoadInv /\ CutAsked => BarrierSeesOverwrites
  BY CutSees
<1>3. DInv /\ LoadInv /\ SourceOK /\ BarriersUnasked /\ CutAsked /\ [RunNext]_runVars
         => LoadInv' /\ SourceOK' /\ BarriersUnasked' /\ CutAsked'
  BY RunReads, RunSource, RunUnasked, RunCut
<1> QED BY <1>1, <1>2, <1>3, RunInvariance, PTL DEF RunSpec

=============================================================================
