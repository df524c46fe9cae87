-------------------------- MODULE DependenceGraph --------------------------
(***************************************************************************)
(* The dependence graph the expression propagation works on: DefNode,      *)
(* UseNode and Edge of ExpressionPropagation.h.                            *)
(*                                                                         *)
(* The graph g is a record.  An edge is keyed by its two end nodes and     *)
(* carries the map of dependent instances; the code registers an edge at   *)
(* both ends and deletes it once its map is empty, so an edge that does    *)
(* not exist is one whose map is empty.  Each DefNode caches three sets    *)
(* that its edges determine.  A cache is filled when it is read, patched   *)
(* or freed when an edge grows (notifyEdgeMore) or shrinks                 *)
(* (notifyEdgeLess), and Miss when it has no value.                        *)
(*                                                                         *)
(*   g.dom      domain of each DefNode                                     *)
(*   g.def      DefNode of each UseNode (UseNode::Def)                     *)
(*   g.ops      operands of each DefNode                                   *)
(*   g.raw, g.war, g.waw   the edges                                       *)
(*   g.used     cache of the instances some read depends on                *)
(*   g.over     cache of the instances a later write overwrites            *)
(*   g.barrier  cache of the writes that must stay behind an operand; a    *)
(*              write instance stands for the time its schedule gives it   *)
(***************************************************************************)
EXTENDS DependenceInfo

CONSTANT Miss   \* the value of a cache that is not filled

Cache(S) == {Miss} \cup SUBSET S

Graph == [dom     : [Def -> SUBSET Inst],
          def     : [Use -> Def \cup {NoDef}],
          ops     : [Def -> SUBSET Use],
          raw     : [Def \X Use -> Map],
          war     : [Use \X Def -> Map],
          waw     : [Def \X Def -> Map],
          used    : [Def -> Cache(Inst)],
          over    : [Def -> Cache(Inst)],
          barrier : [Def -> Cache(Inst \X (Def \X Inst))]]

-----------------------------------------------------------------------------
(***************************************************************************)
(* What the caches stand for.                                              *)
(***************************************************************************)
RawDomain(g, d) == {i \in Inst : \E u \in Use : \E j \in Inst : <<i, j>> \in g.raw[d, u]}
WawDomain(g, d) == {i \in Inst : \E e \in Def : \E j \in Inst : <<i, j>> \in g.waw[d, e]}
WarTimes(g, d)  == {b \in Inst \X (Def \X Inst) :
                      \E u \in g.ops[d] : <<b[1], b[2][2]>> \in g.war[u, b[2][1]]}

UsedDomain(g, d)     == IF g.used[d] = Miss THEN RawDomain(g, d) ELSE g.used[d]
OverwrittenSet(g, d) == IF g.over[d] = Miss THEN WawDomain(g, d) ELSE g.over[d]
Barrier(g, d)        == IF g.barrier[d] = Miss THEN WarTimes(g, d) ELSE g.barrier[d]

FillUsed(g, d) == [g EXCEPT !.used[d] = UsedDomain(g, d)]
FillOver(g, d) == [g EXCEPT !.over[d] = OverwrittenSet(g, d)]

(* An empty barrier is never stored: the null map stays null. *)
FillBarrier(g, d) ==
    IF Barrier(g, d) = {} THEN g ELSE [g EXCEPT !.barrier[d] = Barrier(g, d)]

(***************************************************************************)
(* The instances of d whose operands read the cell d itself overwrites.    *)
(***************************************************************************)
SelfWAR(g, d) == {p \in Inst \X Inst : \E u \in Use : g.def[u] = d /\ p \in g.war[u, d]}

-----------------------------------------------------------------------------
(***************************************************************************)
(* addEdge and addDep: the edges grow by new, a map for every key.  An     *)
(* edge that already covers its part of new is left alone and notifies     *)
(* nobody.                                                                 *)
(***************************************************************************)
GrowRaw(g, new) ==
    LET raw  == [k \in Def \X Use |-> g.raw[k] \cup new[k]]
        grew(d) == {u \in Use : raw[d, u] # g.raw[d, u]}
    IN  [g EXCEPT
          !.raw  = raw,
          !.used = [d \in Def |->
                      IF g.used[d] = Miss THEN Miss
                      ELSE g.used[d] \cup
                           {i \in Inst : \E u \in grew(d) : \E j \in Inst : <<i, j>> \in raw[d, u]}]]

GrowWaw(g, new) ==
    LET waw == [k \in Def \X Def |-> g.waw[k] \cup new[k]]
    IN  [g EXCEPT
          !.waw  = waw,
          !.over = [d \in Def |-> IF \E e \in Def : waw[d, e] # g.waw[d, e]
                                  THEN Miss ELSE g.over[d]]]

(* addToBarrier tests UsedDomain where it would have to test Barrier. *)
GrowWar(g, new) ==
    LET war == [k \in Use \X Def |-> g.war[k] \cup new[k]]
        grew(d) == {k \in Use \X Def : g.def[k[1]] = d /\ war[k] # g.war[k]}
    IN  [g EXCEPT
          !.war     = war,
          !.barrier = [d \in Def |->
                         IF g.used[d] = Miss \/ g.barrier[d] = Miss THEN g.barrier[d]
                         ELSE g.barrier[d] \cup
                              {b \in Inst \X (Def \X Inst) :
                                 \E k \in grew(d) : k[2] = b[2][1] /\ <<b[1], b[2][2]>> \in war[k]}]]

-----------------------------------------------------------------------------
(***************************************************************************)
(* intersectDomain and intersectRange: edge k loses the pairs that start,  *)
(* or end, outside D.  The notification connects the nodes on both sides   *)
(* of what was lost, so that the order they were kept in survives.         *)
(***************************************************************************)
LostDomain(R, D) == {p \in R : p[1] \notin D}
LostRange(R, D)  == {p \in R : p[2] \notin D}

(* Mutant: the order through the lost pairs is forgotten. *)
ShrinkWawDomainUnchained(g, k, D) == [g EXCEPT !.waw[k] = @ \ LostDomain(@, D), !.over[k[1]] = Miss]

(* R0 -WAR- SRC and W0 -WAW- SRC continue to the target of the lost pairs. *)
ShrinkWawDomain(g, k, D) ==
    LET lost == LostDomain(g.waw[k], D)
        cut  == [g EXCEPT !.waw[k] = @ \ lost]
        past == GrowWaw(cut, [e \in Def \X Def |->
                  IF e[2] = k[2] THEN Compose(cut.waw[e[1], k[1]], lost) ELSE {}])
        ante == GrowWar(past, [e \in Use \X Def |->
                  IF e[2] = k[2] THEN Compose(past.war[e[1], k[1]], lost) ELSE {}])
    IN  IF lost = {} THEN g ELSE [ante EXCEPT !.over[k[1]] = Miss]

(* Mutant: the overwritten set is not freed. *)
ShrinkWawRangeStale(g, k, D) ==
    LET lost == LostRange(g.waw[k], D)
        cut  == [g EXCEPT !.waw[k] = @ \ lost]
    IN  GrowWaw(cut, [e \in Def \X Def |->
            IF e[1] = k[1] THEN Compose(lost, cut.waw[k[2], e[2]]) ELSE {}])

(* SRC continues to what its target was followed by. *)
ShrinkWawRange(g, k, D) ==
    LET lost == LostRange(g.waw[k], D)
        cut  == [g EXCEPT !.waw[k] = @ \ lost]
        next == GrowWaw(cut, [e \in Def \X Def |->
                  IF e[1] = k[1] THEN Compose(lost, cut.waw[k[2], e[2]]) ELSE {}])
    IN  IF lost = {} THEN g ELSE [next EXCEPT !.over[k[1]] = Miss]

(* W0 -WAW- SRC becomes the source the target reads from. *)
ShrinkRawDomain(g, k, D) ==
    LET lost == LostDomain(g.raw[k], D)
        cut  == [g EXCEPT !.raw[k] = @ \ lost]
        past == GrowRaw(cut, [e \in Def \X Use |->
                  IF e[2] = k[2] THEN Compose(cut.waw[e[1], k[1]], lost) ELSE {}])
    IN  IF lost = {} \/ past.used[k[1]] = Miss THEN past
        ELSE [past EXCEPT !.used[k[1]] = @ \cap g.dom[k[1]]]

(* Mutant: the used domain is not freed. *)
ShrinkRawRangeStale(g, k, D) ==
    LET lost == LostRange(g.raw[k], D)
        cut  == [g EXCEPT !.raw[k] = @ \ lost]
    IN  GrowWaw(cut, [e \in Def \X Def |->
            IF e[1] = k[1] THEN Compose(lost, cut.war[k[2], e[2]]) ELSE {}])

(* SRC is followed by the writes its reader had to precede. *)
ShrinkRawRange(g, k, D) ==
    LET lost == LostRange(g.raw[k], D)
        cut  == [g EXCEPT !.raw[k] = @ \ lost]
        next == GrowWaw(cut, [e \in Def \X Def |->
                  IF e[1] = k[1] THEN Compose(lost, cut.war[k[2], e[2]]) ELSE {}])
    IN  IF lost = {} THEN g ELSE [next EXCEPT !.used[k[1]] = Miss]

(* Mutant: the pairs are cut at the end of the read. *)
ShrinkWarRangeStart(g, k, D) ==
    [g EXCEPT !.war[k] = @ \ LostDomain(@, D), !.barrier[g.def[k[1]]] = Miss]

(* A read that has fewer writes to precede: the barrier is freed. *)
ShrinkWarRange(g, k, D) ==
    [g EXCEPT !.war[k] = @ \ LostRange(@, D), !.barrier[g.def[k[1]]] = Miss]

(* The barrier is kept unless the edge disappears. *)
ShrinkWarDomain(g, k, D) ==
    LET left == g.war[k] \ LostDomain(g.war[k], D)
        cut  == [g EXCEPT !.war[k] = left]
    IN  IF left = {} THEN [cut EXCEPT !.barrier[g.def[k[1]]] = Miss] ELSE cut

-----------------------------------------------------------------------------
(***************************************************************************)
(* createDependenceGraph: the edges are the dependences of the Scop, a     *)
(* read precedes the write of its own instance to the same cell, and only  *)
(* the overwritten set has been read by the time the graph is complete.    *)
(***************************************************************************)
SelfEdges(s) ==
    [k \in Use \X Def |->
        IF s.def[k[1]] = k[2] /\ s.array[k[1]] = s.array[k[2]]
        THEN {<<i, i>> : i \in {j \in s.dom[k[2]] :
                                  s.cells[k[1]][j] \cap s.cells[k[2]][j] # {}}}
        ELSE {}]

CreateDependenceGraph(s) ==
    LET edges == [dom     |-> s.dom,
                  def     |-> s.def,
                  ops     |-> [d \in Def |-> {u \in Use : s.def[u] = d}],
                  raw     |-> RAW(s),
                  war     |-> WAR(s),
                  waw     |-> WAW(s),
                  used    |-> [d \in Def |-> Miss],
                  over    |-> [d \in Def |-> Miss],
                  barrier |-> [d \in Def |-> Miss]]
    IN  GrowWar([edges EXCEPT !.over = [d \in Def |-> WawDomain(edges, d)]], SelfEdges(s))
=============================================================================
