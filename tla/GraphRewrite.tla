---------------------------- MODULE GraphRewrite ----------------------------
(***************************************************************************)
(* What a propagation does to the dependence graph: how much of an edge    *)
(* may be recomputed at its target (getRecomputeDomain), how a target is   *)
(* split in two (splitUsingDefNode) and how the read at the target is      *)
(* replaced by the operands of the source (propagateEdge).  s is the Scop, *)
(* h the graph, k an edge.  A copy of a statement keeps its schedule.      *)
(***************************************************************************)
EXTENDS DependenceGraph

TimeOf(s, p) == s.time[p[1]][p[2]]

EdgeDomain(R) == {p[1] : p \in R}
EdgeRange(R)  == {p[2] : p \in R}

(* The instances of the source the edge may be recomputed from if it does not overwrite itself. *)
PropDomain(h, k) ==
    LET d     == k[1]
        self  == EdgeRange(SelfWAR(h, d))
        other == UNION {EdgeDomain(h.raw[d, u]) \cap self : u \in Use \ {k[2]}}
        over  == OverwrittenSet(h, d)
    IN  (EdgeDomain(h.raw[k]) \ other) \cap (IF over = {} THEN Inst ELSE over)

(* Mutant: no barrier is consulted. *)
RecomputeUsesUnbarred(s, h, k) == h.raw[k]

(***************************************************************************)
(* The pairs of an edge that are not blocked: no write that must stay      *)
(* behind an operand of the source runs before the use.  What is blocked   *)
(* is a point in time, for all source instances.                           *)
(***************************************************************************)
RecomputeUses(s, h, k) ==
    LET d    == k[1]
        e    == h.def[k[2]]
        self == SelfWAR(h, d) # {}
        uses == {p \in h.raw[k] : /\ p[1] \in h.dom[d] /\ p[2] \in h.dom[e]
                                  /\ self => p[1] \in PropDomain(h, k)}
        stay == {b \in Barrier(h, d) : self => TimeOf(s, b[2]) # TimeOf(s, <<d, b[1]>>)}
        blocked == {TimeOf(s, <<e, p[2]>>) : p \in {q \in uses :
                      \E b \in stay : b[1] = q[1] /\ TimeOf(s, b[2]) < TimeOf(s, <<e, q[2]>>)}}
    IN  IF Barrier(h, d) = {} THEN h.raw[k]
        ELSE {p \in uses : TimeOf(s, <<e, p[2]>>) \notin blocked}

(* Only the source instances are returned: one use that is not blocked is enough. *)
RecomputeDomain(s, h, k) == EdgeDomain(RecomputeUses(s, h, k))

(***************************************************************************)
(* What getRecomputeDomain leaves behind when it is asked about an edge of *)
(* each d in D: the nodes it wants deleted and the caches it filled.       *)
(***************************************************************************)
SelfBarred(h, d) == Barrier(h, d) # {} /\ SelfWAR(h, d) # {}

MustDelete(h, D) == {d \in D : SelfBarred(h, d) /\ OverwrittenSet(h, d) # {}}

AskBarriers(h, D) ==
    [h EXCEPT !.barrier = [d \in Def |-> IF d \in D THEN FillBarrier(h, d).barrier[d] ELSE @[d]],
              !.over    = [d \in Def |-> IF d \in D /\ SelfBarred(h, d) THEN OverwrittenSet(h, d)
                                         ELSE @[d]]]

-----------------------------------------------------------------------------
(***************************************************************************)
(* splitEdge and the copy constructor of DefNode: statement d keeps the    *)
(* instances in keep and its copy c gets the others; twin maps each        *)
(* operand of d to its copy.  A pair of dependent instances goes where its *)
(* instances went, at both ends.  Nobody is notified and the copy starts   *)
(* with empty caches.  Edges of reads only relate instances that exist.    *)
(***************************************************************************)
TwinOf(twin, u) == CHOOSE o \in DOMAIN twin : twin[o] = u

(* Mutant: the copy loses what it depends on itself for. *)
SplitDefNoSelf(h, d, c, keep, twin) ==
    LET left   == h.dom[d] \ keep
        twins  == {twin[o] : o \in DOMAIN twin}
        copies == {c} \cup twins
        was(n) == IF n = c THEN d ELSE IF n \in twins THEN TwinOf(twin, n) ELSE n
        has(n, i) == IF n = d \/ n \in DOMAIN twin THEN i \in keep
                     ELSE IF n \in copies THEN i \in left ELSE TRUE
        part(m, k) == IF {k[1], k[2]} \subseteq copies THEN {}
                      ELSE {p \in m[was(k[1]), was(k[2])] : has(k[1], p[1]) /\ has(k[2], p[2])}
    IN  [h EXCEPT !.dom[c] = left,
                  !.ops[c] = twins,
                  !.used[c] = Miss, !.over[c] = Miss, !.barrier[c] = Miss,
                  !.def    = [u \in Use |-> IF u \in twins THEN c ELSE @[u]],
                  !.raw    = [k \in Def \X Use |-> part(h.raw, k)],
                  !.war    = [k \in Use \X Def |-> part(h.war, k)],
                  !.waw    = [k \in Def \X Def |-> part(h.waw, k)]]

SplitDef(h, d, c, keep, twin) ==
    LET left   == h.dom[d] \ keep
        twins  == {twin[o] : o \in DOMAIN twin}
        was(n) == IF n = c THEN d ELSE IF n \in twins THEN TwinOf(twin, n) ELSE n
        has(n, i) == IF n = d \/ n \in DOMAIN twin THEN i \in keep
                     ELSE IF n = c \/ n \in twins THEN i \in left ELSE TRUE
        part(m, k) == {p \in m[was(k[1]), was(k[2])] : has(k[1], p[1]) /\ has(k[2], p[2])}
    IN  [h EXCEPT !.dom[c] = left,
                  !.ops[c] = twins,
                  !.used[c] = Miss, !.over[c] = Miss, !.barrier[c] = Miss,
                  !.def    = [u \in Use |-> IF u \in twins THEN c ELSE @[u]],
                  !.raw    = [k \in Def \X Use |-> part(h.raw, k)],
                  !.war    = [k \in Use \X Def |-> part(h.war, k)],
                  !.waw    = [k \in Def \X Def |-> part(h.waw, k)]]

-----------------------------------------------------------------------------
(* Mutant: the edges of the operand stay. *)
RemoveOperandOnly(h, u) == [h EXCEPT !.ops[h.def[u]] = @ \ {u}]

(* removeOperand: nothing waits for the read any more. *)
RemoveOperand(h, u) ==
    LET d == h.def[u]
    IN  [h EXCEPT !.ops[d] = @ \ {u},
                  !.war    = [k \in Use \X Def |-> IF k[1] = u THEN {} ELSE @[k]],
                  !.barrier[d] = IF \E e \in Def : h.war[u, e] # {} THEN Miss ELSE @]

(* Mutant: what overwrites the operand need not wait for the reload. *)
AddReloadFree(h, o, n, R, t) ==
    LET read == [h EXCEPT !.def[n] = t, !.ops[t] = @ \cup {n}]
    IN  GrowRaw(read, [e \in Def \X Use |-> IF e[2] = n THEN Compose(h.raw[e[1], o], R) ELSE {}])

(* Mutant: the reload depends on no write. *)
AddReloadUnsourced(h, o, n, R, t) ==
    LET back == {<<p[2], p[1]>> : p \in R}
        node == [h EXCEPT !.def[n] = t, !.ops[t] = @ \cup {n}]
    IN  GrowWar(node, [e \in Use \X Def |->
            IF e[1] = n THEN Compose(back, h.war[o, e[2]]) ELSE {}])

(***************************************************************************)
(* Operand n of t reloads what operand o of the source read, R being the   *)
(* dependence propagated: it depends on the writes o depends on and must   *)
(* precede the writes o must precede (propagateEdgesToReloadOp).           *)
(***************************************************************************)
AddReload(h, o, n, R, t) ==
    LET back == {<<p[2], p[1]>> : p \in R}
        node == [h EXCEPT !.def[n] = t]
        past == GrowRaw(node, [e \in Def \X Use |->
                  IF e[2] = n THEN Compose(h.raw[e[1], o], R) ELSE {}])
        next == GrowWar(past, [e \in Use \X Def |->
                  IF e[1] = n THEN Compose(back, h.war[o, e[2]]) ELSE {}])
    IN  [next EXCEPT !.ops[t] = @ \cup {n}]

(* Edge::clear on a propagated edge adds no edge and frees the used domain; the read is gone. *)
ClearPropagated(h, k) == [h EXCEPT !.raw[k] = {}, !.used[k[1]] = Miss, !.def[k[2]] = NoDef]
=============================================================================
