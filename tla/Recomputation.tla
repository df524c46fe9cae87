--------------------------- MODULE Recomputation ---------------------------
(***************************************************************************)
(* What the propagation owes the program and its own graph.                *)
(***************************************************************************)
EXTENDS Propagation, DeadIterations

At(p) == TimeOf(scop, p)

(* What the edges order directly, and by transitivity. *)
Closure(R, P) ==
    FoldSet(LAMBDA m, S : S \cup {e \in P \X P : <<e[1], m>> \in S /\ <<m, e[2]>> \in S}, R, P)

Edges == {e \in Points \X Points : Ordered(e[1], e[2])}
Reach == Closure(Edges, Points)

(***************************************************************************)
(* DefNode::verify and UseNode::verify on the edges of a read: it is an    *)
(* operand of its statement and only instances that exist are related,     *)
(* through every split, reload and deletion.                               *)
(***************************************************************************)
Attached(u, R) == /\ g.def[u] \in made
                  /\ u \in g.ops[g.def[u]]
                  /\ R \subseteq g.dom[g.def[u]]

ReadersAttached ==
    op = Idle /\ run.stage # "reload" =>
        /\ \A k \in Def \X Use : g.raw[k] # {} =>
              EdgeDomain(g.raw[k]) \subseteq g.dom[k[1]] /\ Attached(k[2], EdgeRange(g.raw[k]))
        /\ \A k \in Use \X Def : g.war[k] # {} =>
              EdgeRange(g.war[k]) \subseteq g.dom[k[2]] /\ Attached(k[1], EdgeDomain(g.war[k]))

(***************************************************************************)
(* splitUsingDefNode neither adds nor loses a dependence: if a statement   *)
(* and its copies are taken for one, the graph is the one before.  A pair  *)
(* of writes of which one is deleted counts for nothing: splitEdge keeps   *)
(* none that ends in the statement that is split.                          *)
(***************************************************************************)
Dependences(h, st) ==
    LET Write(d, i) == <<Orig[d], i>>
        Read(u, j)  == <<Orig[h.def[u]], j, st[u][j]>>
        there(k)    == {p \in h.waw[k] : p[1] \in h.dom[k[1]] /\ p[2] \in h.dom[k[2]]}
    IN  [raw |-> UNION {{<<Write(k[1], p[1]), Read(k[2], p[2])>> : p \in h.raw[k]} : k \in Def \X Use},
         war |-> UNION {{<<Read(k[1], p[1]), Write(k[2], p[2])>> : p \in h.war[k]} : k \in Use \X Def},
         waw |-> UNION {{<<Write(k[1], p[1]), Write(k[2], p[2])>> : p \in there(k)} : k \in Def \X Def}]

SplitKeepsDependences == [][made' # made => Dependences(g', stands') = Dependences(g, stands)]_runVars

(***************************************************************************)
(* "assert(!NonPropTrgs.count(&RAW->Trg->getDefNode()))" (propagateEdges): *)
(* no edge to a target that was refused is propagated.                     *)
(***************************************************************************)
RefusedTargetsKept ==
    run.stage = "propagate" => \A k \in run.edges : g.def[k[2]] \notin run.nonTrgs

(***************************************************************************)
(* A read is replaced at a statement all of whose instances get their      *)
(* value from the source (the splits and addRecomputePair): unless a       *)
(* blocked use was propagated, no instance is left without.                *)
(***************************************************************************)
PropagatedEdgesCover ==
    run.stage = "propagate" /\ op = Idle /\ ~ run.blocked =>
        \A k \in run.edges : AssertionsHold(k) => g.dom[g.def[k[2]]] \subseteq EdgeRange(g.raw[k])

(***************************************************************************)
(* "assert(isl_set_is_empty(Overlap))" (UseNode::verify): an affine read   *)
(* has one affine source per instance.                                     *)
(***************************************************************************)
SourcesDisjoint ==
    op = Idle /\ run.stage # "reload" => \A c, d \in made : \A u \in Use :
        c # d /\ {c, d} \subseteq scop.affine /\ Subscripted(u) =>
            EdgeRange(g.raw[c, u]) \cap EdgeRange(g.raw[d, u]) = {}

(***************************************************************************)
(* What the barrier is for: as long as no blocked use was propagated, an   *)
(* operand is loaded before the write that overwrites what the read it     *)
(* stands for has read, in the order of the old schedule; schedule falls   *)
(* back to that order if it finds no other.  If that write was deleted,    *)
(* the read need not wait for it.  This is so between two groups: a write  *)
(* of the source itself is no barrier but has to be deleted with its group *)
(* (MustDeleteNodes).  If nothing overwrites that write it stays, and only *)
(* a new schedule can load the operand before it.  Such a write depends on *)
(* what was read: the source is an update, in the program or because what  *)
(* it reads was propagated to it.  And the read finds a value in its cell  *)
(* that the program does not write.                                        *)
(***************************************************************************)
Exists(p) == \E d \in made : Orig[d] = p[1] /\ p[2] \in g.dom[d]

(* What follows, of the Scop s as it was found: v is a read at an instance, p and q are writes. *)
ReaderOf(s, v) == <<s.def[v[1]], v[2]>>

Overwrites(s, v) ==
    {p \in Def \X Inst : /\ p[2] \in s.dom[p[1]]
                         /\ s.cells[p[1]][p[2]] \cap s.cells[v[1]][v[2]] # {}
                         /\ TimeOf(s, ReaderOf(s, v)) <= TimeOf(s, p)}

FirstOverwrites(s, v) ==
    {p \in Overwrites(s, v) : \A q \in Overwrites(s, v) : TimeOf(s, p) <= TimeOf(s, q)}

(* What an instance writes depends on what it reads, and so on: FlowsTo is reflexive. *)
ScopPoints(s) == {p \in Def \X Inst : p[2] \in s.dom[p[1]]}

ReadsFrom(s) ==
    LET raw == RAW(s)
    IN  {e \in ScopPoints(s) \X ScopPoints(s) :
            \E u \in Use : s.def[u] = e[2][1] /\ <<e[1][2], e[2][2]>> \in raw[e[1][1], u]}

FlowsTo(s, p, q) ==
    LET next == ReadsFrom(s)
    IN  \A P \in SUBSET ScopPoints(s) :
            p \in P /\ (\A e \in next : e[1] \in P => e[2] \in P) => q \in P

(* No write of the program stores what v reads, or nobody knows which. *)
Unsourced(s, v) ==
    v[1] \in s.affine => \A e \in Def, i \in Inst : <<i, v[2]>> \notin RAW(s)[e, v[1]]

OwnLastWrite(v, p) ==
    /\ \E e \in made : Orig[e] = p[1] /\ p[2] \in g.dom[e] /\ p[2] \notin WawDomain(g, e)
    /\ FlowsTo(scop, ReaderOf(scop, v), p)
    /\ Unsourced(scop, v)

(***************************************************************************)
(* The barriers as they are when they decide (getRecomputeDomain): each    *)
(* names the write, if it is still executed, that overwrites first what an *)
(* operand stands for, however often the operand was moved and the write   *)
(* copied, and although addToBarrier skips the cached ones.                *)
(***************************************************************************)
BarrierSeesOverwrites ==
    run.stage = "cut" =>
        \A d \in run.todo : \A o \in g.ops[d] : \A i \in g.dom[d] : \A v \in stands[o][i] :
            \A p \in FirstOverwrites(scop, v) :
                Exists(p) => \E b \in Barrier(g, d) : b[1] = i /\ At(b[2]) = At(p)

BetweenGroups == run.stage \in {"worklist", "delete", "done"} /\ op = Idle

LoadsSameValue ==
    BetweenGroups =>
        \A d \in made : \A u \in g.ops[d] : \A j \in g.dom[d] : \A v \in stands[u][j] :
            \A p \in FirstOverwrites(scop, v) :
                Exists(p) => At(<<d, j>>) <= At(p) \/ OwnLastWrite(v, p)

LoadsSameValueUnlessBlocked == run.blocked \/ LoadsSameValue

(***************************************************************************)
(* What UseNode::verify asserts and addReloadAccesses relies on: the value *)
(* of an affine operand comes from one instance of one write, and it is    *)
(* loaded from one cell, unless a blocked use was propagated.  A write     *)
(* that was deleted between two reads of a cell took the order of what is  *)
(* around it along (see ReadsBeforeOverwrite): these two reads may have    *)
(* become one operand, which then has a source for either, and the next    *)
(* propagation of such an operand loads from either source's cells.        *)
(***************************************************************************)
AtMostOne(S) == \A x, y \in S : x = y

Divided(V) ==
    \E v, w \in V : \E p \in FirstOverwrites(scop, v) :
        /\ ~ Exists(p)
        /\ At(p) < At(ReaderOf(scop, w))
        /\ scop.cells[v[1]][v[2]] \cap scop.cells[w[1]][w[2]] # {}

ProgramReads == {v \in ReadAt : ReaderOf(scop, v) \in ScopPoints(scop)}

SourcesAt(u, j) == {p \in Def \X Inst : <<p[2], j>> \in g.raw[p[1], u]}

AffineOperands == {u \in Use : g.def[u] # NoDef /\ Subscripted(u)}

Intact == op = Idle /\ run.stage \notin {"reload", "aborted"} /\ ~ run.blocked

OneSourceUnlessDivided ==
    Intact => \A u \in AffineOperands : \A j \in g.dom[g.def[u]] :
        AtMostOne(Loads(stands, u, j)) /\ ~ Divided(stands[u][j]) => AtMostOne(SourcesAt(u, j))

OneCellUnlessDivided ==
    Intact /\ ~ Divided(ProgramReads) =>
        \A u \in AffineOperands : \A j \in g.dom[g.def[u]] : AtMostOne(Loads(stands, u, j))

(***************************************************************************)
(* schedule falls back to the old order when it finds no other, and the    *)
(* edges that are left allow for it: nothing they order runs the other way *)
(* round, or twice at a time, in the old schedule.  The exception is again *)
(* an operand that the update overwrites that reads what it stands for:    *)
(* only a new schedule can load it first, and there need not be any.       *)
(***************************************************************************)
EdgesForward ==
    BetweenGroups => \A p, q \in Points : p # q /\ At(q) <= At(p) =>
        /\ <<p[2], q[2]>> \notin g.waw[p[1], q[1]]
        /\ \A u \in g.ops[q[1]] : <<p[2], q[2]>> \notin g.raw[p[1], u]
        /\ \A u \in g.ops[p[1]] : <<p[2], q[2]>> \in g.war[u, q[1]] =>
              \E v \in stands[u][p[2]] : OwnLastWrite(v, <<Orig[q[1]], q[2]>>)

EdgesForwardUnlessBlocked == run.blocked \/ EdgesForward

(***************************************************************************)
(* "Edge can be propagated completely" (propagateEdges, FullProp): if this *)
(* was said of every edge propagated, there is an order to run in.         *)
(***************************************************************************)
Schedulable == run.stage = "done" => LET reach == Reach IN \A p \in Points : <<p, p>> \notin reach

SchedulableIfFull == run.partial \/ Schedulable

(***************************************************************************)
(* Any such order will do: whatever was split, reloaded and deleted, the   *)
(* edges force an operand to be loaded after the earlier and before the    *)
(* later writes to what it stands for, and the writes to a cell to keep    *)
(* their order.  A dead store in between that was deleted may have taken   *)
(* the order with it (see ReadsBeforeOverwrite), and so may a statement    *)
(* that writes a cell more than twice (see WritesOrdered).                 *)
(***************************************************************************)
DeletedBetween(v, q) ==
    \E p \in Overwrites(scop, v) :
        ~ Exists(p) /\ At(p) < At(q) /\ Touches(p[1], p[2]) \cap Touches(q[1], q[2]) # {}

ConflictsOrdered ==
    run.stage = "done" /\ WritesTwiceAtMost(scop) => LET reach == Reach IN
        /\ \A p, q \in Points :
              Touches(p[1], p[2]) \cap Touches(q[1], q[2]) # {} /\ Time(p) < Time(q)
                  => <<p, q>> \in reach
        /\ \A p \in Points : \A u \in g.ops[p[1]] : \A v \in stands[u][p[2]] : \A q \in Points \ {p} :
              Touches(q[1], q[2]) \cap Touches(v[1], v[2]) # {} =>
                  \/ At(q) < At(ReaderOf(scop, v)) /\ <<q, p>> \in reach
                  \/ At(q) >= At(ReaderOf(scop, v)) /\ (<<p, q>> \in reach \/ DeletedBetween(v, q))

ConflictsOrderedUnlessBlocked == run.blocked \/ ConflictsOrdered

(***************************************************************************)
(* What restrictStmt may not delete, whatever was split and propagated in  *)
(* the meantime: the write whose value an operand loads (getUsedDomain),   *)
(* and the last write to a cell that is live after the Scop                *)
(* (getOverwrittenSet), as long as there is a graph.                       *)
(***************************************************************************)
LoadedWritesKept ==
    LET raw == RAW(scop)
    IN  \A d \in made : \A u \in g.ops[d] : \A j \in g.dom[d] : \A v \in stands[u][j] :
            \A e \in Def : \A i \in Inst : <<i, v[2]>> \in raw[e, v[1]] => Exists(<<e, i>>)

LastWritesKept ==
    LET waw == WAW(scop)
    IN  made # {} => \A d \in Def : \A i \in scop.dom[d] :
            LiveOut(d) /\ (\A e \in Def : i \notin EdgeDomain(waw[d, e])) => Exists(<<d, i>>)

(***************************************************************************)
(* The pass comes to an end: a group is considered once, a target is split *)
(* finitely often and an edge that was propagated is gone.                 *)
(***************************************************************************)
Terminates == <>(run.stage \in {"done", "aborted"})
=============================================================================
