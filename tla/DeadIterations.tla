-------------------------- MODULE DeadIterations ---------------------------
(***************************************************************************)
(* What dead iteration elimination owes the program: it may delete only    *)
(* what nobody needs, and the edges it leaves must still force every two   *)
(* accesses that must not be swapped to stay in order, because the         *)
(* scheduler that runs next knows nothing but the edges.                   *)
(***************************************************************************)
EXTENDS Restriction

(***************************************************************************)
(* The order on statement instances that the edges impose                  *)
(* (addDependences): q follows p, directly or not, if it is in every set   *)
(* with p that is closed under the edges.                                  *)
(***************************************************************************)
Points == {p \in Def \X Inst : p[2] \in g.dom[p[1]]}

Ordered(p, q) ==
    \/ <<p[2], q[2]>> \in g.waw[p[1], q[1]]
    \/ \E u \in g.ops[q[1]] : <<p[2], q[2]>> \in g.raw[p[1], u]
    \/ p # q /\ \E u \in g.ops[p[1]] : <<p[2], q[2]>> \in g.war[u, q[1]]

Closed(S) == \A p \in S : \A q \in Points : Ordered(p, q) => q \in S

Time(p)        == scop.time[p[1]][p[2]]
Touches(a, i)  == scop.cells[a][i]
Source(u, j)   == {p \in Def \X Inst : <<p[2], j>> \in RAW(scop)[p[1], u]}

(***************************************************************************)
(* No read loses an instance it depends on: a read that is still executed  *)
(* has the RAW sources the dependence analysis gave it, and they are still *)
(* executed.                                                               *)
(***************************************************************************)
SourcesKept ==
    \A d \in Def : \A u \in g.ops[d] : \A j \in g.dom[d] : \A p \in Source(u, j) :
        p \in Points /\ <<p[2], j>> \in g.raw[p[1], u]

(***************************************************************************)
(* The writes whose value a read may find in its cell.  A write that is    *)
(* not affine only may happen to a cell (MemoryAccess::MAY_WRITE): the old *)
(* value may remain.                                                       *)
(***************************************************************************)
MaySources(u, j) ==
    {p \in Def \X Inst :
        LET now == scop.time[scop.def[u]][j]
        IN  /\ p[2] \in scop.dom[p[1]]
            /\ Time(p) < now
            /\ \E c \in Touches(p[1], p[2]) \cap Touches(u, j) :
                  ~ \E q \in Def \X Inst : /\ q[1] \in scop.affine /\ q[2] \in scop.dom[q[1]]
                                          /\ c \in Touches(q[1], q[2])
                                          /\ Time(p) < Time(q) /\ Time(q) < now}

(***************************************************************************)
(* "We do not wish to allow may-writes to block must-writes" (buildWAR):   *)
(* no write is deleted whose value a read may still find.                  *)
(***************************************************************************)
MaySourcesKept ==
    \A d \in Def : \A u \in g.ops[d] : \A j \in g.dom[d] : MaySources(u, j) \subseteq Points

(***************************************************************************)
(* A write to an array that is live after the Scop is deleted only if a    *)
(* later must-write hits the cell: a group with a may-write is skipped     *)
(* ("DNG not affine! Skip!", propagateExpressions).  This is so unless the *)
(* deleted one was named in MustDeleteNodes by another Scop: then its      *)
(* group may have a may-write, and that may be all that is left.           *)
(***************************************************************************)
OverwrittenBy(d, i, c) == {p \in Points : c \in Touches(p[1], p[2]) /\ scop.time[d][i] < Time(p)}

LiveOutKeptUnlessStale ==
    \A d \in Def : LiveOut(d) => \A i \in scop.dom[d] \ g.dom[d] : \A c \in Touches(d, i) :
        \E p \in OverwrittenBy(d, i, c) : p[1] \in scop.affine \/ \E S \in Stale(scop) : d \in S

(***************************************************************************)
(* "W0 - [WAW] - SRC - this - TRG + smaller domain => new WAW(W0, TRG)"    *)
(* (notifyEdgeLess<WAWEdge>): between two setDomains, any two writes to a  *)
(* cell are kept in order, whatever was deleted between them.              *)
(***************************************************************************)
WritesOrdered ==
    op = Idle => \A S \in SUBSET Points : Closed(S) =>
        \A p \in S, q \in Points :
            Touches(p[1], p[2]) \cap Touches(q[1], q[2]) # {} /\ Time(p) < Time(q) => q \in S

(***************************************************************************)
(* This is so if no affine statement writes a cell more than twice.  Of a  *)
(* longer chain of deleted instances of one statement every pair is lost   *)
(* at the same time, and none is continued by another.                     *)
(***************************************************************************)
WritesTwiceAtMost(s) ==
    \A d \in Def \cap s.affine : \A i, j, k \in s.dom[d] :
        s.cells[d][i] \cap s.cells[d][j] \cap s.cells[d][k] # {} => i = j \/ i = k \/ j = k

WritesOrderedIfTwice == WritesTwiceAtMost(scop) => WritesOrdered

(***************************************************************************)
(* Between two setDomains, a read is kept before every later write to the  *)
(* cell.                                                                   *)
(***************************************************************************)
ReadsBeforeOverwrite ==
    op = Idle => \A S \in SUBSET Points : Closed(S) =>
        \A p \in S, q \in Points : \A u \in g.ops[p[1]] :
            Touches(u, p[2]) \cap Touches(q[1], q[2]) # {} /\ Time(p) < Time(q) => q \in S

(***************************************************************************)
(* This is so unless the write that follows the read was deleted: the WAR  *)
(* dependences are exact, they lead to no other write, and setDomain cuts  *)
(* them first.                                                             *)
(***************************************************************************)
NextWriteDeleted(p, c) ==
    \E d \in Def : \E i \in scop.dom[d] \ g.dom[d] :
        /\ c \in Touches(d, i) \ Touches(p[1], p[2])
        /\ Time(p) < scop.time[d][i]
        /\ ~ Overwritten(scop, c, Time(p), scop.time[d][i])

ReadsBeforeOverwriteUnlessDeleted ==
    WritesTwiceAtMost(scop) /\ op = Idle => \A S \in SUBSET Points : Closed(S) =>
        \A p \in S, q \in Points : \A u \in g.ops[p[1]] :
            \A c \in Touches(u, p[2]) \cap Touches(q[1], q[2]) :
                Time(p) < Time(q) => q \in S \/ NextWriteDeleted(p, c)
=============================================================================
