---------------------------- MODULE Rescheduling ----------------------------
(***************************************************************************)
(* The end of runOnScop: memory is to be written in order where nothing    *)
(* else says so (mergeDefNodeGroups), the copies get the schedule of what  *)
(* they are copies of (adjustSchedule), isl is asked for a schedule that   *)
(* respects the edges of the graph (schedule), the edges become the        *)
(* dependences of the Scop (setNewDependences), and the graph is freed.    *)
(* What is left is the code: statement instances, an order to run them in  *)
(* and, for each of them, what it loads.                                   *)
(***************************************************************************)
EXTENDS Recomputation

CONSTANTS
    Initial,    \* the value of a cell before the Scop
    Wrong       \* any value the Scop as written would not compute here

VARIABLE code   \* what the code generator is given, see CodeRecord

codeVars == <<runVars, code>>

(* The value of a write instance of the Scop is named after the instance. *)
Point == Def \X Inst
Value == Point \cup {Initial, Wrong}

(***************************************************************************)
(* source: the write each read of the Scop reads from, if any, in the Scop *)
(* as written.  split: the statements with a CopyDomain.  order: of the    *)
(* instances, transitive.  raw: the RAW dependences DependenceInfo holds.  *)
(* needs: for each instance the cells it loads, each with the value to be  *)
(* found there.  excuses: see Excuses.                                     *)
(***************************************************************************)
CodeRecord ==
    [stage   : {"pending", "kept", "scheduled"},
     source  : [ReadAt -> SUBSET Point],
     dom     : [Def -> SUBSET Inst],
     split   : SUBSET Def,
     order   : SUBSET (Point \X Point),
     excuses : SUBSET {"blocked", "unscheduled", "deadStore"},
     raw     : SUBSET (Point \X Point),
     needs   : [Point -> SUBSET (Cell \X Value)]]

CodeInit ==
    /\ RunInit
    /\ code = [stage   |-> "pending",
               source  |-> [v \in ReadAt |-> Source(v[1], v[2])],
               dom     |-> [d \in Def |-> {}],
               split   |-> {},
               order   |-> {},
               excuses |-> {},
               raw     |-> {},
               needs   |-> [p \in Point |-> {}]]

-----------------------------------------------------------------------------
(***************************************************************************)
(* What an instance p of a statement evaluates once the reads in loaded    *)
(* are all it loads: the statement it is a copy of, and the source of      *)
(* every read of those that is replaced.                                   *)
(***************************************************************************)
ReadsOf(P) == {v \in ReadAt : scop.def[v[1]] \in Def /\ ReaderOf(scop, v) \in P}

Evaluated(p, loaded) ==
    FoldSet(LAMBDA n, P : P \cup UNION {code.source[v] : v \in ReadsOf(P) \ loaded},
            {<<Orig[p[1]], p[2]>>}, Point)

ValueOf(v) == IF code.source[v] = {} THEN Initial ELSE CHOOSE p \in code.source[v] : TRUE

(* There is nothing to replace a read of what was there before the Scop with. *)
Needs(p, loaded) ==
    LET reads == ReadsOf(Evaluated(p, loaded))
    IN  UNION {Touches(v[1], v[2]) \X {ValueOf(v)} : v \in reads \cap loaded}
        \cup UNION {Touches(v[1], v[2]) \X {Wrong} : v \in {r \in reads \ loaded : code.source[r] = {}}}

Loaded(p) == UNION {stands[u][p[2]] : u \in g.ops[p[1]]}

-----------------------------------------------------------------------------
(***************************************************************************)
(* mergeDefNodeGroups: the statements that write an array without any      *)
(* dependence among them are to run side by side, in the order of their    *)
(* instances, each counted from its first one (setMemOrderDeps).           *)
(***************************************************************************)
HasDNGDeps(a) ==
    \E d \in Nodes(a) : g.dom[d] # {} /\
        \/ \E u \in Use : g.raw[d, u] # {} /\ scop.array[g.def[u]] = a
        \/ \E u \in Use : g.war[u, d] # {}
        \/ \E e \in Def : g.waw[d, e] # {} \/ g.waw[e, d] # {}

Rank(p) == p[2] - Min(g.dom[p[1]])

MemoryOrder ==
    {e \in Points \X Points :
        LET a == scop.array[e[1][1]]
        IN  /\ scop.array[e[2][1]] = a
            /\ GroupAffine(e[1][1])
            /\ ~ HasDNGDeps(a)
            /\ Rank(e[1]) < Rank(e[2])}

Acyclic(R) == \A p \in Points : <<p, p>> \notin R

OldOrder == {e \in Points \X Points : At(e[1]) < At(e[2])}

(***************************************************************************)
(* schedule: any order that respects the edges and the memory order, or    *)
(* the old one, if isl finds none ("No new schedule found!").  In the old  *)
(* one a copy runs when the statement would have run.                      *)
(***************************************************************************)
NewSchedules ==
    LET order == Closure(Edges \cup MemoryOrder, Points)
    IN  {OldOrder} \cup (IF Acyclic(order) THEN {order} ELSE {})

(* The write that kept a later write q behind a read was dead and is gone. *)
OrderLost ==
    \E p, q \in Points : \E v \in Loaded(p) :
        /\ Touches(q[1], q[2]) \cap Touches(v[1], v[2]) # {}
        /\ At(q) >= At(ReaderOf(scop, v))
        /\ DeletedBetween(v, q)

(***************************************************************************)
(* The known ways to go wrong: a blocked edge was propagated, the old      *)
(* order is used although it does not respect the edges, or an order was   *)
(* lost with a dead write.                                                 *)
(***************************************************************************)
Excuses(order) ==
    {x \in {"blocked", "unscheduled", "deadStore"} :
        \/ x = "blocked" /\ run.blocked
        \/ x = "unscheduled" /\ order = OldOrder /\ ~ {e \in Edges : e[1] # e[2]} \subseteq order
        \/ x = "deadStore" /\ OrderLost}

(* Mutant: only edges within an array, as for a schedule that keeps the arrays apart. *)
NewDependencesOrdered ==
    {e \in Points \X Points :
        /\ scop.array[e[1][1]] = scop.array[e[2][1]]
        /\ \E u \in g.ops[e[2][1]] : <<e[1][2], e[2][2]>> \in g.raw[e[1][1], u]}

(* setNewDependences. *)
NewDependences ==
    {e \in Points \X Points : \E u \in g.ops[e[2][1]] : <<e[1][2], e[2][2]>> \in g.raw[e[1][1], u]}

(* clear: MustDeleteNodes is not cleared. *)
Clear ==
    /\ g' = [g EXCEPT !.dom = [d \in Def |-> {}],
                      !.ops = [d \in Def |-> {}],
                      !.def = [u \in Use |-> NoDef],
                      !.raw = [k \in Def \X Use |-> {}],
                      !.war = [k \in Use \X Def |-> {}],
                      !.waw = [k \in Def \X Def |-> {}],
                      !.used = [d \in Def |-> Miss],
                      !.over = [d \in Def |-> Miss],
                      !.barrier = [d \in Def |-> Miss]]
    /\ made' = {}
    /\ stands' = [u \in Use |-> [j \in Inst |-> {}]]
    /\ UNCHANGED <<scop, must, op, run>>

Reschedule ==
    /\ run.stage = "done"
    /\ run.changed
    /\ code.stage = "pending"
    /\ \E order \in NewSchedules :
          code' = [stage   |-> "scheduled",
                   source  |-> code.source,
                   dom     |-> g.dom,
                   split   |-> {Orig[c] : c \in {d \in made : Orig[d] # d}},
                   order   |-> order,
                   excuses |-> Excuses(order),
                   raw     |-> NewDependences,
                   needs   |-> [p \in Point |-> IF p \in Points THEN Needs(p, Loaded(p)) ELSE {}]]
    /\ Clear

(***************************************************************************)
(* The Scop is left as it was, if nothing was propagated or if the result  *)
(* is not worth it (isProfitable, invalidate).                             *)
(***************************************************************************)
KeepOriginal ==
    /\ run.stage = "done"
    /\ code.stage = "pending"
    /\ LET points == {p \in Point : p[2] \in scop.dom[p[1]]}
       IN  code' = [stage   |-> "kept",
                    source  |-> code.source,
                    dom     |-> scop.dom,
                    split   |-> {},
                    order   |-> {e \in points \X points : At(e[1]) < At(e[2])},
                    excuses |-> {},
                    raw     |-> {e \in points \X points : \E v \in ReadsOf({e[2]}) :
                                  e[1] \in code.source[v]},
                    needs   |-> [p \in Point |-> Needs(p, ReadsOf({p}))]]
    /\ Clear
=============================================================================
