--------------------------- MODULE DependenceInfo ---------------------------
(***************************************************************************)
(* The access-wise, value-based dependences of a static control part (a    *)
(* Scop), as Dependences::calculateDependences computes them.              *)
(*                                                                         *)
(* A statement of the Scop owns exactly one write, so the write access (a  *)
(* definition) names the statement; its read accesses are uses.  An isl    *)
(* set over a statement is a set of instances, an isl map between two      *)
(* statements a set of pairs of instances, and a memory access maps each   *)
(* instance to the cells it may touch: one cell if the access is affine,   *)
(* any number if it is not.                                                *)
(***************************************************************************)
EXTENDS Integers, FiniteSets

CONSTANTS
    Def,    \* write accesses, one per statement
    Use,    \* read accesses
    Inst,   \* values of the iteration vector of a statement
    Cell,   \* memory cells
    Array,  \* arrays (ScopArrayInfo); every cell belongs to one
    NoDef   \* the statement of an access that does not exist (yet)

ASSUME NoDefAssumption  == NoDef \notin Def
ASSUME FiniteAssumption == IsFiniteSet(Def) /\ IsFiniteSet(Inst)
ASSUME NodesAssumption  == Def \cap Use = {}

Node == Def \cup Use
Map  == SUBSET (Inst \X Inst)

(***************************************************************************)
(* A Scop: the domain of each statement, the statement of each read, the   *)
(* cells of each access, the affine accesses, the time at which an         *)
(* instance runs, the array a write access goes to and the arrays that are *)
(* live after the Scop.  No two statement instances run at the same time.  *)
(***************************************************************************)
IsScop(s) ==
    /\ s.dom \in [Def -> SUBSET Inst]
    /\ s.def \in [Use -> Def \cup {NoDef}]
    /\ s.cells \in [Node -> [Inst -> SUBSET Cell]]
    /\ s.affine \subseteq Node
    /\ s.time \in [Def -> [Inst -> Nat]]
    /\ s.array \in [Node -> Array]
    /\ s.liveOut \subseteq Array

RunsInSequence(s) ==
    \A d, e \in Def : \A i \in s.dom[d], j \in s.dom[e] :
        s.time[d][i] = s.time[e][j] => d = e /\ i = j

(* What an affine access touches is known: one cell; and a cell is in one array. *)
OneCell(s) ==
    /\ \A a \in s.affine : \A i \in Inst : \A b, c \in s.cells[a][i] : b = c
    /\ \A m, n \in Node : \A i, j \in Inst :
          s.cells[m][i] \cap s.cells[n][j] # {} => s.array[m] = s.array[n]

Compose(R, S) == {p \in Inst \X Inst : \E k \in Inst : <<p[1], k>> \in R /\ <<k, p[2]>> \in S}

(***************************************************************************)
(* A write to c strictly between two points in time.  collectInfo takes    *)
(* every write for a must-write, one that is not affine too: it overwrites *)
(* all the cells it may touch.                                             *)
(***************************************************************************)
Overwritten(s, c, from, to) ==
    \E d \in Def : \E i \in s.dom[d] :
        /\ c \in s.cells[d][i]
        /\ from < s.time[d][i]
        /\ s.time[d][i] < to

(***************************************************************************)
(* The instances at which access a of statement d reaches access b of      *)
(* statement e: both touch a cell that no write hits in between.           *)
(***************************************************************************)
Flow(s, a, d, b, e) ==
    {p \in s.dom[d] \X s.dom[e] :
        /\ s.time[d][p[1]] < s.time[e][p[2]]
        /\ \E c \in s.cells[a][p[1]] \cap s.cells[b][p[2]] :
              ~ Overwritten(s, c, s.time[d][p[1]], s.time[e][p[2]])}

RAW(s) == [k \in Def \X Use |->
             IF s.def[k[2]] \in Def THEN Flow(s, k[1], k[1], k[2], s.def[k[2]]) ELSE {}]
WAW(s) == [k \in Def \X Def |-> Flow(s, k[1], k[1], k[2], k[2])]
WAR(s) == [k \in Use \X Def |->
             IF s.def[k[1]] \in Def THEN Flow(s, k[1], s.def[k[1]], k[2], k[2]) ELSE {}]
=============================================================================
