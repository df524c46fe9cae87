-------------------------- MODULE PropagationProofs --------------------------
(***************************************************************************)
(* The pass as a whole, for every Scop, every choice of what to propagate  *)
(* and every order of the visits: it splits, reloads and deletes without   *)
(* leaving a read dangling, and deletes neither a write whose value an     *)
(* operand still loads nor the last write to a cell that is live.          *)
(***************************************************************************)
EXTENDS Recomputation, WriteProofs, SequenceTheorems

(***************************************************************************)
(* The splits of a statement: pieces of its domain.                        *)
(***************************************************************************)
IsPieces(s, D) ==
    /\ s \in Seq(SUBSET D)
    /\ \A n \in 1..Len(s) : s[n] # {}
    /\ \A m, n \in 1..Len(s) : m # n => s[m] \cap s[n] = {}

(***************************************************************************)
(* The invariant.  The nodes: a node that was not made has no instance and *)
(* no operand.  The operands: while the edge k is propagated its read is   *)
(* no operand and precedes no write, it has no source but the one that is  *)
(* propagated, and the operands that are still to be reloaded are the      *)
(* source's; at any other time the operands of a node are the reads in it. *)
(***************************************************************************)
NodesOK ==
    /\ made \subseteq Def
    /\ \A d \in Def \ made : g.dom[d] = {}
    /\ \A u \in Use : g.def[u] \in made \cup {NoDef}

Detached(k) ==
    /\ op = Idle
    /\ k \in Def \X Use
    /\ g.def[k[2]] \in Def
    /\ \A d \in Def : g.ops[d] = {u \in Use : g.def[u] = d} \ {k[2]}
    /\ \A e \in Def : g.war[<<k[2], e>>] = {}
    /\ \A e \in Def : e # k[1] => g.raw[<<e, k[2]>>] = {}
    /\ run.loads \subseteq g.ops[k[1]]

OperandsOK == IF run.stage = "reload" THEN Detached(run.edge) ELSE OpsOK

RunOK == /\ run \in RunRecord
         /\ run.todo \subseteq made
         /\ run.edges # {} => run.src \in made

SplitsOK == /\ \A t \in Def : IsPieces(run.splits[t], g.dom[t])
            /\ run.stage \notin {"cut", "split"} => \A t \in Def : run.splits[t] = <<>>

StandsOK == /\ stands \in [Use -> [Inst -> SUBSET ReadAt]]
            /\ \A u \in Use : g.def[u] = NoDef => \A j \in Inst : stands[u][j] = {}

(***************************************************************************)
(* The heart of it: a read that stands for another one, at an instance     *)
(* that exists, depends on the write the other one depends on in the       *)
(* program, or on the copy of its statement that has this write now.       *)
(***************************************************************************)
Kept(h, nodes, st, raw) ==
    \A u \in Use : h.def[u] \in Def =>
        \A j \in h.dom[h.def[u]] : \A v \in st[u][j] : \A e \in Def : \A i \in Inst :
            <<i, v[2]>> \in raw[<<e, v[1]>>] =>
                \E c \in nodes : Orig[c] = e /\ <<i, j>> \in h.raw[<<c, u>>]

StandsKept == Kept(g, made, stands, RAW(scop))

DInv == GInv /\ OperandsOK /\ NodesOK /\ RunOK /\ SplitsOK /\ StandsOK /\ StandsKept

-----------------------------------------------------------------------------
(* There are no more pieces than instances. *)
LEMMA PiecesBounded ==
    ASSUME NEW D \in SUBSET Inst, NEW s, IsPieces(s, D)
    PROVE  s \in BoundedSeq(SUBSET Inst, Cardinality(Inst))
<1> DEFINE f == [n \in 1..Len(s) |-> CHOOSE i \in s[n] : TRUE]
<1>1. s \in Seq(SUBSET D) /\ Len(s) \in Nat
  BY DEF IsPieces
<1>2. \A n \in 1..Len(s) : s[n] # {} /\ s[n] \subseteq Inst
  BY <1>1 DEF IsPieces
<1>3. \A n \in 1..Len(s) : f[n] \in s[n]
  BY <1>2
<1> HIDE DEF f
<1>4. f \in [1..Len(s) -> Inst]
  BY <1>2, <1>3 DEF f
<1>5. f \in Injection(1..Len(s), Inst)
  <2>1. ASSUME NEW m \in 1..Len(s), NEW n \in 1..Len(s), f[m] = f[n] PROVE m = n
    BY <1>3, <2>1 DEF IsPieces
  <2> QED BY <1>4, <2>1 DEF Injection, IsInjective
<1>6. Cardinality(1..Len(s)) <= Cardinality(Inst) /\ Cardinality(Inst) \in Nat
  BY <1>5, FS_Injection, FS_CardinalityType, FiniteAssumption
<1>7. Cardinality(1..Len(s)) = Len(s)
  <2>1. 1 \in Int /\ Len(s) \in Int
    BY <1>1
  <2>2. Cardinality(1..Len(s)) = IF 1 > Len(s) THEN 0 ELSE Len(s) - 1 + 1
    BY ONLY <2>1, FS_Interval
  <2> QED BY <1>1, <2>2
<1>8. Len(s) \in 0..Cardinality(Inst) /\ s \in [1..Len(s) -> SUBSET Inst]
  BY <1>1, <1>6, <1>7
<1> QED BY <1>8 DEF BoundedSeq, SeqOf

(* The pieces that are left when a statement keeps the second one. *)
LEMMA PiecesLeft ==
    ASSUME NEW D, NEW s, IsPieces(s, D), Len(s) > 1
    PROVE  /\ s[2] \subseteq D
           /\ IsPieces(<<s[1]>> \o SubSeq(s, 3, Len(s)), D \ s[2])
<1> DEFINE r == SubSeq(s, 3, Len(s))
           q == <<s[1]>> \o r
<1>1. s \in Seq(SUBSET D) /\ Len(s) \in Nat
  BY DEF IsPieces
<1>2. \A n \in 1..Len(s) : s[n] \in SUBSET D
  BY <1>1
<1>3. \A n \in 1..Len(s) : n # 2 => s[n] \in SUBSET (D \ s[2])
  BY <1>2 DEF IsPieces
<1> DEFINE E == SUBSET (D \ s[2])
<1>4. r \in Seq(E) /\ Len(r) = Len(s) - 2 /\ \A n \in 1..Len(s) - 2 : r[n] = s[n + 2]
  <2>1. 3 \in Int /\ Len(s) \in Int /\ \A n \in 3..Len(s) : s[n] \in E
    BY <1>1, <1>3
  <2> HIDE DEF E
  <2>2. /\ r \in Seq(E)
        /\ Len(r) = IF 3 <= Len(s) THEN Len(s) - 3 + 1 ELSE 0
        /\ \A n \in 1..Len(s) - 3 + 1 : r[n] = s[3 + n - 1]
    BY ONLY <2>1, SubSeqProperties DEF r
  <2> HIDE DEF r
  <2>3. Len(r) = Len(s) - 2
    <3>1. CASE 3 <= Len(s)
      <4>1. Len(r) = Len(s) - 3 + 1
        BY <2>2, <3>1
      <4> QED BY <1>1, <4>1
    <3>2. CASE ~ (3 <= Len(s))
      <4>1. Len(r) = 0
        BY <2>2, <3>2
      <4>2. PICK L \in Nat : L = Len(s)
        BY <1>1
      <4> QED BY <3>2, <4>1, <4>2
    <3> QED BY <3>1, <3>2
  <2>4. ASSUME NEW n \in 1..Len(s) - 2 PROVE r[n] = s[n + 2]
    BY <1>1, <2>2
  <2> QED BY <2>2, <2>3, <2>4
<1> HIDE DEF r
<1>5. q \in Seq(E) /\ Len(q) = Len(s) - 1 /\ q[1] = s[1]
      /\ \A n \in 2..Len(s) - 1 : q[n] = s[n + 1]
  <2>1. <<s[1]>> \in Seq(E) /\ Len(<<s[1]>>) = 1
    BY <1>1, <1>3
  <2> HIDE DEF E
  <2>2. /\ q \in Seq(E) /\ Len(q) = 1 + Len(r)
        /\ \A n \in 1..1 + Len(r) : q[n] = IF n <= 1 THEN <<s[1]>>[n] ELSE r[n - 1]
    BY <1>4, <2>1, ConcatProperties
  <2> QED BY <1>1, <1>4, <2>2
<1> DEFINE old(n) == IF n = 1 THEN 1 ELSE n + 1
<1>9. ASSUME NEW n \in 1..Len(q) PROVE old(n) \in 1..Len(s) /\ q[n] = s[old(n)]
  <2> HIDE DEF q
  <2>1. CASE n = 1
    BY <1>1, <1>5, <2>1
  <2>2. CASE n # 1
    <3>1. n \in 2..Len(s) - 1
      BY <1>1, <1>5, <2>2
    <3> QED BY <1>1, <1>5, <2>2, <3>1
  <2> QED BY <2>1, <2>2
<1> HIDE DEF q
<1>6. ASSUME NEW n \in 1..Len(q) PROVE q[n] # {}
  BY <1>9 DEF IsPieces
<1>7. ASSUME NEW m \in 1..Len(q), NEW n \in 1..Len(q), m # n PROVE q[m] \cap q[n] = {}
  <2>1. old(m) # old(n)
    BY <1>1, <1>5, <1>7
  <2> HIDE DEF old
  <2> QED BY <1>9, <2>1 DEF IsPieces
<1>8. IsPieces(q, D \ s[2])
  BY <1>5, <1>6, <1>7 DEF IsPieces
<1> QED BY <1>2, <1>8 DEF q, r

(* The members of a finite set of numbers, counted from the first, are numbered without a gap. *)
LEMMA Ranks ==
    ASSUME NEW S \in SUBSET Nat, IsFiniteSet(S)
    PROVE  LET rank(n) == Cardinality({m \in S : m <= n})
           IN  /\ \A n \in S : rank(n) \in 1..Cardinality(S)
               /\ \A m, n \in S : rank(m) = rank(n) => m = n
               /\ \A r \in 1..Cardinality(S) : \E n \in S : rank(n) = r
<1> DEFINE low(n) == {m \in S : m <= n}
           rank(n) == Cardinality(low(n))
           f == [n \in S |-> rank(n)]
<1>1. ASSUME NEW n \in S
      PROVE  IsFiniteSet(low(n)) /\ rank(n) \in Nat /\ rank(n) <= Cardinality(S) /\ rank(n) # 0
  <2>1. low(n) \in SUBSET S /\ n \in low(n)
    OBVIOUS
  <2> HIDE DEF low
  <2>2. IsFiniteSet(low(n)) /\ Cardinality(low(n)) <= Cardinality(S)
    BY <2>1, FS_Subset
  <2>3. Cardinality(low(n)) # 0
    BY <2>1, <2>2, FS_EmptySet
  <2> QED BY <2>2, <2>3, FS_CardinalityType
<1>2. Cardinality(S) \in Nat
  BY FS_CardinalityType
<1>3. \A n \in S : rank(n) \in 1..Cardinality(S)
  BY <1>1, <1>2
<1>4. ASSUME NEW m \in S, NEW n \in S, rank(m) = rank(n), m <= n PROVE m = n
  <2>1. low(m) \in SUBSET low(n) /\ n \in low(n)
    <3>1. m \in Nat /\ n \in Nat
      OBVIOUS
    <3>2. ASSUME NEW l \in low(m) PROVE l \in low(n)
      BY <1>4, <3>1
    <3>3. n \in low(n)
      BY <3>1
    <3> QED BY <3>2, <3>3
  <2>2. IsFiniteSet(low(n)) /\ Cardinality(low(n)) = Cardinality(low(m))
    BY <1>1, <1>4
  <2> HIDE DEF low
  <2>3. low(n) = low(m)
    BY <2>1, <2>2, FS_Subset
  <2>4. n \in low(m)
    BY <2>1, <2>3
  <2> QED BY <1>4, <2>4 DEF low
<1>5. \A m, n \in S : rank(m) = rank(n) => m = n
  BY <1>4
<1> HIDE DEF rank
<1>6. f \in Injection(S, 1..Cardinality(S))
  BY <1>3, <1>5 DEF Injection, IsInjective
<1>7. IsFiniteSet(1..Cardinality(S)) /\ Cardinality(1..Cardinality(S)) = Cardinality(S)
  <2>1. 1 \in Int /\ Cardinality(S) \in Int
    BY <1>2
  <2>2. /\ IsFiniteSet(1..Cardinality(S))
        /\ Cardinality(1..Cardinality(S)) = IF 1 > Cardinality(S) THEN 0 ELSE Cardinality(S) - 1 + 1
    BY ONLY <2>1, FS_Interval
  <2> QED BY <1>2, <2>2
<1>8. f \in Surjection(S, 1..Cardinality(S))
  BY <1>6, <1>7, FS_Injection
<1>9. \A r \in 1..Cardinality(S) : \E n \in S : rank(n) = r
  BY <1>8 DEF Surjection
<1> QED BY <1>3, <1>5, <1>9 DEF rank

(***************************************************************************)
(* What a cut makes of the pieces: what is inside of a piece that is cut   *)
(* keeps its place, what is left over gets a place of its own behind them. *)
(***************************************************************************)
IsCut(s, T, q, cut, at) ==
    /\ cut = {n \in 1..Len(s) : s[n] \cap T # {} /\ ~ s[n] \subseteq T}
    /\ at \in [cut -> Nat]
    /\ \A m, n \in cut : at[m] = at[n] => m = n
    /\ \A n \in cut : at[n] > Len(s) /\ q[at[n]] = s[n] \ T
    /\ \A n \in 1..Len(s) : q[n] = IF n \in cut THEN s[n] \cap T ELSE s[n]
    /\ Len(q) \in Nat /\ q = [n \in 1..Len(q) |-> q[n]]
    /\ 1..Len(q) = (1..Len(s)) \cup {at[n] : n \in cut}

LEMMA CutParts ==
    ASSUME NEW D, NEW s, IsPieces(s, D), NEW T
    PROVE  \E cut, at : IsCut(s, T, Cut(s, T), cut, at)
<1> DEFINE cut == {n \in DOMAIN s : s[n] \cap T # {} /\ ~ s[n] \subseteq T}
           rank(n) == Cardinality({m \in cut : m <= n})
           left(r) == UNION {s[n] \ T : n \in {m \in cut : rank(m) = r}}
           L == Len(s)
           C == Cardinality(cut)
           q == [n \in 1..(L + C) |->
                   IF n > L THEN left(n - L) ELSE IF n \in cut THEN s[n] \cap T ELSE s[n]]
           at == [n \in cut |-> L + rank(n)]
<1>1. L \in Nat /\ DOMAIN s = 1..L
  BY DEF IsPieces
<1>2. cut \in SUBSET (1..L) /\ cut \in SUBSET Nat
      /\ cut = {n \in 1..Len(s) : s[n] \cap T # {} /\ ~ s[n] \subseteq T}
  BY <1>1
<1>3. Cut(s, T) = q
  BY DEF Cut
<1> HIDE DEF cut
<1>4. IsFiniteSet(cut) /\ C \in Nat
  <2>1. 1 \in Int /\ L \in Int
    BY <1>1
  <2>2. IsFiniteSet(1..L)
    BY ONLY <2>1, FS_Interval
  <2>3. IsFiniteSet(cut)
    BY <1>2, <2>2, FS_Subset
  <2> QED BY <2>3, FS_CardinalityType
<1>5. /\ \A n \in cut : rank(n) \in 1..C
      /\ \A m, n \in cut : rank(m) = rank(n) => m = n
      /\ \A r \in 1..C : \E n \in cut : rank(n) = r
  BY <1>2, <1>4, Ranks
<1> HIDE DEF rank, C
<1>6. ASSUME NEW n \in cut PROVE left(rank(n)) = s[n] \ T
  <2>1. {m \in cut : rank(m) = rank(n)} = {n}
    BY <1>5
  <2> QED BY <2>1
<1> HIDE DEF left
<1>7. /\ at \in [cut -> Nat]
      /\ \A n \in cut : at[n] = L + rank(n) /\ at[n] > L /\ at[n] - L = rank(n) /\ at[n] \in 1..L + C
  BY <1>1, <1>4, <1>5
<1>8. /\ \A n \in 1..L : n \in 1..L + C /\ ~ (n > L)
      /\ \A n \in 1..L + C : n > L => n - L \in 1..C
  BY <1>1, <1>4
<1>9. Len(q) = L + C /\ q = [n \in 1..Len(q) |-> q[n]]
  BY <1>1, <1>4
<1>10. \A n \in cut : q[at[n]] = s[n] \ T
  BY <1>6, <1>7
<1>11. \A n \in 1..L : q[n] = IF n \in cut THEN s[n] \cap T ELSE s[n]
  BY <1>8
<1>12. 1..L + C = (1..L) \cup {at[n] : n \in cut}
  <2>1. ASSUME NEW n \in 1..L + C, n \notin 1..L PROVE \E m \in cut : n = at[m]
    <3>1. n > L
      BY <1>1, <1>4, <2>1
    <3>2. PICK m \in cut : rank(m) = n - L
      BY <1>5, <1>8, <3>1
    <3> QED BY <1>1, <1>4, <1>7, <3>2
  <2> QED BY <1>7, <1>8, <2>1
<1>13. \A m, n \in cut : at[m] = at[n] => m = n
  BY <1>1, <1>4, <1>5, <1>7
<1> HIDE DEF q, at
<1>14. IsCut(s, T, q, cut, at)
  <2>1. \A n \in cut : at[n] > Len(s) /\ q[at[n]] = s[n] \ T
    BY <1>7, <1>10
  <2>2. Len(q) \in Nat /\ 1..Len(q) = (1..Len(s)) \cup {at[n] : n \in cut}
    BY <1>1, <1>4, <1>9, <1>12
  <2> QED BY <1>2, <1>7, <1>9, <1>11, <1>13, <2>1, <2>2 DEF IsCut
<1> QED BY <1>3, <1>14

(***************************************************************************)
(* Cutting along one more target domain leaves pieces: what is inside and  *)
(* what is outside of a piece that was cut do not meet, and both hold an   *)
(* instance.                                                               *)
(***************************************************************************)
LEMMA CutPieces ==
    ASSUME NEW D, NEW s, IsPieces(s, D), NEW T
    PROVE  IsPieces(Cut(s, T), D)
<1> DEFINE q == Cut(s, T)
<1>1. PICK cut, at : IsCut(s, T, q, cut, at)
  BY CutParts
<1> HIDE DEF q
<1>2. Len(s) \in Nat /\ \A n \in 1..Len(s) : s[n] \in SUBSET D /\ s[n] # {}
  BY DEF IsPieces
<1>3. \A n \in cut : n \in 1..Len(s) /\ s[n] \cap T # {} /\ s[n] \ T # {}
  BY <1>1 DEF IsCut
<1>4. \A n \in 1..Len(q) : \/ n \in 1..Len(s) /\ q[n] = IF n \in cut THEN s[n] \cap T ELSE s[n]
                           \/ \E m \in cut : n = at[m] /\ q[n] = s[m] \ T
  BY <1>1 DEF IsCut
<1>5. ASSUME NEW n \in 1..Len(q) PROVE q[n] \in SUBSET D /\ q[n] # {}
  <2>1. CASE n \in 1..Len(s) /\ q[n] = IF n \in cut THEN s[n] \cap T ELSE s[n]
    BY <1>2, <1>3, <2>1
  <2>2. CASE \E m \in cut : n = at[m] /\ q[n] = s[m] \ T
    <3>1. PICK m \in cut : q[n] = s[m] \ T
      BY <2>2
    <3>2. s[m] \in SUBSET D /\ s[m] \ T # {}
      BY <1>2, <1>3
    <3> QED BY <3>1, <3>2
  <2> QED BY <1>4, <2>1, <2>2
<1>6. q \in Seq(SUBSET D)
  <2>1. PICK L \in Nat : L = Len(q)
    BY <1>1 DEF IsCut
  <2>2. q = [n \in 1..L |-> q[n]]
    BY <1>1, <2>1 DEF IsCut
  <2>3. q \in [1..L -> SUBSET D]
    BY <1>5, <2>1, <2>2
  <2> QED BY <2>3
<1>7. ASSUME NEW m \in 1..Len(q), NEW n \in 1..Len(q), m # n PROVE q[m] \cap q[n] = {}
  <2>1. \A k, l \in 1..Len(s) : k # l => s[k] \cap s[l] = {}
    BY DEF IsPieces
  <2> DEFINE Inner(k) == k \in 1..Len(s) /\ q[k] = IF k \in cut THEN s[k] \cap T ELSE s[k]
             Outer(k) == \E l \in cut : k = at[l] /\ q[k] = s[l] \ T
  <2>3. (Inner(m) \/ Outer(m)) /\ (Inner(n) \/ Outer(n))
    BY <1>4
  <2>4. CASE Inner(m) /\ Inner(n)
    BY <1>7, <2>1, <2>4
  <2>5. CASE Outer(m) /\ Outer(n)
    BY <1>3, <1>7, <2>1, <2>5
  <2>6. CASE Inner(m) /\ Outer(n)
    BY <1>3, <2>1, <2>6
  <2>7. CASE Outer(m) /\ Inner(n)
    BY <1>3, <2>1, <2>7
  <2> QED BY <2>3, <2>4, <2>5, <2>6, <2>7
<1> QED BY <1>5, <1>6, <1>7 DEF IsPieces, q

-----------------------------------------------------------------------------
LEMMA NoPieces == ASSUME NEW D PROVE IsPieces(<<>>, D)
BY DEF IsPieces

LEMMA OnePiece == ASSUME NEW D, D # {} PROVE IsPieces(<<D>>, D)
<1> DEFINE s == <<D>>
<1>1. s \in Seq(SUBSET D) /\ Len(s) = 1 /\ s[1] = D
  OBVIOUS
<1> HIDE DEF s
<1>2. IsPieces(s, D)
  BY <1>1 DEF IsPieces
<1> QED BY <1>2 DEF s

LEMMA InitRun == RunInit => DInv
<1> SUFFICES ASSUME RunInit PROVE DInv
  OBVIOUS
<1>1. Init /\ RInv /\ EInv /\ GInv /\ OpsOK /\ g.def = scop.def /\ RawKept /\ RawStarts
  BY InitReads DEF RunInit, RInv, EInv, GInv, IInv
<1>2. /\ scop \in Scops /\ IsScop(scop) /\ g \in Graph /\ g.dom = scop.dom /\ op = Idle
      /\ \A d \in Def : Orig[d] # d => scop.dom[d] = {}
      /\ \A u \in Use : scop.def[u] # NoDef => Orig[scop.def[u]] = scop.def[u]
  BY <1>1, ScopsAssumption, CopiesAssumption, CreateFacts DEF Init
<1>3. made = {d \in Def : Orig[d] = d}
      /\ stands = [u \in Use |-> [j \in Inst |-> IF g.def[u] = NoDef THEN {} ELSE {<<u, j>>}]]
  BY DEF RunInit
<1>4. NodesOK
  BY <1>1, <1>2, <1>3 DEF NodesOK, Graph
<1>5. /\ run.stage = "create" /\ run.todo = made /\ run.groups = {scop.array[d] : d \in made}
      /\ run.splits = [d \in Def |-> <<>>] /\ run.edges = {}
      /\ run = [stage |-> run.stage, todo |-> run.todo, groups |-> run.groups,
                cuts |-> [d \in Def |-> {}], splits |-> run.splits, nonTrgs |-> {}, src |-> NoDef,
                edges |-> {}, edge |-> NoEdge, loads |-> {},
                changed |-> FALSE, partial |-> FALSE, blocked |-> FALSE]
  BY DEF RunInit
<1>6. RunOK /\ SplitsOK
  <2>1. made \subseteq Def /\ {scop.array[d] : d \in made} \subseteq Array
    BY <1>2, <1>3 DEF IsScop, Node
  <2>2. <<>> \in BoundedSeq(SUBSET Inst, Cardinality(Inst))
    BY NoPieces, PiecesBounded
  <2>3. SplitsOK
    BY <1>5, NoPieces DEF SplitsOK
  <2>4. run \in RunRecord
    <3> DEFINE pieces == BoundedSeq(SUBSET Inst, Cardinality(Inst))
    <3> HIDE DEF pieces
    <3>1. ASSUME NEW todo \in SUBSET Def, NEW groups \in SUBSET Array,
                 NEW cuts \in [Def -> SUBSET SUBSET Inst], NEW splits \in [Def -> pieces],
                 NEW edges \in SUBSET (Def \X Use)
          PROVE  [stage |-> "create", todo |-> todo, groups |-> groups, cuts |-> cuts,
                  splits |-> splits, nonTrgs |-> {}, src |-> NoDef, edges |-> edges,
                  edge |-> NoEdge, loads |-> {},
                  changed |-> FALSE, partial |-> FALSE, blocked |-> FALSE] \in RunRecord
      BY DEF RunRecord, pieces
    <3>2. made \in SUBSET Def /\ {scop.array[d] : d \in made} \in SUBSET Array
          /\ [d \in Def |-> {}] \in [Def -> SUBSET SUBSET Inst]
          /\ [d \in Def |-> <<>>] \in [Def -> pieces] /\ {} \in SUBSET (Def \X Use)
      BY <2>1, <2>2 DEF pieces
    <3> QED BY <3>1, <3>2 DEF RunInit
  <2> QED BY <1>5, <2>3, <2>4 DEF RunOK
<1>7. StandsOK
  BY <1>3 DEF StandsOK, ReadAt
<1>8. StandsKept
  <2> SUFFICES ASSUME NEW u \in Use, g.def[u] \in Def, NEW j \in g.dom[g.def[u]],
                      NEW v \in stands[u][j], NEW e \in Def, NEW i \in Inst,
                      <<i, v[2]>> \in RAW(scop)[<<e, v[1]>>]
               PROVE  \E c \in made : Orig[c] = e /\ <<i, j>> \in g.raw[<<c, u>>]
    BY DEF StandsKept, Kept
  <2>1. j \in Inst
    BY <1>2 DEF Graph
  <2>2. v[1] = u /\ v[2] = j
    <3>1. stands[u] = [l \in Inst |-> IF g.def[u] = NoDef THEN {} ELSE {<<u, l>>}]
      BY <1>3
    <3>2. stands[u][j] = IF g.def[u] = NoDef THEN {} ELSE {<<u, j>>}
      BY <2>1, <3>1
    <3>3. v = <<u, j>>
      BY <3>2
    <3> QED BY <3>3
  <2>3. <<i, j>> \in g.raw[<<e, u>>]
    <3>1. <<e, u>> \in Def \X Use /\ g.def[<<e, u>>[2]] \in Def /\ <<i, j>>[2] \in g.dom[g.def[<<e, u>>[2]]]
          /\ <<i, j>> \in RAW(scop)[<<e, u>>]
      BY <2>2
    <3> QED BY <1>1, <3>1 DEF RawKept
  <2>4. <<i, j>>[1] \in g.dom[e]
    BY <1>1, <2>3 DEF RawStarts
  <2>5. e \in made
    BY <1>2, <1>3, <2>4
  <2> QED BY <1>3, <2>3, <2>5
<1>9. OperandsOK
  BY <1>1, <1>5 DEF OperandsOK
<1> QED BY <1>1, <1>4, <1>6, <1>7, <1>8, <1>9 DEF DInv

-----------------------------------------------------------------------------
LEMMA KeptThrough ==
    ASSUME NEW h, NEW r, NEW nodes \in SUBSET Def, NEW st, NEW raw, Kept(h, nodes, st, raw),
           r.def = h.def, \A d \in Def : r.dom[d] \subseteq h.dom[d],
           \A k \in Def \X Use : h.def[k[2]] \in Def =>
              \A p \in h.raw[k] : p[2] \in r.dom[h.def[k[2]]] => p \in r.raw[k]
    PROVE  Kept(r, nodes, st, raw)
<1> SUFFICES ASSUME NEW u \in Use, r.def[u] \in Def, NEW j \in r.dom[r.def[u]],
                    NEW v \in st[u][j], NEW e \in Def, NEW i \in Inst,
                    <<i, v[2]>> \in raw[<<e, v[1]>>]
             PROVE  \E c \in nodes : Orig[c] = e /\ <<i, j>> \in r.raw[<<c, u>>]
  BY DEF Kept
<1>1. r.def = h.def /\ j \in h.dom[h.def[u]]
  OBVIOUS
<1>2. PICK c \in nodes : Orig[c] = e /\ <<i, j>> \in h.raw[<<c, u>>]
  BY <1>1 DEF Kept
<1>3. <<c, u>> \in Def \X Use /\ <<c, u>>[2] = u /\ <<i, j>>[2] = j
  OBVIOUS
<1>4. <<i, j>> \in r.raw[<<c, u>>]
  BY <1>1, <1>2, <1>3
<1> QED BY <1>2, <1>4

(* A step that leaves the nodes and what the operands stand for alone and loses no dependence. *)
LEMMA Inherited ==
    ASSUME DInv, run.stage # "reload", run'.stage # "reload", EInv', ReadsStep(g, g'),
           scop' = scop, made' = made, stands' = stands, RunOK', SplitsOK'
    PROVE  DInv'
<1>1. GInv' /\ OperandsOK'
  BY DEF EInv, OperandsOK
<1>2. g'.def = g.def /\ \A d \in Def : g'.dom[d] \subseteq g.dom[d]
  BY DEF ReadsStep
<1>3. NodesOK' /\ StandsOK'
  BY <1>2 DEF DInv, NodesOK, StandsOK
<1>4. StandsKept'
  <2>1. Kept(g, made, stands, RAW(scop)) /\ made \in SUBSET Def
    BY DEF DInv, StandsKept, NodesOK
  <2>2. \A k \in Def \X Use : g.def[k[2]] \in Def =>
           \A p \in g.raw[k] : p[2] \in g'.dom[g.def[k[2]]] => p \in g'.raw[k]
    BY DEF ReadsStep
  <2>3. Kept(g', made, stands, RAW(scop))
    BY <1>2, <2>1, <2>2, KeptThrough
  <2> QED BY <2>3 DEF StandsKept
<1> QED BY <1>1, <1>3, <1>4 DEF DInv

LEMMA Restricts ==
    ASSUME DInv, run.stage # "reload", run'.stage # "reload", [Next]_vars,
           made' = made, stands' = stands, RunOK', SplitsOK'
    PROVE  DInv'
<1>1. EInv
  BY DEF DInv, OperandsOK, EInv
<1>2. EInv' /\ ReadsStep(g, g')
  BY <1>1, StepEdges
<1>3. scop' = scop
  BY DEF Next, vars, CheckBarrier, RestrictStmt, VisitEdge, NextPhase
<1> QED BY <1>2, <1>3, Inherited

(* A step of the driver that touches nothing but its own progress. *)
LEMMA Progress ==
    ASSUME DInv, UNCHANGED <<scop, g, must, op, made, stands>>,
           run.stage # "reload", run'.stage # "reload", RunOK', SplitsOK'
    PROVE  DInv'
BY Restricts DEF vars

(* Outside of the splits there are no pieces. *)
LEMMA StillNoPieces ==
    ASSUME SplitsOK, run.stage \notin {"cut", "split"}, \A t \in Def : run'.splits[t] = run.splits[t]
    PROVE  SplitsOK'
BY NoPieces DEF SplitsOK

(* Restrictions: of a node of a loop, of the source that was propagated, and the visits of a setDomain. *)
LEMMA RestrictNodeKeeps == ASSUME DInv, NEW d \in Def, RestrictNode(d) PROVE DInv'
<1>1. [Next]_vars /\ made' = made /\ stands' = stands
  BY DEF RestrictNode, RestrictOnce, Next
<1>2. run.stage \in {"create", "delete"} /\ run' = [run EXCEPT !.todo = @ \ {d}]
  BY DEF RestrictNode
<1>3. RunOK'
  BY <1>1, <1>2 DEF DInv, RunOK, RunRecord
<1>4. run.stage # "reload" /\ run'.stage # "reload" /\ SplitsOK'
  BY <1>2, StillNoPieces DEF DInv, RunOK, RunRecord
<1> QED BY <1>1, <1>3, <1>4, Restricts

LEMMA FinishSourceKeeps == ASSUME DInv, FinishSource PROVE DInv'
<1>1. [Next]_vars /\ made' = made /\ stands' = stands
  <2>1. run.src \in Def
    BY DEF DInv, RunOK, RunRecord, FinishSource
  <2> QED BY <2>1 DEF FinishSource, RestrictOnce, Next
<1>2. run.stage = "propagate" /\ run.edges = {} /\ run' = [run EXCEPT !.src = NoDef]
  BY DEF FinishSource
<1>3. RunOK'
  BY <1>1, <1>2 DEF DInv, RunOK, RunRecord
<1>4. run'.stage # "reload" /\ SplitsOK'
  BY <1>2, StillNoPieces DEF DInv, RunOK, RunRecord
<1> QED BY <1>1, <1>2, <1>3, <1>4, Restricts

LEMMA VisitKeeps ==
    ASSUME DInv, VisitEdge \/ NextPhase, UNCHANGED <<run, made, stands>>
    PROVE  DInv'
<1>1. [Next]_vars /\ IInv
  BY DEF Next, DInv, GInv
<1>2. g'.dom = g.dom
  <2>1. CASE VisitEdge
    <3>1. PICK k \in op.todo : g' = Shrink(g, op.def, Phases[op.phase], k)
      BY <2>1 DEF VisitEdge
    <3>2. op.phase \in 1..5
      <4>1. op.phase \in 0..5 /\ op.phase # 0
        BY <1>1, <3>1 DEF IInv, TypeOK, TodoOK
      <4> QED BY <4>1
    <3>3. VisitOK(g')
      <4>1. CASE op.phase \in {1, 2}
        BY <1>1, <3>1, <4>1, VisitWar
      <4>2. CASE op.phase = 3
        BY <1>1, <3>1, <4>2, VisitWaw
      <4>3. CASE op.phase \in {4, 5}
        BY <1>1, <3>1, <4>3, VisitRaw
      <4> QED BY <3>2, <4>1, <4>2, <4>3
    <3> QED BY <3>3 DEF VisitOK, SameNodes
  <2>2. CASE NextPhase
    BY <2>2 DEF NextPhase
  <2> QED BY <2>1, <2>2
<1>3. run.stage # "reload"
  BY DEF DInv, OperandsOK, Detached, Idle, VisitEdge, NextPhase
<1>4. RunOK' /\ SplitsOK'
  BY <1>2 DEF DInv, RunOK, SplitsOK
<1> QED BY <1>1, <1>3, <1>4, Restricts

-----------------------------------------------------------------------------
(* Steps that only move the driver on. *)
LEMMA LoopKeeps == ASSUME DInv, EndLoop \/ EndWorklist PROVE DInv'
<1>1. UNCHANGED <<scop, g, must, op, made, stands>>
  BY DEF EndLoop, EndWorklist
<1>2. /\ run.stage \in {"create", "delete", "worklist"}
      /\ \/ run' = [run EXCEPT !.stage = "worklist"]
         \/ run' = [run EXCEPT !.stage = "done"]
         \/ run' = [run EXCEPT !.stage = "delete", !.todo = made]
  BY DEF EndLoop, EndWorklist
<1>3. RunOK'
  <2>1. made' = made /\ made \subseteq Def /\ RunOK
    BY <1>1 DEF DInv, NodesOK
  <2>2. CASE run' = [run EXCEPT !.stage = "worklist"]
    BY <2>1, <2>2 DEF RunOK, RunRecord
  <2>3. CASE run' = [run EXCEPT !.stage = "done"]
    BY <2>1, <2>3 DEF RunOK, RunRecord
  <2>4. CASE run' = [run EXCEPT !.stage = "delete", !.todo = made]
    BY <2>1, <2>4 DEF RunOK, RunRecord
  <2> QED BY <1>2, <2>2, <2>3, <2>4
<1>4. run.stage # "reload" /\ run'.stage # "reload" /\ SplitsOK'
  BY <1>2, StillNoPieces DEF DInv, RunOK, RunRecord
<1> QED BY <1>1, <1>3, <1>4, Progress

LEMMA SkipKeeps == ASSUME DInv, run.stage = "worklist", NEW a, Skip(a) PROVE DInv'
<1>1. UNCHANGED <<scop, g, must, op, made, stands>> /\ run' = [run EXCEPT !.groups = @ \ {a}]
  BY DEF Skip
<1>2. RunOK'
  BY <1>1 DEF DInv, RunOK, RunRecord
<1>3. run'.stage # "reload" /\ SplitsOK'
  BY <1>1, StillNoPieces DEF DInv, RunOK, RunRecord
<1> QED BY <1>1, <1>2, <1>3, Progress

LEMMA GiveUpKeeps == ASSUME DInv, GiveUp PROVE DInv'
<1>1. UNCHANGED <<scop, g, must, op, made, stands>> /\ run.stage = "cut"
  BY DEF GiveUp, AllCut
<1>2. run' = [run EXCEPT !.stage = "worklist", !.todo = {}, !.nonTrgs = {},
                         !.splits = [t \in Def |-> <<>>]]
  BY DEF GiveUp
<1>3. <<>> \in BoundedSeq(SUBSET Inst, Cardinality(Inst))
  BY NoPieces, PiecesBounded
<1>4. RunOK'
  BY <1>1, <1>2, <1>3 DEF DInv, RunOK, RunRecord
<1>5. run'.splits = [t \in Def |-> <<>>] /\ run'.stage = "worklist"
  BY <1>2 DEF DInv, RunOK, RunRecord
<1>6. SplitsOK'
  BY <1>5, NoPieces DEF SplitsOK
<1> QED BY <1>1, <1>4, <1>5, <1>6, Progress

LEMMA StartSplitsKeeps == ASSUME DInv, StartSplits PROVE DInv'
<1>1. UNCHANGED <<scop, g, must, op, made, stands>> /\ run.stage = "cut"
  BY DEF StartSplits, AllCut
<1>2. run' = [run EXCEPT !.stage   = "split",
                         !.partial = @ \/ \E k \in OutEdges(run.todo) : ~ FullProp(k),
                         !.blocked = @ \/ \E k \in OutEdges(run.todo) : ~ Unblocked(k)]
  BY DEF StartSplits
<1> DEFINE partial == \E k \in OutEdges(run.todo) : ~ FullProp(k)
           blocked == \E k \in OutEdges(run.todo) : ~ Unblocked(k)
<1> HIDE DEF partial, blocked
<1>3. run' = [run EXCEPT !.stage = "split", !.partial = @ \/ partial, !.blocked = @ \/ blocked]
  BY <1>2 DEF partial, blocked
<1>4. RunOK'
  BY <1>1, <1>3 DEF DInv, RunOK, RunRecord
<1>5. run'.splits = run.splits /\ run'.stage = "split"
  BY <1>3 DEF DInv, RunOK, RunRecord
<1>6. SplitsOK'
  BY <1>1, <1>5 DEF DInv, SplitsOK
<1> QED BY <1>1, <1>4, <1>5, <1>6, Progress

LEMMA CutTargetKeeps == ASSUME DInv, CutTarget PROVE DInv'
<1>1. UNCHANGED <<scop, g, must, op, made, stands>> /\ run.stage = "cut"
      /\ \E t \in Def : run.cuts[t] # {}
  BY DEF CutTarget
<1> DEFINE first == CHOOSE d \in Def : run.cuts[d] # {}
<1>2. first \in Def
  BY <1>1
<1>3. PICK D \in run.cuts[first] :
        run' = [run EXCEPT !.splits[first] = Cut(@, D), !.cuts[first] = @ \ {D}]
  BY DEF CutTarget
<1>4. PICK t \in Def : t = first
  BY <1>2
<1> HIDE DEF first
<1>5. /\ run.splits \in [Def -> BoundedSeq(SUBSET Inst, Cardinality(Inst))]
      /\ run.cuts \in [Def -> SUBSET SUBSET Inst]
      /\ run' = [run EXCEPT !.splits = [@ EXCEPT ![t] = Cut(run.splits[t], D)],
                            !.cuts = [@ EXCEPT ![t] = run.cuts[t] \ {D}]]
  BY <1>3, <1>4 DEF DInv, RunOK, RunRecord
<1>6. IsPieces(Cut(run.splits[t], D), g.dom[t]) /\ g.dom[t] \in SUBSET Inst
  BY CutPieces DEF DInv, SplitsOK, GInv, IInv, TypeOK, Graph
<1>7. Cut(run.splits[t], D) \in BoundedSeq(SUBSET Inst, Cardinality(Inst))
  BY <1>6, PiecesBounded
<1>8. RunOK'
  BY <1>1, <1>5, <1>7 DEF DInv, RunOK, RunRecord
<1>9. run'.splits = [run.splits EXCEPT ![t] = Cut(run.splits[t], D)] /\ run'.stage = "cut"
  BY <1>1, <1>5 DEF DInv, RunOK, RunRecord
<1>10. SplitsOK'
  BY <1>1, <1>5, <1>6, <1>9 DEF DInv, SplitsOK
<1> QED BY <1>1, <1>8, <1>9, <1>10, Progress

LEMMA StartPropagationKeeps == ASSUME DInv, StartPropagation PROVE DInv'
<1>1. UNCHANGED <<scop, g, must, op, made, stands>> /\ run.stage = "split"
      /\ run' = [run EXCEPT !.stage = "propagate", !.splits = [t \in Def |-> <<>>]]
  BY DEF StartPropagation
<1>2. <<>> \in BoundedSeq(SUBSET Inst, Cardinality(Inst))
  BY NoPieces, PiecesBounded
<1>3. RunOK'
  BY <1>1, <1>2 DEF DInv, RunOK, RunRecord
<1>4. run'.splits = [t \in Def |-> <<>>] /\ run'.stage = "propagate"
  BY <1>1 DEF DInv, RunOK, RunRecord
<1>5. SplitsOK'
  BY <1>4, NoPieces DEF SplitsOK
<1> QED BY <1>1, <1>3, <1>4, <1>5, Progress

LEMMA PickSourceFacts ==
    ASSUME run \in RunRecord, NEW d \in Def, PickSource(d)
    PROVE  /\ run' \in RunRecord /\ UNCHANGED <<scop, g, must, op, made, stands>>
           /\ run.stage = "propagate" /\ op = Idle /\ run.src = NoDef /\ d \in run.todo
           /\ run'.src = d /\ run'.todo = run.todo \ {d} /\ run'.edges = OutEdges({d})
           /\ run'.blocked = (run.blocked \/ \E k \in OutEdges({d}) : ~ Subscripted(k[2]))
           /\ \A f \in {"stage", "groups", "cuts", "splits", "nonTrgs", "edge", "loads", "changed", "partial"} :
                 run'[f] = run[f]
<1> DEFINE opaque == \E k \in OutEdges({d}) : ~ Subscripted(k[2])
<1>1. opaque \in BOOLEAN /\ OutEdges({d}) \in SUBSET (Def \X Use)
  BY DEF OutEdges
<1>2. run' = [run EXCEPT !.src = d, !.todo = @ \ {d}, !.edges = OutEdges({d}), !.blocked = @ \/ opaque]
  BY DEF PickSource
<1>3. /\ UNCHANGED <<scop, g, must, op, made, stands>>
      /\ run.stage = "propagate" /\ op = Idle /\ run.src = NoDef /\ d \in run.todo
  BY DEF PickSource
<1> HIDE DEF opaque
<1>4. run' \in RunRecord /\ run'.blocked = (run.blocked \/ opaque)
  BY <1>1, <1>2 DEF RunRecord
<1>5. run'.src = d /\ run'.todo = run.todo \ {d} /\ run'.edges = OutEdges({d})
  BY <1>1, <1>2 DEF RunRecord
<1>6. \A f \in {"stage", "groups", "cuts", "splits", "nonTrgs", "edge", "loads", "changed", "partial"} :
         run'[f] = run[f]
  BY <1>1, <1>2 DEF RunRecord
<1> QED BY <1>3, <1>4, <1>5, <1>6 DEF opaque

LEMMA PickSourceKeeps == ASSUME DInv, NEW d \in Def, PickSource(d) PROVE DInv'
<1>1. /\ run' \in RunRecord /\ UNCHANGED <<scop, g, must, op, made, stands>>
      /\ run.stage = "propagate" /\ run'.stage = "propagate" /\ d \in run.todo
      /\ run'.src = d /\ run'.todo = run.todo \ {d} /\ run'.edges = OutEdges({d})
      /\ run'.splits = run.splits
  BY PickSourceFacts DEF DInv, RunOK
<1>2. RunOK'
  BY <1>1 DEF DInv, RunOK
<1>3. SplitsOK'
  BY <1>1, StillNoPieces DEF DInv
<1> QED BY <1>1, <1>2, <1>3, Progress

LEMMA EndKeeps == ASSUME DInv, Abort \/ FinishGroup PROVE DInv'
<1>1. UNCHANGED <<scop, g, must, op, made, stands>> /\ run.stage = "propagate"
      /\ \/ run' = [run EXCEPT !.stage = "aborted"]
         \/ run' = [run EXCEPT !.stage = "worklist", !.nonTrgs = {}, !.changed = TRUE]
  BY DEF Abort, FinishGroup
<1>2. RunOK'
  BY <1>1 DEF DInv, RunOK, RunRecord
<1>3. run'.stage # "reload" /\ SplitsOK'
  BY <1>1, StillNoPieces DEF DInv, RunOK, RunRecord
<1> QED BY <1>1, <1>2, <1>3, Progress

-----------------------------------------------------------------------------
(* Asking for recompute domains fills caches only. *)
LEMMA AskFacts ==
    ASSUME NEW h \in Graph, NEW D
    PROVE  LET r == AskBarriers(h, D)
           IN  r \in Graph /\ SameNodes(h, r) /\ r.raw = h.raw /\ r.war = h.war /\ r.used = h.used
<1> DEFINE barrier == [d \in Def |-> IF d \in D THEN FillBarrier(h, d).barrier[d] ELSE h.barrier[d]]
           over    == [d \in Def |-> IF d \in D /\ SelfBarred(h, d) THEN OverwrittenSet(h, d)
                                     ELSE h.over[d]]
           r       == AskBarriers(h, D)
<1>1. r = [h EXCEPT !.barrier = barrier, !.over = over]
  BY DEF AskBarriers
<1>2. barrier \in [Def -> Cache(Inst \X (Def \X Inst))]
  <2>1. ASSUME NEW d \in Def PROVE FillBarrier(h, d).barrier[d] \in Cache(Inst \X (Def \X Inst))
    <3>1. FillBarrier(h, d) \in Graph
      BY FillBarrierFacts
    <3> QED BY <3>1 DEF Graph
  <2> QED BY <2>1 DEF Graph
<1>3. over \in [Def -> Cache(Inst)]
  <2>1. ASSUME NEW d \in Def PROVE OverwrittenSet(h, d) \in Cache(Inst)
    BY DEF OverwrittenSet, WawDomain, Graph, Cache
  <2> QED BY <2>1 DEF Graph
<1> HIDE DEF barrier, over
<1> QED BY <1>1, <1>2, <1>3 DEF Graph, SameNodes

LEMMA AskKeeps ==
    ASSUME EInv, NEW K \in SUBSET (Def \X Use), Ask(K)
    PROVE  EInv' /\ ReadsStep(g, g') /\ g'.dom = g.dom
<1> DEFINE D == {k[1] : k \in K}
<1>1. g \in Graph /\ g' = AskBarriers(g, D) /\ must' = must \cup MustDelete(g, D)
      /\ UNCHANGED <<scop, op, made, stands>>
  BY DEF Ask, EInv, GInv, IInv, TypeOK
<1> HIDE DEF D
<1>2. g' \in Graph /\ SameNodes(g, g') /\ g'.raw = g.raw /\ g'.war = g.war /\ g'.used = g.used
  BY <1>1, AskFacts
<1>3. TypeOK'
  <2>1. must' \subseteq Def
    <3>1. must \subseteq Def
      BY DEF EInv, GInv, IInv, TypeOK
    <3> QED BY <1>1, <3>1 DEF MustDelete, D
  <2> QED BY <1>1, <1>2, <2>1 DEF EInv, GInv, IInv, TypeOK
<1>4. UsedCoherent' /\ RawStarts'
  BY <1>2 DEF EInv, GInv, IInv, UsedCoherent, RawStarts, RawDomain, SameNodes
<1>5. WarEnds' /\ TodoOK'
  BY <1>1, <1>2 DEF EInv, GInv, IInv, WarEnds, TodoOK, KeysOf, SameNodes
<1>6. IInv'
  BY <1>3, <1>4, <1>5 DEF IInv
<1> QED BY <1>1, <1>2, <1>6, ReadsUntouched DEF SameNodes

(* The target of an edge is a statement that has an instance, unless the edge is about to be cut. *)
LEMMA TargetExists ==
    ASSUME GInv, op.phase = 0, NEW k \in Def \X Use, g.raw[k] # {}
    PROVE  g.def[k[2]] \in Def /\ g.dom[g.def[k[2]]] # {}
<1>1. PICK p : p \in g.raw[k]
  OBVIOUS
<1>2. g.def[k[2]] \in Def /\ p[2] \in g.dom[g.def[k[2]]]
  BY <1>1 DEF GInv, RawStops
<1> QED BY <1>2

LEMMA PropagateEdgesKeeps == ASSUME DInv, NEW a \in Array, PropagateEdges(a) PROVE DInv'
<1>1. run.stage = "worklist" /\ op = Idle /\ op.phase = 0 /\ EInv
  BY DEF PropagateEdges, Idle, DInv, OperandsOK, EInv
<1>2. CASE Skip(a)
  BY <1>1, <1>2, SkipKeeps
<1>3. CASE ~ Skip(a)
  <2>1. PICK unworthy : Ask(PropEdges(a, NonPropTrgs(a, unworthy)))
                        /\ Plan(a, PropEdges(a, NonPropTrgs(a, unworthy)), NonPropTrgs(a, unworthy))
    BY <1>3 DEF PropagateEdges
  <2> DEFINE nonTrgs == NonPropTrgs(a, unworthy)
             K       == PropEdges(a, nonTrgs)
             srcs    == Nodes(a) \ NonPropSrcs(a, nonTrgs)
             trgs    == {g.def[k[2]] : k \in K}
             along(t) == {TargetDomain(k) : k \in {e \in K : e[1] \in srcs /\ g.def[e[2]] = t}}
             cuts    == [t \in Def |-> along(t)]
             splits  == [t \in Def |-> IF t \in trgs THEN <<g.dom[t]>> ELSE <<>>]
  <2>2. \A D \in SUBSET Def : OutEdges(D) \subseteq {k \in Def \X Use : g.raw[k] # {}}
    BY DEF OutEdges
  <2>3. Nodes(a) \in SUBSET Def /\ Nodes(a) \subseteq made
    BY DEF Nodes, DInv, NodesOK
  <2>4. \A k \in OutEdges(Nodes(a)) : k \in Def \X Use /\ g.def[k[2]] \in Def /\ g.dom[g.def[k[2]]] # {}
    BY <1>1, <2>2, <2>3, TargetExists DEF DInv
  <2>5. nonTrgs \subseteq Def
    <3>1. AffineTargets(a) \subseteq Def /\ OpaqueTargets(a) \subseteq Def
      BY <2>4 DEF AffineTargets, OpaqueTargets
    <3>2. AffineTargets(a) \cap Nodes(a) \in SUBSET Def
      BY <2>3
    <3>3. InGroupTargets(a) \subseteq Def
      BY <1>1, <2>2, <3>2, TargetExists DEF InGroupTargets, DInv
    <3> QED BY <3>1, <3>3 DEF NonPropTrgs
  <2>6. K \in SUBSET (Def \X Use) /\ \A k \in K : g.def[k[2]] \in Def /\ g.dom[g.def[k[2]]] # {}
    BY <2>4 DEF PropEdges
  <2>7. srcs \subseteq made /\ srcs \subseteq Def
    BY <2>3
  <2>8. \A t \in trgs : t \in Def /\ g.dom[t] # {}
    BY <2>6
  <2>9. cuts \in [Def -> SUBSET SUBSET Inst]
    <3>1. \A k \in Def \X Use : TargetDomain(k) \in SUBSET Inst
      BY <1>1 DEF TargetDomain, EInv, GInv, IInv, TypeOK, Graph, Map
    <3> QED BY <2>6, <3>1
  <2> HIDE DEF nonTrgs
  <2>10. EInv' /\ ReadsStep(g, g') /\ g'.dom = g.dom /\ UNCHANGED <<scop, op, made, stands>>
    <3>1. Ask(K)
      BY <2>1 DEF nonTrgs
    <3>2. UNCHANGED <<scop, op, made, stands>>
      BY <3>1 DEF Ask
    <3> HIDE DEF K
    <3> QED BY <1>1, <2>6, <3>1, <3>2, AskKeeps
  <2>11. \/ run' = [run EXCEPT !.stage = "cut", !.groups = @ \ {a}, !.todo = srcs,
                               !.cuts = cuts, !.splits = splits, !.nonTrgs = nonTrgs]
         \/ run' = [run EXCEPT !.groups = @ \ {a}]
    BY <2>1 DEF Plan, nonTrgs
  <2> HIDE DEF K, srcs, cuts
  <2>12. \A t \in Def : IsPieces(splits[t], g.dom[t])
    <3>1. \A t \in Def : t \in trgs => IsPieces(<<g.dom[t]>>, g.dom[t])
      BY <2>8, OnePiece
    <3> HIDE DEF trgs
    <3> QED BY <3>1, NoPieces
  <2>13. splits \in [Def -> BoundedSeq(SUBSET Inst, Cardinality(Inst))]
    <3>1. \A t \in Def : g.dom[t] \in SUBSET Inst
      BY <1>1 DEF EInv, GInv, IInv, TypeOK, Graph
    <3>2. splits = [t \in Def |-> splits[t]]
      OBVIOUS
    <3> HIDE DEF splits
    <3>3. \A t \in Def : splits[t] \in BoundedSeq(SUBSET Inst, Cardinality(Inst))
      BY <2>12, <3>1, PiecesBounded
    <3> QED BY <3>2, <3>3
  <2> HIDE DEF splits
  <2>14. CASE run' = [run EXCEPT !.stage = "cut", !.groups = @ \ {a}, !.todo = srcs,
                                 !.cuts = cuts, !.splits = splits, !.nonTrgs = nonTrgs]
    <3>1. RunOK'
      BY <2>5, <2>7, <2>9, <2>10, <2>13, <2>14 DEF DInv, RunOK, RunRecord
    <3>2. run'.stage = "cut" /\ run'.splits = splits
      BY <2>14 DEF DInv, RunOK, RunRecord
    <3>3. SplitsOK'
      BY <2>10, <2>12, <3>2 DEF SplitsOK
    <3> QED BY <1>1, <2>10, <3>1, <3>2, <3>3, Inherited
  <2>15. CASE run' = [run EXCEPT !.groups = @ \ {a}]
    <3>1. RunOK'
      BY <2>10, <2>15 DEF DInv, RunOK, RunRecord
    <3>2. run'.stage = "worklist" /\ run'.splits = run.splits
      BY <1>1, <2>15 DEF DInv, RunOK, RunRecord
    <3>3. SplitsOK'
      BY <1>1, <3>2, StillNoPieces DEF DInv
    <3> QED BY <1>1, <2>10, <3>1, <3>2, <3>3, Inherited
  <2> QED BY <2>11, <2>14, <2>15
<1> QED BY <1>2, <1>3

-----------------------------------------------------------------------------
(***************************************************************************)
(* Outside of a setDomain the edges of the reads relate instances that     *)
(* exist, and this is all the graph has to satisfy.                        *)
(***************************************************************************)
Tied(h) ==
    /\ \A k \in Def \X Use : \A p \in h.raw[k] :
          p[1] \in h.dom[k[1]] /\ h.def[k[2]] \in Def /\ p[2] \in h.dom[h.def[k[2]]]
    /\ \A k \in Use \X Def : \A p \in h.war[k] :
          h.def[k[1]] \in Def /\ p[1] \in h.dom[h.def[k[1]]] /\ p[2] \in h.dom[k[2]]

LEMMA TiedIdle == ASSUME GInv, op = Idle PROVE Tied(g)
<1>1. op.phase = 0
  BY DEF Idle
<1>2. ASSUME NEW k \in Def \X Use, NEW p \in g.raw[k] PROVE p[1] \in g.dom[k[1]]
  <2>1. k = <<k[1], k[2]>> /\ k[1] \in Def /\ k[2] \in Use
    BY PairFacts
  <2> QED BY <2>1 DEF GInv, IInv, RawStarts
<1>3. \A k \in Def \X Use : \A p \in g.raw[k] : g.def[k[2]] \in Def /\ p[2] \in g.dom[g.def[k[2]]]
  BY <1>1 DEF GInv, RawStops
<1>4. \A k \in Use \X Def : \A p \in g.war[k] :
        g.def[k[1]] \in Def /\ p[1] \in g.dom[g.def[k[1]]] /\ p[2] \in g.dom[k[2]]
  BY <1>1 DEF GInv, WarStarts, WarStops
<1> QED BY <1>2, <1>3, <1>4 DEF Tied

LEMMA IdleTied ==
    ASSUME g' \in Graph, scop' \in Scops, must' \subseteq Def, UsedCoherent', Tied(g'), op' = Idle
    PROVE  GInv'
<1>1. op'.phase = 0 /\ op'.todo = {}
      /\ op' \in [def : Def \cup {NoDef}, phase : 0..5, todo : SUBSET EdgeKey]
  BY DEF Idle
<1>2. TypeOK' /\ WarEnds' /\ TodoOK' /\ WarTodo'
  BY <1>1 DEF TypeOK, WarEnds, TodoOK, WarTodo
<1>3. RawStarts'
  <2>1. ASSUME NEW d \in Def, NEW u \in Use, NEW p \in g'.raw[<<d, u>>] PROVE p[1] \in g'.dom[d]
    <3>1. <<d, u>> \in Def \X Use /\ <<d, u>>[1] = d
      OBVIOUS
    <3> QED BY <2>1, <3>1 DEF Tied
  <2> QED BY <2>1 DEF RawStarts
<1>4. WarStops' /\ WarStarts' /\ RawStops'
  BY DEF Tied, WarStops, WarStarts, RawStops
<1> QED BY <1>2, <1>3, <1>4 DEF GInv, IInv

(* The same at the start of a setDomain, which has yet to visit what it may cut. *)
LEMMA BegunTied ==
    ASSUME g' \in Graph, scop' \in Scops, must' \subseteq Def, UsedCoherent', Tied(g'),
           NEW d \in Def, op' = [def |-> d, phase |-> 1, todo |-> EdgesOf(g', d, Phases[1])]
    PROVE  GInv'
<1>1. op'.def = d /\ op'.phase = 1 /\ op'.todo = {k \in Use \X Def : k[2] = d /\ g'.war[k] # {}}
      /\ op' \in [def : Def \cup {NoDef}, phase : 0..5, todo : SUBSET EdgeKey]
  BY DEF EdgesOf, Phases, EdgeKey
<1>2. TypeOK' /\ WarTodo'
  BY <1>1 DEF TypeOK, WarTodo
<1>3. WarEnds' /\ TodoOK'
  <2>1. KeysOf(g', d, 1) = {k \in Use \X Def : k[2] = d}
    BY DEF KeysOf
  <2>2. \A u \in Use : <<u, d>> \in op'.todo \/ g'.war[<<u, d>>] = {}
    BY <1>1
  <2>3. WarEnds'
    BY <1>1, <2>2 DEF WarEnds
  <2>4. TodoOK'
    BY <1>1, <2>1 DEF TodoOK
  <2> QED BY <2>3, <2>4
<1>4. RawStarts'
  <2>1. ASSUME NEW e \in Def, NEW u \in Use, NEW p \in g'.raw[<<e, u>>] PROVE p[1] \in g'.dom[e]
    <3>1. <<e, u>> \in Def \X Use /\ <<e, u>>[1] = e
      OBVIOUS
    <3> QED BY <2>1, <3>1 DEF Tied
  <2> QED BY <2>1 DEF RawStarts
<1>5. WarStops' /\ WarStarts' /\ RawStops'
  BY DEF Tied, WarStops, WarStarts, RawStops
<1> QED BY <1>2, <1>3, <1>4, <1>5 DEF GInv, IInv

-----------------------------------------------------------------------------
OpsAre(h) == \A d \in Def : h.ops[d] = {u \in Use : h.def[u] = d}

(* A split to a node nothing is in, with twins that are in no node. *)
LEMMA FreshSplit ==
    ASSUME NEW h \in Graph, Tied(h), OpsAre(h), NEW d \in Def, NEW c \in Def, c # d, h.dom[c] = {},
           NEW keep \in SUBSET h.dom[d], NEW twin \in [h.ops[d] -> {u \in Use : h.def[u] = NoDef}],
           \A o, q \in h.ops[d] : twin[o] = twin[q] => o = q
    PROVE  IsSplit(h, d, c, keep, twin) /\ \A u \in Twins(twin) : h.def[u] = NoDef
<1>1. \A u \in Twins(twin) : h.def[u] = NoDef
  BY DEF Twins
<1>2. Twins(twin) \cap h.ops[d] = {}
  BY <1>1, NoDefAssumption DEF OpsAre
<1>3. ASSUME NEW e \in Def, NEW u \in Use, e = c \/ u \in Twins(twin)
      PROVE  h.raw[<<e, u>>] = {} /\ h.war[<<u, e>>] = {}
  <2>1. <<e, u>> \in Def \X Use /\ <<e, u>>[1] = e /\ <<e, u>>[2] = u
        /\ <<u, e>> \in Use \X Def /\ <<u, e>>[1] = u /\ <<u, e>>[2] = e
    OBVIOUS
  <2>2. ASSUME NEW p \in h.raw[<<e, u>>] PROVE FALSE
    <3>1. p[1] \in h.dom[e] /\ h.def[u] \in Def
      BY <2>1, <2>2 DEF Tied
    <3> QED BY <1>1, <1>3, <3>1, NoDefAssumption
  <2>3. ASSUME NEW p \in h.war[<<u, e>>] PROVE FALSE
    <3>1. p[2] \in h.dom[e] /\ h.def[u] \in Def
      BY <2>1, <2>3 DEF Tied
    <3> QED BY <1>1, <1>3, <3>1, NoDefAssumption
  <2> QED BY <2>2, <2>3
<1>4. twin \in [h.ops[d] -> Use]
  OBVIOUS
<1> QED BY <1>1, <1>2, <1>3, <1>4 DEF IsSplit

(* A split leaves the edges tied and the used domains what they should be, *)
LEMMA SplitTied ==
    ASSUME NEW h \in Graph, Tied(h), OpsAre(h), NEW d \in Def, NEW c \in Def, \A u \in Use : h.def[u] # c,
           NEW keep, NEW twin, IsSplit(h, d, c, keep, twin), \A u \in Twins(twin) : h.def[u] = NoDef,
           NEW r, r = KeepInstances(SplitDef(h, d, c, keep, twin), d, keep)
    PROVE  Tied(r) /\ OpsAre(r)
<1>1. /\ r \in Graph
      /\ r.raw = SplitDef(h, d, c, keep, twin).raw /\ r.war = SplitDef(h, d, c, keep, twin).war
      /\ \A e \in Def : r.dom[e] = IF e = d THEN keep
                                 ELSE IF e = c THEN h.dom[d] \ keep ELSE h.dom[e]
      /\ \A e \in Def : r.ops[e] = IF e = c THEN Twins(twin) ELSE h.ops[e]
      /\ \A u \in Use : r.def[u] = IF u \in Twins(twin) THEN c ELSE h.def[u]
  <2>1. SplitGraph(h, d, c, keep, twin, r)
    BY SplitNodes
  <2> QED BY ONLY <2>1 DEF SplitGraph
<1>2. c # d /\ keep \subseteq h.dom[d] /\ Twins(twin) \subseteq Use /\ Twins(twin) \cap h.ops[d] = {}
  <2>1. c # d /\ keep \subseteq h.dom[d] /\ Twins(twin) \cap h.ops[d] = {}
    BY DEF IsSplit
  <2>2. Twins(twin) \subseteq Use
    BY TwinFacts
  <2> QED BY <2>1, <2>2
<1>3. h.dom \in [Def -> SUBSET Inst] /\ h.ops \in [Def -> SUBSET Use]
  BY DEF Graph
<1>4. r.dom[c] = h.dom[d] \ keep /\ r.dom[d] = keep /\ \A e \in Def : e # c /\ e # d => r.dom[e] = h.dom[e]
  BY <1>1, <1>2, <1>3
(* where an instance of a part is, *)
<1>5. ASSUME NEW e \in Def, NEW i, i \in h.dom[WasDef(d, c, e)], HasDef(h, d, c, keep, e, i)
      PROVE  i \in r.dom[e]
  BY <1>2, <1>4, <1>5 DEF WasDef, HasDef
<1>6. ASSUME NEW u \in Use, NEW i, h.def[WasUse(twin, u)] \in Def, i \in h.dom[h.def[WasUse(twin, u)]],
             HasUse(h, d, keep, twin, u, i)
      PROVE  r.def[u] \in Def /\ i \in r.dom[r.def[u]]
  <2>1. CASE u \in Twins(twin)
    <3>1. r.def[u] = c
      BY <1>1, <2>1
    <3> QED BY <1>4, <1>6, <2>1, <3>1 DEF HasUse
  <2>2. CASE u \notin Twins(twin)
    <3>1. r.def[u] = h.def[u] /\ WasUse(twin, u) = u /\ h.def[u] # c
      BY <1>1, <2>2 DEF WasUse
    <3>2. CASE h.def[u] = d
      <4>1. u \in h.ops[d]
        BY <3>2 DEF OpsAre
      <4> QED BY <1>4, <1>6, <3>1, <3>2, <4>1 DEF HasUse
    <3>3. CASE h.def[u] # d
      BY <1>4, <1>6, <3>1, <3>3
    <3> QED BY <3>2, <3>3
  <2> QED BY <2>1, <2>2
<1>7. ASSUME NEW k \in Def \X Use, NEW p \in r.raw[k]
      PROVE  p[1] \in r.dom[k[1]] /\ r.def[k[2]] \in Def /\ p[2] \in r.dom[r.def[k[2]]]
  <2>1. PICK e \in Def, u \in Use : k = <<e, u>>
    OBVIOUS
  <2> DEFINE was == <<WasDef(d, c, e), WasUse(twin, u)>>
  <2>2. p \in h.raw[was] /\ HasDef(h, d, c, keep, e, p[1]) /\ HasUse(h, d, keep, twin, u, p[2])
    BY <1>1, <1>7, <2>1, SplitFacts
  <2>3. was \in Def \X Use /\ was[1] = WasDef(d, c, e) /\ was[2] = WasUse(twin, u)
    BY TwinFacts DEF WasDef
  <2> HIDE DEF was
  <2>4. p[1] \in h.dom[was[1]] /\ h.def[was[2]] \in Def /\ p[2] \in h.dom[h.def[was[2]]]
    BY <2>2, <2>3 DEF Tied
  <2>5. p[1] \in r.dom[e]
    BY <1>5, <2>2, <2>3, <2>4
  <2>6. r.def[u] \in Def /\ p[2] \in r.dom[r.def[u]]
    BY <1>6, <2>2, <2>3, <2>4
  <2> QED BY <2>1, <2>5, <2>6
<1>8. ASSUME NEW k \in Use \X Def, NEW p \in r.war[k]
      PROVE  r.def[k[1]] \in Def /\ p[1] \in r.dom[r.def[k[1]]] /\ p[2] \in r.dom[k[2]]
  <2>1. PICK u \in Use, e \in Def : k = <<u, e>>
    OBVIOUS
  <2> DEFINE was == <<WasUse(twin, u), WasDef(d, c, e)>>
  <2>2. p \in h.war[was] /\ HasUse(h, d, keep, twin, u, p[1]) /\ HasDef(h, d, c, keep, e, p[2])
    BY <1>1, <1>8, <2>1, SplitFacts
  <2>3. was \in Use \X Def /\ was[2] = WasDef(d, c, e) /\ was[1] = WasUse(twin, u)
    BY TwinFacts DEF WasDef
  <2> HIDE DEF was
  <2>4. h.def[was[1]] \in Def /\ p[1] \in h.dom[h.def[was[1]]] /\ p[2] \in h.dom[was[2]]
    BY <2>2, <2>3 DEF Tied
  <2>5. p[2] \in r.dom[e]
    BY <1>5, <2>2, <2>3, <2>4
  <2>6. r.def[u] \in Def /\ p[1] \in r.dom[r.def[u]]
    BY <1>6, <2>2, <2>3, <2>4
  <2> QED BY <2>1, <2>5, <2>6
<1>9. OpsAre(r)
  <2> SUFFICES ASSUME NEW e \in Def PROVE r.ops[e] = {u \in Use : r.def[u] = e}
    BY DEF OpsAre
  <2>1. CASE e = c
    <3>1. r.ops[e] = Twins(twin)
      BY <1>1, <1>3, <2>1
    <3>2. \A u \in Use : r.def[u] = c <=> u \in Twins(twin)
      BY <1>1
    <3> QED BY <1>2, <2>1, <3>1, <3>2
  <2>2. CASE e # c
    <3>1. r.ops[e] = h.ops[e] /\ h.ops[e] = {u \in Use : h.def[u] = e}
      BY <1>1, <1>3, <2>2 DEF OpsAre
    <3>2. \A u \in Use : r.def[u] = e <=> h.def[u] = e
      BY <1>1, <2>2, NoDefAssumption
    <3> QED BY <3>1, <3>2
  <2> QED BY <2>1, <2>2
<1> QED BY <1>7, <1>8, <1>9 DEF Tied

LEMMA TiedReal ==
    ASSUME NEW h \in Graph, Tied(h), OpsAre(h), NEW d \in Def, NEW e \in Def, NEW u \in Use,
           NEW p \in h.raw[<<e, u>>]
    PROVE  Real(h, d, e, u, p)
<1>1. p[1] \in h.dom[e] /\ h.def[u] \in Def /\ p[2] \in h.dom[h.def[u]]
  <2>1. <<e, u>> \in Def \X Use /\ <<e, u>>[1] = e /\ <<e, u>>[2] = u
    OBVIOUS
  <2> QED BY <2>1 DEF Tied
<1>2. h.ops[d] = {v \in Use : h.def[v] = d} /\ e \notin Use /\ u # d
  BY NodesAssumption DEF OpsAre
<1> QED BY <1>1, <1>2 DEF Real, Present

(* and every value an operand loads is still supplied, by the statement or by its copy. *)
LEMMA SplitKept ==
    ASSUME NEW h \in Graph, Tied(h), OpsAre(h), NEW d \in Def, NEW c \in Def, \A u \in Use : h.def[u] # c,
           NEW keep, NEW twin, IsSplit(h, d, c, keep, twin),
           NEW r, r = KeepInstances(SplitDef(h, d, c, keep, twin), d, keep),
           NEW nodes \in SUBSET Def, d \in nodes, c \notin nodes, Orig[c] = Orig[d],
           NEW st, NEW sp, \A u \in Use : sp[u] = st[WasUse(twin, u)],
           NEW raw, Kept(h, nodes, st, raw)
    PROVE  Kept(r, nodes \cup {c}, sp, raw)
<1>1. /\ r.raw = SplitDef(h, d, c, keep, twin).raw
      /\ \A e \in Def : r.dom[e] = IF e = d THEN keep
                                 ELSE IF e = c THEN h.dom[d] \ keep ELSE h.dom[e]
      /\ \A u \in Use : r.def[u] = IF u \in Twins(twin) THEN c ELSE h.def[u]
  <2>1. SplitGraph(h, d, c, keep, twin, r)
    BY SplitNodes
  <2> QED BY ONLY <2>1 DEF SplitGraph
<1>2. c # d /\ keep \subseteq h.dom[d] /\ h.dom \in [Def -> SUBSET Inst]
  BY DEF IsSplit, Graph
<1>3. r.dom[c] = h.dom[d] \ keep /\ r.dom[d] = keep /\ \A e \in Def : e # c /\ e # d => r.dom[e] = h.dom[e]
  BY <1>1, <1>2
<1> SUFFICES ASSUME NEW u \in Use, r.def[u] \in Def, NEW j \in r.dom[r.def[u]],
                    NEW v \in sp[u][j], NEW e \in Def, NEW i \in Inst,
                    <<i, v[2]>> \in raw[<<e, v[1]>>]
             PROVE  \E x \in nodes \cup {c} : Orig[x] = e /\ <<i, j>> \in r.raw[<<x, u>>]
  BY DEF Kept
<1> DEFINE w == WasUse(twin, u)
<1>4. w \in Use /\ v \in st[w][j]
  BY TwinFacts
<1>5. h.def[w] \in Def /\ j \in h.dom[h.def[w]] /\ HasUse(h, d, keep, twin, u, j)
  <2>1. CASE u \in Twins(twin)
    <3>1. r.def[u] = c /\ w \in h.ops[d] /\ w \in Use
      BY <1>1, <2>1, TwinFacts DEF WasUse
    <3>2. h.def[w] = d
      BY <3>1 DEF OpsAre
    <3>3. u \notin h.ops[d]
      BY <2>1 DEF IsSplit
    <3> QED BY <1>3, <3>1, <3>2, <3>3 DEF HasUse
  <2>2. CASE u \notin Twins(twin)
    <3>1. r.def[u] = h.def[u] /\ w = u /\ h.def[u] # c
      BY <1>1, <2>2 DEF WasUse
    <3>2. u \in h.ops[d] => h.def[u] = d
      BY DEF OpsAre
    <3> QED BY <1>2, <1>3, <2>2, <3>1, <3>2 DEF HasUse
  <2> QED BY <2>1, <2>2
<1> HIDE DEF w
<1>6. PICK o \in nodes : Orig[o] = e /\ <<i, j>> \in h.raw[<<o, w>>]
  BY <1>4, <1>5 DEF Kept
<1>7. Present(h, d, o, i)
  <2>1. Real(h, d, o, w, <<i, j>>) /\ <<i, j>>[1] = i
    BY <1>4, <1>6, TiedReal
  <2> QED BY <2>1 DEF Real
<1>8. PICK x \in Def : WasDef(d, c, x) = o /\ HasDef(h, d, c, keep, x, i)
  BY <1>6, <1>7, DefPart
<1>9. x \in nodes \cup {c} /\ Orig[x] = e
  BY <1>6, <1>8 DEF WasDef
<1>10. <<i, j>> \in r.raw[<<x, u>>]
  <2>1. <<i, j>>[1] = i /\ <<i, j>>[2] = j
    OBVIOUS
  <2>2. <<i, j>> \in h.raw[<<WasDef(d, c, x), WasUse(twin, u)>>]
    BY <1>6, <1>8 DEF w
  <2> QED BY <1>1, <1>5, <1>8, <2>1, <2>2, SplitFacts
<1> QED BY <1>9, <1>10

LEMMA SplitKeeps == ASSUME DInv, NEW t \in Def, Split(t) PROVE DInv'
<1>1. /\ run.stage = "split" /\ op = Idle /\ Len(run.splits[t]) > 1
      /\ \E e \in Def \ made : Orig[e] = Orig[t]
      /\ \E f \in [g.ops[t] -> FreshUses] : IsInjective(f)
      /\ scop' = scop /\ must' = must
  BY DEF Split
<1>2. /\ EInv /\ g \in Graph /\ scop \in Scops /\ must \subseteq Def
      /\ Tied(g) /\ OpsAre(g) /\ UsedCoherent /\ OpsOK
  <2>1. EInv /\ OpsOK /\ UsedCoherent /\ GInv
    BY <1>1 DEF DInv, OperandsOK, EInv, GInv, IInv
  <2>2. g \in Graph /\ scop \in Scops /\ must \subseteq Def
    BY <2>1 DEF GInv, IInv, TypeOK
  <2>3. OpsAre(g)
    BY <2>1 DEF OpsOK, OpsAre
  <2> QED BY <1>1, <2>1, <2>2, <2>3, TiedIdle
<1>3. PICK s : s = run.splits[t]
  OBVIOUS
<1>4. PICK c \in Def \ made : /\ c = CHOOSE e \in Def \ made : Orig[e] = Orig[t]
                              /\ Orig[c] = Orig[t]
  BY <1>1
<1>5. PICK twin \in [g.ops[t] -> FreshUses] :
          /\ twin = CHOOSE f \in [g.ops[t] -> FreshUses] : IsInjective(f)
          /\ IsInjective(twin)
  BY <1>1
<1>6. PICK h : h = KeepInstances(SplitDef(g, t, c, s[2], twin), t, s[2])
  OBVIOUS
<1>7. /\ g' = h
      /\ op' = [def |-> t, phase |-> 1, todo |-> EdgesOf(h, t, Phases[1])]
      /\ made' = made \cup {c}
      /\ stands' = [u \in Use |-> IF \E o \in g.ops[t] : twin[o] = u
                                  THEN stands[TwinOf(twin, u)] ELSE stands[u]]
      /\ run' = [run EXCEPT
            !.splits[t] = <<>>,
            !.splits[c] = <<s[1]>> \o SubSeq(s, 3, Len(s)),
            !.todo = IF \E d \in @ : scop.array[d] = scop.array[t] THEN @ \cup {c} ELSE @]
  BY <1>3, <1>4, <1>5, <1>6 DEF Split
(* the split, *)
<1>8. IsPieces(s, g.dom[t]) /\ Len(s) > 1
  BY <1>1, <1>3 DEF DInv, SplitsOK
<1>9. s[2] \subseteq g.dom[t] /\ s[2] # {}
  <2>1. Len(s) \in Nat
    BY <1>8 DEF IsPieces
  <2>2. 2 \in 1..Len(s)
    BY <1>8, <2>1
  <2> QED BY <1>8, <2>2, PiecesLeft DEF IsPieces
<1>10. t \in made /\ c # t /\ g.dom[c] = {} /\ made \subseteq Def /\ \A u \in Use : g.def[u] # c
  <2>1. t \in made
    BY <1>9 DEF DInv, NodesOK
  <2> QED BY <1>4, <2>1, NoDefAssumption DEF DInv, NodesOK
<1>11. IsSplit(g, t, c, s[2], twin) /\ \A u \in Twins(twin) : g.def[u] = NoDef
  <2>1. \A o, q \in g.ops[t] : twin[o] = twin[q] => o = q
    BY <1>5 DEF IsInjective
  <2>2. twin \in [g.ops[t] -> {u \in Use : g.def[u] = NoDef}]
    BY DEF FreshUses
  <2>3. s[2] \in SUBSET g.dom[t] /\ c \in Def
    BY <1>4, <1>9
  <2> QED BY <1>2, <1>10, <2>1, <2>2, <2>3, FreshSplit
<1>12. SplitGraph(g, t, c, s[2], twin, h)
  BY <1>6, <1>11, SplitNodes
<1>13. Tied(h) /\ OpsAre(h)
  BY <1>2, <1>6, <1>10, <1>11, SplitTied
<1>14. /\ h \in Graph /\ h.dom[c] = g.dom[t] \ s[2] /\ h.dom[t] = s[2]
       /\ \A e \in Def : e # c /\ e # t => h.dom[e] = g.dom[e]
       /\ \A u \in Use : h.def[u] = IF u \in Twins(twin) THEN c ELSE g.def[u]
  BY <1>10, <1>12 DEF SplitGraph
(* the graph, *)
<1>15. UsedCoherent'
  <2>1. \A x \in Def, u \in Use : \A p \in g.raw[<<x, u>>] : Real(g, t, x, u, p)
    BY <1>2, TiedReal
  <2>2. \A x \in Def : UsedAgrees(g, x)
    BY <1>2 DEF UsedCoherent, UsedAgrees
  <2>3. \A x \in Def : UsedAgrees(h, x)
    BY <1>6, <1>11, <2>1, <2>2, SplitUsed
  <2> QED BY <1>7, <2>3 DEF UsedCoherent, UsedAgrees
<1>16. GInv'
  <2>1. g' \in Graph /\ scop' \in Scops /\ must' \subseteq Def /\ Tied(g')
        /\ op' = [def |-> t, phase |-> 1, todo |-> EdgesOf(g', t, Phases[1])]
    BY <1>1, <1>2, <1>7, <1>13, <1>14
  <2> QED BY <1>15, <2>1, BegunTied
<1>17. NodesOK'
  <2>1. made' \subseteq Def
    BY <1>4, <1>7, <1>10
  <2>2. \A d \in Def \ made' : g'.dom[d] = {}
    BY <1>7, <1>10, <1>14 DEF DInv, NodesOK
  <2>3. \A u \in Use : g'.def[u] \in made' \cup {NoDef}
    BY <1>7, <1>14 DEF DInv, NodesOK
  <2> QED BY <2>1, <2>2, <2>3 DEF NodesOK
(* the progress, *)
<1> DEFINE rest == <<s[1]>> \o SubSeq(s, 3, Len(s))
           more == \E d \in run.todo : scop.array[d] = scop.array[t]
<1>18. IsPieces(rest, h.dom[c]) /\ rest \in BoundedSeq(SUBSET Inst, Cardinality(Inst))
  <2>1. IsPieces(rest, h.dom[c])
    BY <1>8, <1>14, PiecesLeft
  <2>2. h.dom[c] \in SUBSET Inst
    BY <1>4, <1>14 DEF Graph
  <2> HIDE DEF rest
  <2> QED BY <2>1, <2>2, PiecesBounded
<1>19. run' = [run EXCEPT !.splits = [run.splits EXCEPT ![t] = <<>>, ![c] = rest],
                          !.todo = IF more THEN run.todo \cup {c} ELSE run.todo]
  BY <1>7 DEF DInv, RunOK, RunRecord
<1> HIDE DEF rest, more
<1>20. <<>> \in BoundedSeq(SUBSET Inst, Cardinality(Inst))
  BY NoPieces, PiecesBounded
<1>21. RunOK'
  <2>1. run \in RunRecord /\ run.todo \subseteq made /\ (run.edges # {} => run.src \in made) /\ c \in Def
    BY <1>4 DEF DInv, RunOK
  <2>2. run' \in RunRecord
    BY <1>18, <1>19, <1>20, <2>1 DEF RunRecord
  <2>3. run'.todo \subseteq made \cup {c} /\ run'.edges = run.edges /\ run'.src = run.src
    BY <1>19, <2>1 DEF RunRecord
  <2> QED BY <1>7, <2>1, <2>2, <2>3 DEF RunOK
<1>22. run'.stage = "split" /\ run'.splits = [run.splits EXCEPT ![t] = <<>>, ![c] = rest]
  BY <1>1, <1>19 DEF DInv, RunOK, RunRecord
<1>23. SplitsOK'
  <2>1. run.splits \in [Def -> BoundedSeq(SUBSET Inst, Cardinality(Inst))]
    BY DEF DInv, RunOK, RunRecord
  <2>2. ASSUME NEW d \in Def PROVE IsPieces(run'.splits[d], h.dom[d])
    <3>1. CASE d = c
      <4>1. run'.splits[d] = rest
        BY <1>10, <1>22, <2>1, <3>1
      <4> QED BY <1>18, <3>1, <4>1
    <3>2. CASE d = t
      <4>1. run'.splits[d] = <<>>
        BY <1>10, <1>22, <2>1, <3>2
      <4> QED BY <4>1, NoPieces
    <3>3. CASE d # c /\ d # t
      <4>1. run'.splits[d] = run.splits[d] /\ h.dom[d] = g.dom[d]
        BY <1>14, <1>22, <2>1, <3>3
      <4> QED BY <4>1 DEF DInv, SplitsOK
    <3> QED BY <3>1, <3>2, <3>3
  <2> QED BY <1>7, <1>22, <2>2 DEF SplitsOK
(* and the values. *)
<1>24. \A u \in Use : stands'[u] = stands[WasUse(twin, u)]
  <2>1. DOMAIN twin = g.ops[t]
    BY <1>5
  <2>2. \A u \in Use : (\E o \in g.ops[t] : twin[o] = u) <=> u \in Twins(twin)
    BY <2>1 DEF Twins
  <2> QED BY <1>7, <2>2 DEF WasUse
<1>25. StandsOK'
  <2>1. \A u \in Use : WasUse(twin, u) \in Use
    BY <1>11, TwinFacts
  <2>2. stands' \in [Use -> [Inst -> SUBSET ReadAt]]
    <3>1. stands' = [u \in Use |-> stands'[u]]
      BY <1>7
    <3>2. \A u \in Use : stands'[u] \in [Inst -> SUBSET ReadAt]
      BY <1>24, <2>1 DEF DInv, StandsOK
    <3> QED BY <3>1, <3>2
  <2>3. ASSUME NEW u \in Use, h.def[u] = NoDef, NEW j \in Inst PROVE stands'[u][j] = {}
    <3>1. u \notin Twins(twin) /\ g.def[u] = NoDef
      BY <1>4, <1>14, <2>3, NoDefAssumption
    <3>2. stands'[u] = stands[u]
      BY <1>24, <3>1 DEF WasUse
    <3> QED BY <3>1, <3>2 DEF DInv, StandsOK
  <2> QED BY <1>7, <2>2, <2>3 DEF StandsOK
<1>26. StandsKept'
  <2>1. Kept(h, made \cup {c}, stands', RAW(scop))
    <3>1. Kept(g, made, stands, RAW(scop)) /\ made \in SUBSET Def /\ c \notin made
      BY <1>4, <1>10 DEF DInv, StandsKept
    <3>2. g \in Graph /\ Tied(g) /\ OpsAre(g) /\ t \in Def /\ c \in Def /\ \A u \in Use : g.def[u] # c
      BY <1>2, <1>4, <1>10
    <3>3. t \in made /\ Orig[c] = Orig[t]
      BY <1>4, <1>10
    <3> QED BY ONLY <1>6, <1>11, <1>24, <3>1, <3>2, <3>3, SplitKept
  <2> QED BY <1>1, <1>7, <2>1 DEF StandsKept
<1>27. OperandsOK'
  <2>1. OpsOK'
    BY <1>7, <1>13 DEF OpsOK, OpsAre
  <2> QED BY <1>22, <2>1 DEF OperandsOK
<1> QED BY <1>16, <1>17, <1>21, <1>23, <1>25, <1>26, <1>27 DEF DInv

-----------------------------------------------------------------------------
(* propagateEdge begins: the read is detached from its statement. *)
LEMMA RemoveFacts ==
    ASSUME NEW h \in Graph, Tied(h), OpsAre(h), NEW x \in Use, h.def[x] \in Def,
           NEW r, r = RemoveOperand(h, x)
    PROVE  /\ r \in Graph /\ r.dom = h.dom /\ r.def = h.def /\ r.raw = h.raw /\ r.used = h.used
           /\ \A d \in Def : r.ops[d] = {u \in Use : r.def[u] = d} \ {x}
           /\ \A e \in Def : r.war[<<x, e>>] = {}
           /\ \A u \in Use \ {x} : \A e \in Def : r.war[<<u, e>>] = h.war[<<u, e>>]
           /\ Tied(r)
<1> DEFINE d0 == h.def[x]
           war == [k \in Use \X Def |-> IF k[1] = x THEN {} ELSE h.war[k]]
           barrier == [h.barrier EXCEPT ![d0] = IF \E e \in Def : h.war[x, e] # {} THEN Miss ELSE @]
           ops == [h.ops EXCEPT ![d0] = @ \ {x}]
<1>1. r = [h EXCEPT !.ops = ops, !.war = war, !.barrier = barrier]
  BY DEF RemoveOperand
<1>2. war \in [Use \X Def -> Map]
  BY DEF Graph, Map
<1>3. barrier \in [Def -> Cache(Inst \X (Def \X Inst))]
  BY DEF Graph, Cache
<1>4. ops \in [Def -> SUBSET Use] /\ \A d \in Def : ops[d] = IF d = d0 THEN h.ops[d] \ {x} ELSE h.ops[d]
  BY DEF Graph
<1>5. /\ \A e \in Def : war[<<x, e>>] = {}
      /\ \A u \in Use \ {x} : \A e \in Def : war[<<u, e>>] = h.war[<<u, e>>]
      /\ \A k \in Use \X Def : war[k] \subseteq h.war[k]
  OBVIOUS
<1> HIDE DEF war, barrier, ops
<1>6. /\ r \in Graph /\ r.dom = h.dom /\ r.def = h.def /\ r.raw = h.raw /\ r.used = h.used
      /\ r.war = war /\ r.ops = ops
  BY <1>1, <1>2, <1>3, <1>4 DEF Graph
<1>7. \A d \in Def : r.ops[d] = {u \in Use : r.def[u] = d} \ {x}
  BY <1>4, <1>6 DEF OpsAre
<1>8. Tied(r)
  BY <1>5, <1>6 DEF Tied
<1> QED BY <1>5, <1>6, <1>7, <1>8

LEMMA PropagateEdgeKeeps == ASSUME DInv, NEW k \in Def \X Use, PropagateEdge(k) PROVE DInv'
<1>1. /\ run.stage = "propagate" /\ op = Idle /\ AssertionsHold(k)
      /\ g' = RemoveOperand(g, k[2])
      /\ run' = [run EXCEPT !.stage = "reload", !.edge = k, !.loads = g.ops[k[1]] \ {k[2]}]
      /\ UNCHANGED <<scop, must, op, made, stands>>
  BY DEF PropagateEdge
<1>2. GInv /\ OpsOK /\ g \in Graph /\ Tied(g) /\ OpsAre(g) /\ UsedCoherent
      /\ scop \in Scops /\ must \subseteq Def
  <2>1. GInv /\ OpsOK
    BY <1>1 DEF DInv, OperandsOK
  <2>2. OpsAre(g)
    BY <2>1 DEF OpsOK, OpsAre
  <2> QED BY <1>1, <2>1, <2>2, TiedIdle DEF GInv, IInv, TypeOK
<1>3. k = <<k[1], k[2]>> /\ k[1] \in Def /\ k[2] \in Use
  BY PairFacts
<1>4. g.raw[k] # {} /\ \A e \in Def : e # k[1] => g.raw[<<e, k[2]>>] = {}
  BY <1>1, <1>3 DEF AssertionsHold, Sources
<1>5. g.def[k[2]] \in Def
  BY <1>1, <1>2, <1>4, TargetExists DEF Idle
<1>6. /\ g' \in Graph /\ g'.dom = g.dom /\ g'.def = g.def /\ g'.raw = g.raw /\ g'.used = g.used
      /\ \A d \in Def : g'.ops[d] = {u \in Use : g'.def[u] = d} \ {k[2]}
      /\ \A e \in Def : g'.war[<<k[2], e>>] = {}
      /\ Tied(g')
  BY <1>1, <1>2, <1>3, <1>5, RemoveFacts
<1>7. GInv'
  <2>1. UsedCoherent'
    BY <1>2, <1>6 DEF UsedCoherent, RawDomain
  <2>2. op' = Idle /\ scop' \in Scops /\ must' \subseteq Def
    BY <1>1, <1>2
  <2> QED BY <1>6, <2>1, <2>2, IdleTied
<1>8. g.ops[k[1]] \ {k[2]} \subseteq Use /\ run \in RunRecord
  BY <1>2, <1>3 DEF Graph, DInv, RunOK
<1>9. /\ run'.stage = "reload" /\ run'.edge = k /\ run'.loads = g.ops[k[1]] \ {k[2]}
      /\ run'.splits = run.splits /\ run'.todo = run.todo /\ run'.edges = run.edges /\ run'.src = run.src
  BY <1>1, <1>8 DEF RunRecord
<1>10. OperandsOK'
  <2>1. run'.loads \subseteq g'.ops[k[1]]
    BY <1>2, <1>3, <1>6, <1>9 DEF OpsAre
  <2>2. op' = Idle
    BY <1>1
  <2>3. Detached(k)'
    BY <1>4, <1>5, <1>6, <2>1, <2>2 DEF Detached
  <2> QED BY <1>9, <2>3 DEF OperandsOK, Detached
<1>11. NodesOK' /\ StandsOK'
  BY <1>1, <1>6 DEF DInv, NodesOK, StandsOK
<1>12. RunOK'
  <2>1. run' \in RunRecord
    BY <1>1, <1>8 DEF RunRecord
  <2> QED BY <1>1, <1>9, <2>1 DEF DInv, RunOK
<1>13. SplitsOK'
  BY <1>1, <1>9, StillNoPieces DEF DInv
<1>14. StandsKept'
  <2>1. Kept(g', made, stands, RAW(scop))
    <3>1. Kept(g, made, stands, RAW(scop)) /\ made \in SUBSET Def
      BY DEF DInv, StandsKept, NodesOK
    <3> QED BY <1>6, <3>1, KeptThrough
  <2> QED BY <1>1, <2>1 DEF StandsKept
<1> QED BY <1>7, <1>10, <1>11, <1>12, <1>13, <1>14 DEF DInv

-----------------------------------------------------------------------------
(* An edge that grows leaves the used domains what they should be. *)
LEMMA GrowRawUsed ==
    ASSUME NEW h \in Graph, NEW new \in [Def \X Use -> Map], \A d \in Def : UsedAgrees(h, d)
    PROVE  \A d \in Def : UsedAgrees(GrowRaw(h, new), d)
<1> DEFINE raw == [k \in Def \X Use |-> h.raw[k] \cup new[k]]
           grew(d) == {u \in Use : raw[d, u] # h.raw[d, u]}
           more(d) == {i \in Inst : \E u \in grew(d) : \E j \in Inst : <<i, j>> \in raw[d, u]}
           r == GrowRaw(h, new)
<1>1. /\ r.raw = raw
      /\ r.used = [d \in Def |-> IF h.used[d] = Miss THEN Miss ELSE h.used[d] \cup more(d)]
  BY DEF GrowRaw, Graph
<1> SUFFICES ASSUME NEW d \in Def, r.used[d] # Miss PROVE r.used[d] = RawDomain(r, d)
  BY DEF UsedAgrees
<1>2. h.used[d] # Miss /\ r.used[d] = h.used[d] \cup more(d)
  <2> HIDE DEF more
  <2> QED BY <1>1
<1>3. h.used[d] = RawDomain(h, d)
  BY <1>2 DEF UsedAgrees
<1>4. \A u \in Use : h.raw[<<d, u>>] \subseteq raw[<<d, u>>]
  OBVIOUS
<1>5. more(d) = {i \in Inst : \E u \in Use : raw[<<d, u>>] # h.raw[<<d, u>>]
                                              /\ \E j \in Inst : <<i, j>> \in raw[<<d, u>>]}
  OBVIOUS
<1> HIDE DEF raw, more, r
<1>6. RawDomain(r, d) = {i \in Inst : \E u \in Use : \E j \in Inst : <<i, j>> \in raw[<<d, u>>]}
  BY <1>1 DEF RawDomain
<1>7. RawDomain(h, d) = {i \in Inst : \E u \in Use : \E j \in Inst : <<i, j>> \in h.raw[<<d, u>>]}
  BY DEF RawDomain
<1>8. ASSUME NEW i \in Inst PROVE i \in RawDomain(r, d) <=> i \in RawDomain(h, d) \cup more(d)
  <2>1. ASSUME i \in RawDomain(r, d) PROVE i \in RawDomain(h, d) \cup more(d)
    <3>1. PICK u \in Use, j \in Inst : <<i, j>> \in raw[<<d, u>>]
      BY <1>6, <2>1
    <3>2. CASE raw[<<d, u>>] = h.raw[<<d, u>>]
      BY <1>7, <3>1, <3>2
    <3>3. CASE raw[<<d, u>>] # h.raw[<<d, u>>]
      BY <1>5, <3>1, <3>3
    <3> QED BY <3>2, <3>3
  <2>2. ASSUME i \in RawDomain(h, d) \cup more(d) PROVE i \in RawDomain(r, d)
    BY <1>4, <1>5, <1>6, <1>7, <2>2
  <2> QED BY <2>1, <2>2
<1>9. RawDomain(r, d) \subseteq Inst /\ RawDomain(h, d) \subseteq Inst /\ more(d) \subseteq Inst
  BY <1>5, <1>6, <1>7
<1> QED BY <1>2, <1>3, <1>8, <1>9

(***************************************************************************)
(* An operand o of the source is reloaded by n: every write o depends on   *)
(* is one n depends on, through the edge k that is propagated.             *)
(***************************************************************************)
Reloaded(h, o, n, k, t, r) ==
    /\ r \in Graph /\ r.dom = h.dom
    /\ \A u \in Use : r.def[u] = IF u = n THEN t ELSE h.def[u]
    /\ \A d \in Def : r.ops[d] = IF d = t THEN h.ops[d] \cup {n} ELSE h.ops[d]
    /\ \A e \in Def \X Use : r.raw[e] = IF e[2] = n
           THEN h.raw[e] \cup Compose(h.raw[<<e[1], o>>], h.raw[k]) ELSE h.raw[e]
    /\ \A e \in Use \X Def : e[1] # n => r.war[e] = h.war[e]
    /\ \A e \in Def : h.war[<<n, e>>] \subseteq r.war[<<n, e>>]
    /\ \A e \in Def : \A i, j, m \in Inst :
          <<i, j>> \in h.raw[k] /\ <<i, m>> \in h.war[<<o, e>>] => <<j, m>> \in r.war[<<n, e>>]
    /\ \A e \in Def : \A j, m \in Inst : <<j, m>> \in r.war[<<n, e>>] =>
          \/ <<j, m>> \in h.war[<<n, e>>]
          \/ \E i \in Inst : <<i, j>> \in h.raw[k] /\ <<i, m>> \in h.war[<<o, e>>]

LEMMA ReloadFacts ==
    ASSUME NEW h \in Graph, Tied(h), \A d \in Def : UsedAgrees(h, d),
           NEW o \in Use, NEW n \in Use, NEW k \in Def \X Use, h.def[k[2]] \in Def,
           h.def[n] \in {NoDef, h.def[k[2]]}, h.def[o] = k[1],
           NEW t, t = h.def[k[2]],
           NEW r, r = AddReload(h, o, n, h.raw[k], t)
    PROVE  Reloaded(h, o, n, k, t, r) /\ Tied(r) /\ \A d \in Def : UsedAgrees(r, d)
<1> DEFINE R    == h.raw[k]
           back == {<<p[2], p[1]>> : p \in R}
           node == [h EXCEPT !.def[n] = t]
           newR == [e \in Def \X Use |-> IF e[2] = n THEN Compose(h.raw[e[1], o], R) ELSE {}]
           past == GrowRaw(node, newR)
           newW == [e \in Use \X Def |-> IF e[1] = n THEN Compose(back, h.war[o, e[2]]) ELSE {}]
           next == GrowWar(past, newW)
<1>1. r = [next EXCEPT !.ops[t] = @ \cup {n}]
  BY DEF AddReload
<1>2. node \in Graph /\ node.raw = h.raw /\ node.war = h.war /\ node.used = h.used /\ node.ops = h.ops
      /\ node.dom = h.dom /\ \A u \in Use : node.def[u] = IF u = n THEN t ELSE h.def[u]
  BY DEF Graph
<1>3. {} \in Map
  BY DEF Map
<1>4. newR \in [Def \X Use -> Map] /\ newW \in [Use \X Def -> Map]
  <2> HIDE DEF R, back
  <2> QED BY <1>3, ComposeType
<1>5. \A d \in Def : UsedAgrees(node, d)
  BY <1>2 DEF UsedAgrees, RawDomain
<1> HIDE DEF node, newR, newW
<1>6. past \in Graph /\ SameNodes(node, past) /\ past.war = node.war
      /\ past.raw = [e \in Def \X Use |-> node.raw[e] \cup newR[e]]
  BY <1>2, <1>4, GrowRawFacts
<1>7. \A d \in Def : UsedAgrees(past, d)
  BY <1>2, <1>4, <1>5, GrowRawUsed
<1> HIDE DEF past
<1>8. next \in Graph /\ SameNodes(past, next) /\ next.raw = past.raw /\ next.used = past.used
      /\ next.war = [e \in Use \X Def |-> past.war[e] \cup newW[e]]
  BY <1>4, <1>6, GrowWarFacts
<1> HIDE DEF next
<1>9. t \in Def /\ next.ops = h.ops /\ next.dom = h.dom /\ next.def = node.def
  BY <1>2, <1>6, <1>8 DEF SameNodes
<1>10. /\ r \in Graph /\ r.dom = h.dom /\ r.def = node.def /\ r.raw = next.raw /\ r.war = next.war
       /\ r.used = next.used
       /\ \A d \in Def : r.ops[d] = IF d = t THEN h.ops[d] \cup {n} ELSE h.ops[d]
  <2> DEFINE ops == [next.ops EXCEPT ![t] = @ \cup {n}]
  <2>1. ops \in [Def -> SUBSET Use]
        /\ \A d \in Def : ops[d] = IF d = t THEN h.ops[d] \cup {n} ELSE h.ops[d]
    <3>1. h.ops \in [Def -> SUBSET Use]
      BY DEF Graph
    <3> QED BY <1>9, <3>1
  <2>2. r = [next EXCEPT !.ops = ops]
    BY <1>1
  <2> HIDE DEF ops
  <2>3. r \in Graph
    BY <1>8, <2>1, <2>2 DEF Graph
  <2>4. /\ r.dom = next.dom /\ r.def = next.def /\ r.raw = next.raw /\ r.war = next.war
        /\ r.used = next.used /\ r.ops = ops
    BY <1>8, <2>2 DEF Graph
  <2> QED BY <1>9, <2>1, <2>3, <2>4
<1>11. ASSUME NEW e \in Def \X Use
       PROVE  r.raw[e] = IF e[2] = n THEN h.raw[e] \cup Compose(h.raw[<<e[1], o>>], h.raw[k]) ELSE h.raw[e]
  <2>1. r.raw[e] = h.raw[e] \cup newR[e]
    BY <1>2, <1>6, <1>8, <1>10
  <2>2. newR[e] = IF e[2] = n THEN Compose(h.raw[<<e[1], o>>], R) ELSE {}
    BY DEF newR
  <2> QED BY <2>1, <2>2
<1>12. ASSUME NEW e \in Use \X Def
       PROVE  r.war[e] = IF e[1] = n THEN h.war[e] \cup Compose(back, h.war[<<o, e[2]>>]) ELSE h.war[e]
  <2>1. r.war[e] = h.war[e] \cup newW[e]
    BY <1>2, <1>6, <1>8, <1>10
  <2>2. newW[e] = IF e[1] = n THEN Compose(back, h.war[<<o, e[2]>>]) ELSE {}
    BY DEF newW
  <2> QED BY <2>1, <2>2
<1>13. \A u \in Use : r.def[u] = IF u = n THEN t ELSE h.def[u]
  BY <1>2, <1>10
(* an edge that was there is where it was, *)
<1>14. ASSUME NEW u \in Use, h.def[u] \in Def PROVE r.def[u] = h.def[u]
  BY <1>13, <1>14, NoDefAssumption
<1>15. ASSUME NEW e \in Def \X Use, NEW p \in r.raw[e]
       PROVE  p[1] \in r.dom[e[1]] /\ r.def[e[2]] \in Def /\ p[2] \in r.dom[r.def[e[2]]]
  <2>1. CASE p \in h.raw[e]
    <3>1. p[1] \in h.dom[e[1]] /\ h.def[e[2]] \in Def /\ p[2] \in h.dom[h.def[e[2]]]
      BY <2>1 DEF Tied
    <3> QED BY <1>10, <1>14, <3>1
  <2>2. CASE p \notin h.raw[e]
    <3>1. e[2] = n /\ p \in Compose(h.raw[<<e[1], o>>], h.raw[k])
      BY <1>11, <1>15, <2>2
    <3>2. PICK m \in Inst : <<p[1], m>> \in h.raw[<<e[1], o>>] /\ <<m, p[2]>> \in h.raw[k]
      BY <3>1 DEF Compose
    <3>3. <<e[1], o>> \in Def \X Use /\ <<e[1], o>>[1] = e[1] /\ <<p[1], m>>[1] = p[1]
          /\ <<m, p[2]>>[2] = p[2]
      OBVIOUS
    <3>4. p[1] \in h.dom[e[1]]
      BY <3>2, <3>3 DEF Tied
    <3>5. p[2] \in h.dom[t]
      BY <3>2, <3>3 DEF Tied
    <3> QED BY <1>9, <1>10, <1>13, <3>1, <3>4, <3>5
  <2> QED BY <2>1, <2>2
<1>16. ASSUME NEW e \in Use \X Def, NEW p \in r.war[e]
       PROVE  r.def[e[1]] \in Def /\ p[1] \in r.dom[r.def[e[1]]] /\ p[2] \in r.dom[e[2]]
  <2>1. CASE p \in h.war[e]
    <3>1. h.def[e[1]] \in Def /\ p[1] \in h.dom[h.def[e[1]]] /\ p[2] \in h.dom[e[2]]
      BY <2>1 DEF Tied
    <3> QED BY <1>10, <1>14, <3>1
  <2>2. CASE p \notin h.war[e]
    <3>1. e[1] = n /\ p \in Compose(back, h.war[<<o, e[2]>>])
      BY <1>12, <1>16, <2>2
    <3>2. PICK m \in Inst : <<p[1], m>> \in back /\ <<m, p[2]>> \in h.war[<<o, e[2]>>]
      BY <3>1 DEF Compose
    <3>3. PICK q \in h.raw[k] : <<p[1], m>> = <<q[2], q[1]>>
      BY <3>2
    <3>4. p[1] \in h.dom[t]
      BY <3>3 DEF Tied
    <3>5. <<o, e[2]>> \in Use \X Def /\ <<o, e[2]>>[2] = e[2] /\ <<m, p[2]>>[2] = p[2]
      OBVIOUS
    <3>6. p[2] \in h.dom[e[2]]
      BY <3>2, <3>5 DEF Tied
    <3> QED BY <1>9, <1>10, <1>13, <3>1, <3>4, <3>6
  <2> QED BY <2>1, <2>2
<1>17. Tied(r)
  BY <1>15, <1>16 DEF Tied
<1>18. \A d \in Def : UsedAgrees(r, d)
  <2>1. r.raw = past.raw /\ r.used = past.used
    BY <1>8, <1>10
  <2>2. \A d \in Def : RawDomain(r, d) = RawDomain(past, d)
    BY ONLY <2>1 DEF RawDomain
  <2> QED BY ONLY <1>7, <2>1, <2>2 DEF UsedAgrees
<1>19. \A e \in Use \X Def : e[1] # n => r.war[e] = h.war[e]
  BY <1>12
<1>20. r \in Graph /\ r.dom = h.dom
       /\ \A d \in Def : r.ops[d] = IF d = t THEN h.ops[d] \cup {n} ELSE h.ops[d]
  BY <1>10
<1>21. \A e \in Def : h.war[<<n, e>>] \subseteq r.war[<<n, e>>]
  <2> SUFFICES ASSUME NEW e \in Def PROVE h.war[<<n, e>>] \subseteq r.war[<<n, e>>]
    OBVIOUS
  <2>1. <<n, e>> \in Use \X Def /\ <<n, e>>[1] = n
    OBVIOUS
  <2> QED BY <1>12, <2>1
<1>22. ASSUME NEW e \in Def, NEW i \in Inst, NEW j \in Inst, NEW m \in Inst,
              <<i, j>> \in h.raw[k], <<i, m>> \in h.war[<<o, e>>]
       PROVE  <<j, m>> \in r.war[<<n, e>>]
  <2>1. <<n, e>> \in Use \X Def /\ <<n, e>>[1] = n /\ <<n, e>>[2] = e
    OBVIOUS
  <2>2. <<j, i>> \in back
    BY <1>22
  <2>3. <<j, m>> \in Compose(back, h.war[<<o, e>>])
    BY <1>22, <2>2 DEF Compose
  <2> QED BY <1>12, <2>1, <2>3
<1>23. ASSUME NEW e \in Def, NEW j \in Inst, NEW m \in Inst, <<j, m>> \in r.war[<<n, e>>],
              <<j, m>> \notin h.war[<<n, e>>]
       PROVE  \E i \in Inst : <<i, j>> \in h.raw[k] /\ <<i, m>> \in h.war[<<o, e>>]
  <2>1. /\ <<n, e>> \in Use \X Def /\ <<n, e>>[1] = n /\ <<n, e>>[2] = e
        /\ <<j, m>>[1] = j /\ <<j, m>>[2] = m
    OBVIOUS
  <2>2. <<j, m>> \in Compose(back, h.war[<<o, e>>])
    BY <1>12, <1>23, <2>1
  <2>3. PICK i \in Inst : <<j, i>> \in back /\ <<i, m>> \in h.war[<<o, e>>]
    BY <2>1, <2>2 DEF Compose
  <2>4. PICK q \in h.raw[k] : <<j, i>> = <<q[2], q[1]>>
    BY <2>3
  <2>5. q \in Inst \X Inst
    BY DEF Graph, Map
  <2>6. q = <<q[1], q[2]>>
    BY <2>5
  <2> QED BY <2>3, <2>4, <2>6
<1> QED BY ONLY <1>11, <1>13, <1>17, <1>18, <1>19, <1>20, <1>21, <1>22, <1>23 DEF Reloaded

(* n takes places that n took, or o did at the instance of the source. *)
TakesPlaces(h, o, n, k, st, sp) ==
    /\ \A u \in Use : u # n => sp[u] = st[u]
    /\ \A j \in Inst : \A v \in sp[n][j] :
          \/ v \in st[n][j] /\ h.def[n] \in Def
          \/ \E m \in Inst : <<m, j>> \in h.raw[k] /\ v \in st[o][m]

(* What the operands of the target load is still supplied when n takes the place of what o stands for. *)
LEMMA ReloadKept ==
    ASSUME NEW h \in Graph, Tied(h), NEW o \in Use, NEW n \in Use, NEW k \in Def \X Use,
           h.def[n] \in {NoDef, h.def[k[2]]}, h.def[o] = k[1],
           NEW r, Reloaded(h, o, n, k, h.def[k[2]], r),
           NEW st, NEW sp, TakesPlaces(h, o, n, k, st, sp),
           NEW nodes \in SUBSET Def, NEW raw, Kept(h, nodes, st, raw)
    PROVE  Kept(r, nodes, sp, raw)
<1> SUFFICES ASSUME NEW u \in Use, r.def[u] \in Def, NEW j \in r.dom[r.def[u]],
                    NEW v \in sp[u][j], NEW e \in Def, NEW i \in Inst,
                    <<i, v[2]>> \in raw[<<e, v[1]>>]
             PROVE  \E c \in nodes : Orig[c] = e /\ <<i, j>> \in r.raw[<<c, u>>]
  BY DEF Kept
<1>1. ASSUME NEW c \in nodes
      PROVE  /\ <<c, u>> \in Def \X Use
             /\ h.raw[<<c, u>>] \subseteq r.raw[<<c, u>>]
             /\ u = n => Compose(h.raw[<<c, o>>], h.raw[k]) \subseteq r.raw[<<c, u>>]
  <2>1. <<c, u>> \in Def \X Use /\ <<c, u>>[1] = c /\ <<c, u>>[2] = u
    OBVIOUS
  <2> QED BY <2>1 DEF Reloaded
<1>2. ASSUME h.def[u] = r.def[u], v \in st[u][j]
      PROVE  \E c \in nodes : Orig[c] = e /\ <<i, j>> \in r.raw[<<c, u>>]
  <2>1. PICK c \in nodes : Orig[c] = e /\ <<i, j>> \in h.raw[<<c, u>>]
    BY <1>2 DEF Kept, Reloaded
  <2> QED BY <1>1, <2>1
<1>3. CASE u # n
  BY <1>2, <1>3 DEF Reloaded, TakesPlaces
<1>4. CASE u = n
  <2>1. j \in Inst
    BY DEF Graph, Reloaded
  <2>2. CASE v \in st[n][j] /\ h.def[n] \in Def
    <3>1. h.def[n] = h.def[k[2]] /\ r.def[n] = h.def[k[2]]
      BY <2>2, NoDefAssumption DEF Reloaded
    <3> QED BY <1>2, <1>4, <2>2, <3>1
  <2>3. CASE \E m \in Inst : <<m, j>> \in h.raw[k] /\ v \in st[o][m]
    <3>1. PICK m \in Inst : <<m, j>> \in h.raw[k] /\ v \in st[o][m]
      BY <2>3
    <3>2. h.def[o] \in Def /\ m \in h.dom[h.def[o]]
      <4>1. <<m, j>>[1] = m
        OBVIOUS
      <4>2. m \in h.dom[k[1]]
        BY <3>1, <4>1 DEF Tied
      <4>3. k[1] \in Def
        BY PairFacts
      <4> QED BY <4>2, <4>3
    <3>3. PICK c \in nodes : Orig[c] = e /\ <<i, m>> \in h.raw[<<c, o>>]
      BY <3>1, <3>2 DEF Kept
    <3>4. <<i, j>> \in Compose(h.raw[<<c, o>>], h.raw[k])
      BY <2>1, <3>1, <3>3 DEF Compose
    <3> QED BY <1>1, <1>4, <3>3, <3>4
  <2> QED BY <1>4, <2>1, <2>2, <2>3 DEF TakesPlaces
<1> QED BY <1>3, <1>4

(* What is taken for an operand of the source: a use that no node has, or an equal operand. *)
IsReloadStep(o, n, k, t) ==
    /\ run.stage = "reload" /\ op = Idle /\ o \in run.loads /\ k = run.edge
    /\ k \in Def \X Use /\ t \in Def /\ t = g.def[k[2]] /\ g.def[o] = k[1]
    /\ n \in Use /\ n # k[2]
    /\ g.def[n] = NoDef \/ (g.def[n] = t /\ Subscripted(n) /\ Subscripted(o))
    /\ g' = AddReload(g, o, n, g.raw[k], t) /\ Reloaded(g, o, n, k, t, g')
    /\ Tied(g') /\ \A d \in Def : UsedAgrees(g', d)
    /\ stands' \in [Use -> [Inst -> SUBSET ReadAt]]
    /\ \A u \in Use : u # n => stands'[u] = stands[u]
    /\ \A j \in Inst : \A v : v \in stands'[n][j] <=>
          v \in stands[n][j] \/ \E m \in Inst : <<m, j>> \in g.raw[k] /\ v \in stands[o][m]
    /\ run' = [run EXCEPT !.loads = @ \ {o}]
    /\ UNCHANGED <<scop, must, op, made>>

LEMMA ReloadSteps ==
    ASSUME DInv, NEW o \in Use, ReloadOperand(o)
    PROVE  /\ Detached(run.edge) /\ GInv /\ g \in Graph /\ Tied(g) /\ scop \in Scops /\ must \subseteq Def
           /\ \E n, k, t : IsReloadStep(o, n, k, t)
<1>1. PICK k : k = run.edge
  OBVIOUS
<1>2. /\ run.stage = "reload" /\ op = Idle /\ o \in run.loads /\ FreshUses # {}
      /\ run' = [run EXCEPT !.loads = @ \ {o}]
      /\ UNCHANGED <<scop, must, op, made>>
  BY DEF ReloadOperand
<1>3. PICK need : need = Needed(g.raw[k], o)
  OBVIOUS
<1>4. PICK t : t = g.def[k[2]]
  OBVIOUS
<1>5. PICK n \in {CHOOSE m \in FreshUses : TRUE} \cup {m \in EqualOperands(t, need) : Subscripted(o)} :
          /\ g' = AddReload(g, o, n, g.raw[k], t)
          /\ stands' = [stands EXCEPT ![n] = [j \in Inst |-> stands[n][j] \cup need[j]]]
  <2>1. \E n \in {CHOOSE m \in FreshUses : TRUE}
                 \cup {m \in EqualOperands(g.def[run.edge[2]], Needed(g.raw[run.edge], o)) : Subscripted(o)} :
          /\ g' = AddReload(g, o, n, g.raw[run.edge], g.def[run.edge[2]])
          /\ stands' = [stands EXCEPT ![n] = [j \in Inst |-> @[j] \cup Needed(g.raw[run.edge], o)[j]]]
    BY DEF ReloadOperand
  <2>2. \E n \in {CHOOSE m \in FreshUses : TRUE} \cup {m \in EqualOperands(t, need) : Subscripted(o)} :
          /\ g' = AddReload(g, o, n, g.raw[k], t)
          /\ stands' = [stands EXCEPT ![n] = [j \in Inst |-> @[j] \cup need[j]]]
    BY ONLY <1>1, <1>3, <1>4, <2>1
  <2>3. stands \in [Use -> [Inst -> SUBSET ReadAt]]
    BY DEF DInv, StandsOK
  <2> QED BY <2>2
<1>6. Detached(k) /\ GInv
  BY <1>1, <1>2 DEF DInv, OperandsOK
<1>7. /\ g \in Graph /\ Tied(g) /\ \A d \in Def : UsedAgrees(g, d)
      /\ scop \in Scops /\ must \subseteq Def
  <2>1. \A d \in Def : UsedAgrees(g, d)
    BY <1>6 DEF GInv, IInv, UsedCoherent, UsedAgrees
  <2> QED BY <1>2, <1>6, <2>1, TiedIdle DEF GInv, IInv, TypeOK
<1>8. k \in Def \X Use /\ k[1] \in Def /\ k[2] \in Use /\ t \in Def /\ g.def[k[2]] \in Def
  BY <1>4, <1>6 DEF Detached
<1>9. g.def[o] = k[1]
  BY <1>2, <1>6, <1>8 DEF Detached
<1>10. /\ n \in Use /\ g.def[n] \in {NoDef, t} /\ n # k[2]
       /\ g.def[n] = NoDef \/ (g.def[n] = t /\ Subscripted(n) /\ Subscripted(o))
  <2>1. CASE n = CHOOSE m \in FreshUses : TRUE
    <3>1. n \in FreshUses
      BY <1>2, <2>1
    <3> QED BY <1>8, <3>1, NoDefAssumption DEF FreshUses
  <2>2. CASE n \in EqualOperands(t, need) /\ Subscripted(o)
    <3>1. n \in g.ops[t] /\ Subscripted(n)
      BY <2>2 DEF EqualOperands
    <3> QED BY <1>6, <1>8, <2>2, <3>1 DEF Detached
  <2> QED BY <1>5, <2>1, <2>2
<1>11. /\ Reloaded(g, o, n, k, t, g') /\ Tied(g') /\ \A d \in Def : UsedAgrees(g', d)
       /\ g' \in Graph /\ g'.dom = g.dom
       /\ \A u \in Use : g'.def[u] = IF u = n THEN t ELSE g.def[u]
       /\ \A d \in Def : g'.ops[d] = IF d = t THEN g.ops[d] \cup {n} ELSE g.ops[d]
       /\ \A e \in Def \X Use : e[2] # n => g'.raw[e] = g.raw[e]
       /\ \A e \in Use \X Def : e[1] # n => g'.war[e] = g.war[e]
  <2>1. PICK r : r = AddReload(g, o, n, g.raw[k], t)
    OBVIOUS
  <2>2. g \in Graph /\ Tied(g) /\ (\A d \in Def : UsedAgrees(g, d)) /\ k \in Def \X Use
        /\ g.def[k[2]] \in Def /\ g.def[n] \in {NoDef, g.def[k[2]]} /\ n \in Use /\ o \in Use
    BY <1>4, <1>7, <1>8, <1>10
  <2>3. Reloaded(g, o, n, k, t, r) /\ Tied(r) /\ \A d \in Def : UsedAgrees(r, d)
    BY ONLY <1>4, <1>9, <2>1, <2>2, ReloadFacts
  <2>4. g' = r
    BY <1>5, <2>1
  <2> QED BY ONLY <2>3, <2>4 DEF Reloaded
<1>12. /\ stands \in [Use -> [Inst -> SUBSET ReadAt]]
       /\ stands' = [stands EXCEPT ![n] = [j \in Inst |-> stands[n][j] \cup need[j]]]
  BY <1>5, <1>10 DEF DInv, StandsOK
<1>13. /\ \A u \in Use : u # n => stands'[u] = stands[u]
       /\ \A j \in Inst : stands'[n][j] = stands[n][j] \cup need[j]
  BY <1>10, <1>12
<1>14. ASSUME NEW j \in Inst, NEW v
       PROVE  v \in need[j] <=> \E m \in Inst : <<m, j>> \in g.raw[k] /\ v \in stands[o][m]
  <2>1. need[j] = UNION {stands[o][p[1]] : p \in {q \in g.raw[k] : q[2] = j}}
    BY <1>3 DEF Needed
  <2>2. ASSUME v \in need[j] PROVE \E m \in Inst : <<m, j>> \in g.raw[k] /\ v \in stands[o][m]
    <3>1. PICK p \in g.raw[k] : p[2] = j /\ v \in stands[o][p[1]]
      BY <2>1, <2>2
    <3>2. p = <<p[1], p[2]>> /\ p[1] \in Inst
      BY <1>7, <1>8 DEF Graph, Map
    <3> QED BY <3>1, <3>2
  <2>3. ASSUME NEW m \in Inst, <<m, j>> \in g.raw[k], v \in stands[o][m] PROVE v \in need[j]
    BY <2>1, <2>3
  <2> QED BY <2>2, <2>3
<1>15. stands' \in [Use -> [Inst -> SUBSET ReadAt]]
  <2>1. ASSUME NEW j \in Inst PROVE need[j] \in SUBSET ReadAt
    <3>1. \A m \in Inst : stands[o][m] \in SUBSET ReadAt
      BY <1>12
    <3>2. \A v : v \in need[j] => v \in ReadAt
      BY <1>14, <3>1
    <3> QED BY <3>2
  <2>2. [j \in Inst |-> stands[n][j] \cup need[j]] \in [Inst -> SUBSET ReadAt]
    BY <1>10, <1>12, <2>1
  <2> QED BY <1>12, <2>2
<1>16. g' = AddReload(g, o, n, g.raw[k], t)
  BY <1>5
<1>17. \A j \in Inst : \A v : v \in stands'[n][j] <=>
          v \in stands[n][j] \/ \E m \in Inst : <<m, j>> \in g.raw[k] /\ v \in stands[o][m]
  BY <1>13, <1>14
<1>18. IsReloadStep(o, n, k, t)
  BY <1>1, <1>2, <1>4, <1>8, <1>9, <1>10, <1>11, <1>13, <1>15, <1>16, <1>17 DEF IsReloadStep
<1> QED BY <1>1, <1>6, <1>7, <1>18

LEMMA ReloadOperandKeeps == ASSUME DInv, NEW o \in Use, ReloadOperand(o) PROVE DInv'
<1>1. PICK n, k, t : IsReloadStep(o, n, k, t)
  BY ReloadSteps
<1>2. /\ run.stage = "reload" /\ op = Idle /\ o \in run.loads
      /\ run' = [run EXCEPT !.loads = @ \ {o}]
      /\ UNCHANGED <<scop, must, op, made>>
  BY <1>1 DEF IsReloadStep
<1>4. t = g.def[k[2]] /\ k = run.edge
  BY <1>1 DEF IsReloadStep
<1>6. Detached(k) /\ GInv
  BY <1>4, ReloadSteps
<1>7. g \in Graph /\ Tied(g) /\ scop \in Scops /\ must \subseteq Def
  BY ReloadSteps
<1>8. k \in Def \X Use /\ k[1] \in Def /\ k[2] \in Use /\ t \in Def /\ g.def[k[2]] \in Def
  BY <1>1, <1>4 DEF IsReloadStep
<1>9. g.def[o] = k[1]
  BY <1>1 DEF IsReloadStep
<1>10. n \in Use /\ g.def[n] \in {NoDef, t} /\ n # k[2]
  BY <1>1 DEF IsReloadStep
<1>11. /\ Reloaded(g, o, n, k, t, g') /\ Tied(g') /\ \A d \in Def : UsedAgrees(g', d)
       /\ g' \in Graph /\ g'.dom = g.dom
       /\ \A u \in Use : g'.def[u] = IF u = n THEN t ELSE g.def[u]
       /\ \A d \in Def : g'.ops[d] = IF d = t THEN g.ops[d] \cup {n} ELSE g.ops[d]
       /\ \A e \in Def \X Use : e[2] # n => g'.raw[e] = g.raw[e]
       /\ \A e \in Use \X Def : e[1] # n => g'.war[e] = g.war[e]
  BY <1>1 DEF IsReloadStep, Reloaded
(* the graph, *)
<1>12. GInv'
  <2>1. UsedCoherent'
    BY <1>11 DEF UsedCoherent, UsedAgrees
  <2>2. op' = Idle /\ scop' \in Scops /\ must' \subseteq Def
    BY <1>2, <1>7
  <2> QED BY <1>11, <2>1, <2>2, IdleTied
<1>13. run \in RunRecord
  BY DEF DInv, RunOK
<1>14. /\ run'.stage = "reload" /\ run'.edge = k /\ run'.loads = run.loads \ {o}
       /\ run'.splits = run.splits /\ run'.todo = run.todo /\ run'.edges = run.edges /\ run'.src = run.src
  BY <1>2, <1>4, <1>13 DEF RunRecord
<1>15. Detached(k)'
  <2>1. op' = Idle
    BY <1>2
  <2>2. g'.def[k[2]] \in Def
    BY <1>8, <1>10, <1>11
  <2>3. ASSUME NEW d \in Def PROVE g'.ops[d] = {u \in Use : g'.def[u] = d} \ {k[2]}
    <3>1. g.ops[d] = {u \in Use : g.def[u] = d} \ {k[2]}
      BY <1>6 DEF Detached
    <3>2. CASE d = t
      <4>1. g'.ops[d] = g.ops[d] \cup {n}
        BY <1>11, <3>2
      <4>2. \A u \in Use : g'.def[u] = d <=> g.def[u] = d \/ u = n
        BY <1>11, <3>2
      <4> QED BY <1>10, <3>1, <4>1, <4>2
    <3>3. CASE d # t
      <4>1. g'.ops[d] = g.ops[d]
        BY <1>11, <3>3
      <4>2. \A u \in Use : g'.def[u] = d <=> g.def[u] = d
        BY <1>10, <1>11, <3>3, NoDefAssumption
      <4> QED BY <3>1, <4>1, <4>2
    <3> QED BY <3>2, <3>3
  <2>4. ASSUME NEW e \in Def PROVE g'.war[<<k[2], e>>] = {}
    <3>1. <<k[2], e>> \in Use \X Def /\ <<k[2], e>>[1] = k[2]
      BY <1>8
    <3> QED BY <1>6, <1>10, <1>11, <3>1 DEF Detached
  <2>5. ASSUME NEW e \in Def, e # k[1] PROVE g'.raw[<<e, k[2]>>] = {}
    <3>1. <<e, k[2]>> \in Def \X Use /\ <<e, k[2]>>[2] = k[2]
      BY <1>8
    <3> QED BY <1>6, <1>10, <1>11, <2>5, <3>1 DEF Detached
  <2>6. run'.loads \subseteq g'.ops[k[1]]
    BY <1>6, <1>8, <1>11, <1>14 DEF Detached
  <2> QED BY <1>8, <2>1, <2>2, <2>3, <2>4, <2>5, <2>6 DEF Detached
<1>16. OperandsOK'
  BY <1>14, <1>15 DEF OperandsOK, Detached
<1>17. NodesOK'
  <2>1. t \in made
    BY <1>4, <1>8, NoDefAssumption DEF DInv, NodesOK
  <2> QED BY <1>2, <1>11, <2>1 DEF DInv, NodesOK
<1>18. RunOK'
  <2>1. run' \in RunRecord
    BY <1>2, <1>13 DEF RunRecord
  <2> QED BY <1>2, <1>14, <2>1 DEF DInv, RunOK
<1>19. SplitsOK'
  BY <1>2, <1>14, StillNoPieces DEF DInv
(* and the values. *)
<1>21. /\ stands' \in [Use -> [Inst -> SUBSET ReadAt]]
       /\ \A u \in Use : u # n => stands'[u] = stands[u]
       /\ \A j \in Inst : \A v : v \in stands'[n][j] =>
             v \in stands[n][j] \/ \E m \in Inst : <<m, j>> \in g.raw[k] /\ v \in stands[o][m]
  BY <1>1 DEF IsReloadStep
<1>23. StandsOK'
  <2>1. \A u \in Use : g'.def[u] = NoDef => u # n /\ g.def[u] = NoDef
    BY <1>8, <1>11, NoDefAssumption
  <2> QED BY <1>21, <2>1 DEF DInv, StandsOK
<1>24. StandsKept'
  <2>1. \A j \in Inst : \A v \in stands'[n][j] :
            \/ v \in stands[n][j] /\ g.def[n] \in Def
            \/ \E m \in Inst : <<m, j>> \in g.raw[k] /\ v \in stands[o][m]
    <3>1. g.def[n] = NoDef => \A j \in Inst : stands[n][j] = {}
      BY <1>10 DEF DInv, StandsOK
    <3> QED BY <1>8, <1>10, <1>21, <3>1
  <2>2. Kept(g, made, stands, RAW(scop)) /\ made \in SUBSET Def
    BY DEF DInv, StandsKept, NodesOK
  <2>3. Kept(g', made, stands', RAW(scop))
    <3>1. g \in Graph /\ Tied(g) /\ k \in Def \X Use /\ g.def[n] \in {NoDef, g.def[k[2]]}
          /\ n \in Use /\ o \in Use /\ Reloaded(g, o, n, k, g.def[k[2]], g')
      BY <1>4, <1>7, <1>8, <1>10, <1>11
    <3>2. PICK sp : sp = stands'
      OBVIOUS
    <3>3. \A u \in Use : u # n => sp[u] = stands[u]
      BY <1>21, <3>2
    <3>4. \A j \in Inst : \A v \in sp[n][j] :
              \/ v \in stands[n][j] /\ g.def[n] \in Def
              \/ \E m \in Inst : <<m, j>> \in g.raw[k] /\ v \in stands[o][m]
      BY <2>1, <3>2
    <3>5. PICK r : r = g'
      OBVIOUS
    <3>6. Reloaded(g, o, n, k, g.def[k[2]], r)
      BY <3>1, <3>5
    <3>7. PICK h, st, raw, nodes : h = g /\ st = stands /\ raw = RAW(scop) /\ nodes = made
      OBVIOUS
    <3>8. h \in Graph /\ Tied(h) /\ h.def[n] \in {NoDef, h.def[k[2]]} /\ h.def[o] = k[1]
          /\ Reloaded(h, o, n, k, h.def[k[2]], r)
      BY <1>9, <3>1, <3>6, <3>7
    <3>9. TakesPlaces(h, o, n, k, st, sp)
      BY <3>3, <3>4, <3>7 DEF TakesPlaces
    <3>10. nodes \in SUBSET Def /\ Kept(h, nodes, st, raw)
      BY <2>2, <3>7
    <3>11. Kept(r, nodes, sp, raw)
      <4>1. k \in Def \X Use /\ n \in Use /\ o \in Use
        BY <3>1
      <4> QED BY ONLY <3>8, <3>9, <3>10, <4>1, ReloadKept
    <3> QED BY <3>2, <3>5, <3>7, <3>11
  <2> QED BY <1>2, <2>3 DEF StandsKept
<1> QED BY <1>12, <1>16, <1>17, <1>18, <1>19, <1>23, <1>24 DEF DInv

-----------------------------------------------------------------------------
(* An edge that is cleared takes its read out of the program: nothing else depends on it. *)
LEMMA ClearFacts ==
    ASSUME NEW h \in Graph, Tied(h), \A d \in Def : UsedAgrees(h, d),
           NEW k \in Def \X Use,
           \A e \in Def : h.war[<<k[2], e>>] = {},
           \A e \in Def : e # k[1] => h.raw[<<e, k[2]>>] = {},
           NEW r, r = ClearPropagated(h, k)
    PROVE  /\ r \in Graph /\ r.dom = h.dom /\ r.ops = h.ops
           /\ \A u \in Use : r.def[u] = IF u = k[2] THEN NoDef ELSE h.def[u]
           /\ \A e \in Def \X Use : r.raw[e] = IF e[2] = k[2] THEN {} ELSE h.raw[e]
           /\ Tied(r)
           /\ \A d \in Def : UsedAgrees(r, d)
<1> DEFINE raw == [h.raw EXCEPT ![k] = {}]
           used == [h.used EXCEPT ![k[1]] = Miss]
           def == [h.def EXCEPT ![k[2]] = NoDef]
<1>1. k[1] \in Def /\ k[2] \in Use /\ k = <<k[1], k[2]>>
  BY PairFacts
<1>2. r = [h EXCEPT !.raw = raw, !.used = used, !.def = def]
  BY DEF ClearPropagated
<1>3. /\ raw \in [Def \X Use -> Map]
      /\ \A e \in Def \X Use : raw[e] = IF e = k THEN {} ELSE h.raw[e]
  BY DEF Graph, Map
<1>4. /\ used \in [Def -> Cache(Inst)]
      /\ \A d \in Def : used[d] = IF d = k[1] THEN Miss ELSE h.used[d]
  BY <1>1 DEF Graph, Cache
<1>5. /\ def \in [Use -> Def \cup {NoDef}]
      /\ \A u \in Use : def[u] = IF u = k[2] THEN NoDef ELSE h.def[u]
  BY <1>1 DEF Graph
<1> HIDE DEF raw, used, def
<1>6. /\ r \in Graph /\ r.dom = h.dom /\ r.ops = h.ops /\ r.war = h.war
      /\ r.raw = raw /\ r.used = used /\ r.def = def
  BY <1>2, <1>3, <1>4, <1>5 DEF Graph
<1>7. ASSUME NEW e \in Def \X Use PROVE r.raw[e] = IF e[2] = k[2] THEN {} ELSE h.raw[e]
  <2>1. e[1] \in Def /\ e[2] \in Use /\ e = <<e[1], e[2]>>
    BY PairFacts
  <2>2. CASE e = k
    BY <1>3, <1>6, <2>2
  <2>3. CASE e # k /\ e[2] = k[2]
    <3>1. e[1] # k[1]
      BY <1>1, <2>1, <2>3
    <3>2. h.raw[e] = {}
      BY <2>1, <2>3, <3>1
    <3> QED BY <1>3, <1>6, <2>3, <3>2
  <2>4. CASE e[2] # k[2]
    BY <1>3, <1>6, <2>4
  <2> QED BY <2>2, <2>3, <2>4
<1>8. Tied(r)
  <2>1. ASSUME NEW e \in Def \X Use, NEW p \in r.raw[e]
        PROVE  p[1] \in r.dom[e[1]] /\ r.def[e[2]] \in Def /\ p[2] \in r.dom[r.def[e[2]]]
    <3>1. e[2] \in Use /\ e[2] # k[2] /\ p \in h.raw[e]
      BY <1>7, <2>1, PairFacts
    <3>2. r.def[e[2]] = h.def[e[2]]
      BY <1>5, <1>6, <3>1
    <3> QED BY <1>6, <3>1, <3>2 DEF Tied
  <2>2. ASSUME NEW e \in Use \X Def, NEW p \in r.war[e]
        PROVE  r.def[e[1]] \in Def /\ p[1] \in r.dom[r.def[e[1]]] /\ p[2] \in r.dom[e[2]]
    <3>1. e[1] \in Use /\ e[2] \in Def /\ e = <<e[1], e[2]>>
      BY PairFacts
    <3>2. e[1] # k[2]
      BY <1>6, <2>2, <3>1
    <3>3. r.def[e[1]] = h.def[e[1]]
      BY <1>5, <1>6, <3>1, <3>2
    <3> QED BY <1>6, <2>2, <3>3 DEF Tied
  <2> QED BY <2>1, <2>2 DEF Tied
<1>9. ASSUME NEW d \in Def, r.used[d] # Miss PROVE r.used[d] = RawDomain(r, d)
  <2>1. d # k[1] /\ r.used[d] = h.used[d]
    BY <1>4, <1>6, <1>9
  <2>2. \A u \in Use : r.raw[<<d, u>>] = h.raw[<<d, u>>]
    <3>1. \A u \in Use : <<d, u>> \in Def \X Use /\ <<d, u>> # k
      BY <1>1, <2>1
    <3> QED BY <1>3, <1>6, <3>1
  <2>3. RawDomain(r, d) = RawDomain(h, d)
    BY <2>2 DEF RawDomain
  <2> QED BY <1>9, <2>1, <2>3 DEF UsedAgrees
<1> QED BY <1>5, <1>6, <1>7, <1>8, <1>9 DEF UsedAgrees

LEMMA FinishEdgeKeeps == ASSUME DInv, FinishEdge PROVE DInv'
<1>1. PICK k : k = run.edge
  OBVIOUS
<1>2. /\ run.stage = "reload" /\ op = Idle /\ run.loads = {}
      /\ g' = ClearPropagated(g, k)
      /\ stands' = [stands EXCEPT ![k[2]] = [j \in Inst |-> {}]]
      /\ run' = [run EXCEPT !.stage = "propagate", !.edges = @ \ {k}, !.edge = NoEdge]
      /\ UNCHANGED <<scop, must, op, made>>
  BY <1>1 DEF FinishEdge
<1>3. Detached(k) /\ GInv
  BY <1>1, <1>2 DEF DInv, OperandsOK
<1>4. /\ g \in Graph /\ Tied(g) /\ \A d \in Def : UsedAgrees(g, d)
      /\ scop \in Scops /\ must \subseteq Def
  <2>1. \A d \in Def : UsedAgrees(g, d)
    BY <1>3 DEF GInv, IInv, UsedCoherent, UsedAgrees
  <2> QED BY <1>2, <1>3, <2>1, TiedIdle DEF GInv, IInv, TypeOK
<1>5. k \in Def \X Use /\ k[1] \in Def /\ k[2] \in Use
  BY <1>3, PairFacts DEF Detached
<1>6. /\ g' \in Graph /\ g'.dom = g.dom /\ g'.ops = g.ops
      /\ \A u \in Use : g'.def[u] = IF u = k[2] THEN NoDef ELSE g.def[u]
      /\ \A e \in Def \X Use : g'.raw[e] = IF e[2] = k[2] THEN {} ELSE g.raw[e]
      /\ Tied(g')
      /\ \A d \in Def : UsedAgrees(g', d)
  <2>1. /\ \A e \in Def : g.war[<<k[2], e>>] = {}
        /\ \A e \in Def : e # k[1] => g.raw[<<e, k[2]>>] = {}
    BY <1>3 DEF Detached
  <2> QED BY <1>2, <1>4, <1>5, <2>1, ClearFacts
<1>7. GInv'
  <2>1. UsedCoherent'
    BY <1>6 DEF UsedCoherent, UsedAgrees
  <2>2. op' = Idle /\ scop' \in Scops /\ must' \subseteq Def
    BY <1>2, <1>4
  <2> QED BY <1>6, <2>1, <2>2, IdleTied
<1>8. run \in RunRecord
  BY DEF DInv, RunOK
<1>9. /\ run'.stage = "propagate" /\ run'.edges = run.edges \ {k} /\ run'.splits = run.splits
      /\ run'.todo = run.todo /\ run'.src = run.src
  BY <1>2, <1>8 DEF RunRecord
<1>10. OpsOK'
  <2>1. ASSUME NEW d \in Def PROVE g'.ops[d] = {u \in Use : g'.def[u] = d}
    <3>1. g.ops[d] = {u \in Use : g.def[u] = d} \ {k[2]}
      BY <1>3 DEF Detached
    <3>2. \A u \in Use : g'.def[u] = d <=> g.def[u] = d /\ u # k[2]
      BY <1>6, NoDefAssumption
    <3> QED BY <1>6, <3>1, <3>2
  <2> QED BY <2>1 DEF OpsOK
<1>11. OperandsOK'
  BY <1>9, <1>10 DEF OperandsOK, OpsOK
<1>12. NodesOK'
  BY <1>2, <1>6 DEF DInv, NodesOK
<1>13. RunOK'
  <2>1. run' \in RunRecord
    BY <1>2, <1>8 DEF RunRecord
  <2> QED BY <1>2, <1>9, <2>1 DEF DInv, RunOK
<1>14. SplitsOK'
  BY <1>2, <1>9, StillNoPieces DEF DInv
<1>15. /\ stands \in [Use -> [Inst -> SUBSET ReadAt]]
       /\ \A u \in Use : u # k[2] => stands'[u] = stands[u]
       /\ \A j \in Inst : stands'[k[2]][j] = {}
  BY <1>2, <1>5 DEF DInv, StandsOK
<1>16. StandsOK'
  <2>1. stands' \in [Use -> [Inst -> SUBSET ReadAt]]
    BY <1>2, <1>5, <1>15
  <2> QED BY <1>6, <1>15, <2>1 DEF DInv, StandsOK
<1>17. StandsKept'
  <2>1. ASSUME NEW u \in Use, g'.def[u] \in Def, NEW j \in g'.dom[g'.def[u]], NEW v \in stands'[u][j],
               NEW e \in Def, NEW i \in Inst, <<i, v[2]>> \in RAW(scop)[<<e, v[1]>>]
        PROVE  \E c \in made : Orig[c] = e /\ <<i, j>> \in g'.raw[<<c, u>>]
    <3>1. u # k[2] /\ g'.def[u] = g.def[u]
      BY <1>6, <2>1, NoDefAssumption
    <3>2. v \in stands[u][j] /\ j \in g.dom[g.def[u]]
      BY <1>6, <1>15, <2>1, <3>1
    <3>3. PICK c \in made : Orig[c] = e /\ <<i, j>> \in g.raw[<<c, u>>]
      BY <2>1, <3>1, <3>2 DEF DInv, StandsKept, Kept
    <3>4. <<c, u>> \in Def \X Use /\ <<c, u>>[2] = u
      BY DEF DInv, NodesOK
    <3>5. g'.raw[<<c, u>>] = g.raw[<<c, u>>]
      BY <1>6, <3>1, <3>4
    <3> QED BY <3>3, <3>5
  <2>2. Kept(g', made, stands', RAW(scop))
    BY <2>1 DEF Kept
  <2> QED BY <1>2, <2>2 DEF StandsKept
<1> QED BY <1>7, <1>11, <1>12, <1>13, <1>14, <1>16, <1>17 DEF DInv

-----------------------------------------------------------------------------
LEMMA RunStep == DInv /\ [RunNext]_runVars => DInv'
<1> SUFFICES ASSUME DInv, [RunNext]_runVars PROVE DInv'
  OBVIOUS
<1>1. CASE \E d \in Def : RestrictNode(d)
  BY <1>1, RestrictNodeKeeps
<1>2. CASE \E d \in Def : Split(d)
  BY <1>2, SplitKeeps
<1>3. CASE \E d \in Def : PickSource(d)
  BY <1>3, PickSourceKeeps
<1>4. CASE \E a \in Array : PropagateEdges(a)
  BY <1>4, PropagateEdgesKeeps
<1>5. CASE CutTarget
  BY <1>5, CutTargetKeeps
<1>6. CASE GiveUp
  BY <1>6, GiveUpKeeps
<1>7. CASE StartSplits
  BY <1>7, StartSplitsKeeps
<1>8. CASE \E k \in Def \X Use : PropagateEdge(k)
  BY <1>8, PropagateEdgeKeeps
<1>9. CASE \E o \in Use : ReloadOperand(o)
  BY <1>9, ReloadOperandKeeps
<1>10. CASE EndLoop \/ EndWorklist
  BY <1>10, LoopKeeps
<1>11. CASE StartPropagation
  BY <1>11, StartPropagationKeeps
<1>12. CASE Abort \/ FinishGroup
  BY <1>12, EndKeeps
<1>13. CASE FinishEdge
  BY <1>13, FinishEdgeKeeps
<1>14. CASE FinishSource
  BY <1>14, FinishSourceKeeps
<1>15. CASE (VisitEdge \/ NextPhase) /\ UNCHANGED <<run, made, stands>>
  BY <1>15, VisitKeeps
<1>16. CASE UNCHANGED runVars
  <2>1. UNCHANGED <<scop, g, must, op, run, made, stands>>
    BY <1>16 DEF runVars
  <2>2. IInv'
    BY <2>1 DEF DInv, GInv, IInv, TypeOK, UsedCoherent, RawDomain, RawStarts, WarEnds, TodoOK, KeysOf
  <2>3. WarTodo' /\ WarStops' /\ WarStarts' /\ RawStops'
    BY <2>1 DEF DInv, GInv, WarTodo, WarStops, WarStarts, RawStops
  <2>4. OperandsOK'
    BY <2>1 DEF DInv, OperandsOK, Detached, OpsOK, Idle
  <2>5. NodesOK' /\ RunOK' /\ SplitsOK' /\ StandsOK' /\ StandsKept'
    BY <2>1 DEF DInv, NodesOK, RunOK, SplitsOK, StandsOK, StandsKept
  <2> QED BY <2>2, <2>3, <2>4, <2>5 DEF DInv, GInv
<1>17. CASE Finished
  BY <1>16, <1>17 DEF Finished
<1> QED BY <1>1, <1>2, <1>3, <1>4, <1>5, <1>6, <1>7, <1>8, <1>9, <1>10, <1>11, <1>12, <1>13, <1>14,
           <1>15, <1>16, <1>17 DEF RunNext

(* The invariant of the pass, on which the theorems below rest. *)
THEOREM RunInvariance == RunSpec => []DInv
BY InitRun, RunStep, PTL DEF RunSpec

(* Every operand of a node is a read in it. *)
LEMMA OperandsIn == ASSUME DInv, NEW d \in Def, NEW u \in g.ops[d] PROVE u \in Use /\ g.def[u] = d
<1>1. CASE run.stage = "reload"
  BY <1>1 DEF DInv, OperandsOK, Detached
<1>2. CASE run.stage # "reload"
  BY <1>2 DEF DInv, OperandsOK, OpsOK
<1> QED BY <1>1, <1>2

(* Every value the pass assigns is one its types allow (DefNodeMap, SplitsMap, Worklist). *)
THEOREM RunTypeCorrect == RunSpec => []RunTypeOK
<1>1. DInv => RunTypeOK
  <2> SUFFICES ASSUME DInv PROVE RunTypeOK
    OBVIOUS
  <2>1. TypeOK
    BY DEF DInv, GInv, IInv
  <2>2. run \in RunRecord /\ made \subseteq Def /\ (run.edges # {} => run.src \in made)
    BY DEF DInv, RunOK, NodesOK
  <2>3. stands \in [Use -> [Inst -> SUBSET ReadAt]]
    BY DEF DInv, StandsOK
  <2> QED BY <2>1, <2>2, <2>3 DEF RunTypeOK, TypeOK
<1> QED BY <1>1, RunInvariance, PTL

(***************************************************************************)
(* DefNode::verify and UseNode::verify: through every split, reload and    *)
(* deletion, the edges of a read relate instances that exist, and the read *)
(* is an operand of its statement.                                         *)
(***************************************************************************)
THEOREM ReadersCorrect == RunSpec => []ReadersAttached
<1>1. DInv => ReadersAttached
  <2> SUFFICES ASSUME DInv, op = Idle, run.stage # "reload" PROVE ReadersAttached
    BY DEF ReadersAttached
  <2>1. Tied(g)
    BY TiedIdle DEF DInv
  <2>2. ASSUME NEW u \in Use, g.def[u] \in Def
        PROVE  g.def[u] \in made /\ u \in g.ops[g.def[u]]
    <3>1. g.def[u] \in made
      BY <2>2, NoDefAssumption DEF DInv, NodesOK
    <3> QED BY <2>2, <3>1 DEF DInv, OperandsOK, OpsOK
  <2>3. ASSUME NEW k \in Def \X Use, g.raw[k] # {}
        PROVE  EdgeDomain(g.raw[k]) \subseteq g.dom[k[1]] /\ Attached(k[2], EdgeRange(g.raw[k]))
    <3>1. k[2] \in Use /\ g.def[k[2]] \in Def
      BY <2>1, <2>3, PairFacts DEF Tied
    <3>2. EdgeDomain(g.raw[k]) \subseteq g.dom[k[1]] /\ EdgeRange(g.raw[k]) \subseteq g.dom[g.def[k[2]]]
      BY <2>1 DEF Tied, EdgeDomain, EdgeRange
    <3> QED BY <2>2, <3>1, <3>2 DEF Attached
  <2>4. ASSUME NEW k \in Use \X Def, g.war[k] # {}
        PROVE  EdgeRange(g.war[k]) \subseteq g.dom[k[2]] /\ Attached(k[1], EdgeDomain(g.war[k]))
    <3>1. k[1] \in Use /\ g.def[k[1]] \in Def
      BY <2>1, <2>4, PairFacts DEF Tied
    <3>2. EdgeRange(g.war[k]) \subseteq g.dom[k[2]] /\ EdgeDomain(g.war[k]) \subseteq g.dom[g.def[k[1]]]
      BY <2>1 DEF Tied, EdgeDomain, EdgeRange
    <3> QED BY <2>2, <3>1, <3>2 DEF Attached
  <2> QED BY <2>3, <2>4 DEF ReadersAttached
<1> QED BY <1>1, RunInvariance, PTL

(***************************************************************************)
(* What restrictStmt may not delete, whatever was split and propagated in  *)
(* the meantime: the write whose value an operand loads (getUsedDomain).   *)
(***************************************************************************)
THEOREM LoadedCorrect == RunSpec => []LoadedWritesKept
<1>1. DInv => LoadedWritesKept
  <2> SUFFICES ASSUME DInv, NEW d \in made, NEW u \in g.ops[d], NEW j \in g.dom[d],
                      NEW v \in stands[u][j], NEW e \in Def, NEW i \in Inst,
                      <<i, v[2]>> \in RAW(scop)[<<e, v[1]>>]
               PROVE  Exists(<<e, i>>)
    BY DEF LoadedWritesKept
  <2>1. d \in Def /\ u \in Use /\ g.def[u] = d
    BY OperandsIn DEF DInv, NodesOK
  <2>2. PICK c \in made : Orig[c] = e /\ <<i, j>> \in g.raw[<<c, u>>]
    BY <2>1 DEF DInv, StandsKept, Kept
  <2>3. c \in Def /\ i \in g.dom[c]
    <3>1. c \in Def /\ <<i, j>>[1] = i
      BY DEF DInv, NodesOK
    <3> QED BY <2>1, <2>2, <3>1 DEF DInv, GInv, IInv, RawStarts
  <2> QED BY <2>2, <2>3 DEF Exists
<1> QED BY <1>1, RunInvariance, PTL

(* getUsedDomain is never stale, in the middle of a group or of a setDomain either. *)
THEOREM RunUsedCorrect == RunSpec => []UsedCoherent
<1>1. DInv => UsedCoherent
  BY DEF DInv, GInv, IInv
<1> QED BY <1>1, RunInvariance, PTL

-----------------------------------------------------------------------------
(***************************************************************************)
(* A split sends the pairs of each edge to the statement or to its copy,   *)
(* and loses none whose instances exist.                                   *)
(***************************************************************************)
(* A pair of an edge, and what it says of the statements of the program. *)
RawDep(h, st, e, u, i, j, x) ==
    /\ <<i, j>> \in h.raw[<<e, u>>]
    /\ x = <<<<Orig[e], i>>, <<Orig[h.def[u]], j, st[u][j]>>>>

WarDep(h, st, u, e, i, j, x) ==
    /\ <<i, j>> \in h.war[<<u, e>>]
    /\ x = <<<<Orig[h.def[u]], i, st[u][i]>>, <<Orig[e], j>>>>

WawDep(h, e, f, i, j, x) ==
    /\ <<i, j>> \in h.waw[<<e, f>>] /\ i \in h.dom[e] /\ j \in h.dom[f]
    /\ x = <<<<Orig[e], i>>, <<Orig[f], j>>>>

IsRawDep(h, st, x) == \E e \in Def, u \in Use, i, j \in Inst : RawDep(h, st, e, u, i, j, x)
IsWarDep(h, st, x) == \E u \in Use, e \in Def, i, j \in Inst : WarDep(h, st, u, e, i, j, x)
IsWawDep(h, x)     == \E e, f \in Def, i, j \in Inst : WawDep(h, e, f, i, j, x)

LEMMA DependenceMembers ==
    ASSUME NEW h \in Graph, NEW st
    PROVE  /\ \A x : x \in Dependences(h, st).raw <=> IsRawDep(h, st, x)
           /\ \A x : x \in Dependences(h, st).war <=> IsWarDep(h, st, x)
           /\ \A x : x \in Dependences(h, st).waw <=> IsWawDep(h, x)
<1>1. ASSUME NEW x PROVE x \in Dependences(h, st).raw <=> IsRawDep(h, st, x)
  <2>1. x \in Dependences(h, st).raw <=> \E k \in Def \X Use : \E p \in h.raw[k] :
            x = <<<<Orig[k[1]], p[1]>>, <<Orig[h.def[k[2]]], p[2], st[k[2]][p[2]]>>>>
    BY DEF Dependences
  <2>2. \A k \in Def \X Use : h.raw[k] \subseteq Inst \X Inst
    BY DEF Graph, Map
  <2>3. ASSUME x \in Dependences(h, st).raw PROVE IsRawDep(h, st, x)
    <3>1. PICK e \in Def, u \in Use : \E p \in h.raw[<<e, u>>] :
              x = <<<<Orig[e], p[1]>>, <<Orig[h.def[u]], p[2], st[u][p[2]]>>>>
      BY <2>1, <2>3
    <3>2. PICK p \in h.raw[<<e, u>>] :
              x = <<<<Orig[e], p[1]>>, <<Orig[h.def[u]], p[2], st[u][p[2]]>>>>
      BY <3>1
    <3>3. PICK i \in Inst, j \in Inst : p = <<i, j>>
      BY <2>2
    <3> QED BY <3>2, <3>3 DEF IsRawDep, RawDep
  <2>4. ASSUME IsRawDep(h, st, x) PROVE x \in Dependences(h, st).raw
    <3>1. PICK e \in Def, u \in Use, i \in Inst, j \in Inst : RawDep(h, st, e, u, i, j, x)
      BY <2>4 DEF IsRawDep
    <3>2. <<e, u>> \in Def \X Use /\ <<e, u>>[1] = e /\ <<e, u>>[2] = u
          /\ <<i, j>>[1] = i /\ <<i, j>>[2] = j
      OBVIOUS
    <3> QED BY <2>1, <3>1, <3>2 DEF RawDep
  <2> QED BY <2>3, <2>4
<1>2. ASSUME NEW x PROVE x \in Dependences(h, st).war <=> IsWarDep(h, st, x)
  <2>1. x \in Dependences(h, st).war <=> \E k \in Use \X Def : \E p \in h.war[k] :
            x = <<<<Orig[h.def[k[1]]], p[1], st[k[1]][p[1]]>>, <<Orig[k[2]], p[2]>>>>
    BY DEF Dependences
  <2>2. \A k \in Use \X Def : h.war[k] \subseteq Inst \X Inst
    BY DEF Graph, Map
  <2>3. ASSUME x \in Dependences(h, st).war PROVE IsWarDep(h, st, x)
    <3>1. PICK u \in Use, e \in Def : \E p \in h.war[<<u, e>>] :
              x = <<<<Orig[h.def[u]], p[1], st[u][p[1]]>>, <<Orig[e], p[2]>>>>
      BY <2>1, <2>3
    <3>2. PICK p \in h.war[<<u, e>>] :
              x = <<<<Orig[h.def[u]], p[1], st[u][p[1]]>>, <<Orig[e], p[2]>>>>
      BY <3>1
    <3>3. PICK i \in Inst, j \in Inst : p = <<i, j>>
      BY <2>2
    <3> QED BY <3>2, <3>3 DEF IsWarDep, WarDep
  <2>4. ASSUME IsWarDep(h, st, x) PROVE x \in Dependences(h, st).war
    <3>1. PICK u \in Use, e \in Def, i \in Inst, j \in Inst : WarDep(h, st, u, e, i, j, x)
      BY <2>4 DEF IsWarDep
    <3>2. <<u, e>> \in Use \X Def /\ <<u, e>>[1] = u /\ <<u, e>>[2] = e
          /\ <<i, j>>[1] = i /\ <<i, j>>[2] = j
      OBVIOUS
    <3> QED BY <2>1, <3>1, <3>2 DEF WarDep
  <2> QED BY <2>3, <2>4
<1>3. ASSUME NEW x PROVE x \in Dependences(h, st).waw <=> IsWawDep(h, x)
  <2>1. x \in Dependences(h, st).waw <=> \E k \in Def \X Def : \E p \in h.waw[k] :
            /\ p[1] \in h.dom[k[1]] /\ p[2] \in h.dom[k[2]]
            /\ x = <<<<Orig[k[1]], p[1]>>, <<Orig[k[2]], p[2]>>>>
    BY DEF Dependences
  <2>2. \A k \in Def \X Def : h.waw[k] \subseteq Inst \X Inst
    BY DEF Graph, Map
  <2>3. ASSUME x \in Dependences(h, st).waw PROVE IsWawDep(h, x)
    <3>1. PICK e \in Def, f \in Def : \E p \in h.waw[<<e, f>>] :
              /\ p[1] \in h.dom[e] /\ p[2] \in h.dom[f]
              /\ x = <<<<Orig[e], p[1]>>, <<Orig[f], p[2]>>>>
      BY <2>1, <2>3
    <3>2. PICK p \in h.waw[<<e, f>>] :
              /\ p[1] \in h.dom[e] /\ p[2] \in h.dom[f]
              /\ x = <<<<Orig[e], p[1]>>, <<Orig[f], p[2]>>>>
      BY <3>1
    <3>3. PICK i \in Inst, j \in Inst : p = <<i, j>>
      BY <2>2
    <3> QED BY <3>2, <3>3 DEF IsWawDep, WawDep
  <2>4. ASSUME IsWawDep(h, x) PROVE x \in Dependences(h, st).waw
    <3>1. PICK e \in Def, f \in Def, i \in Inst, j \in Inst : WawDep(h, e, f, i, j, x)
      BY <2>4 DEF IsWawDep
    <3>2. <<e, f>> \in Def \X Def /\ <<e, f>>[1] = e /\ <<e, f>>[2] = f
          /\ <<i, j>>[1] = i /\ <<i, j>>[2] = j
      OBVIOUS
    <3> QED BY <2>1, <3>1, <3>2 DEF WawDep
  <2> QED BY <2>3, <2>4
<1> QED BY <1>1, <1>2, <1>3

(* What Split does, in the terms of the lemmas about splits. *)
IsSplitStep(t, c, keep, twin) ==
    /\ t \in made /\ c \in Def \ made /\ made \subseteq Def /\ c # t
    /\ Orig[c] = Orig[t] /\ g.dom[c] = {} /\ keep # {}
    /\ IsSplit(g, t, c, keep, twin)
    /\ \A u \in Twins(twin) : g.def[u] = NoDef
    /\ \A u \in Use : g.def[u] # c
    /\ g' = KeepInstances(SplitDef(g, t, c, keep, twin), t, keep)
    /\ made' = made \cup {c}
    /\ \A u \in Use : stands'[u] = stands[WasUse(twin, u)]
    /\ scop' = scop

LEMMA SplitSteps ==
    ASSUME DInv, NEW t \in Def, Split(t)
    PROVE  /\ g \in Graph /\ scop \in Scops /\ Tied(g) /\ OpsAre(g)
           /\ \E c, keep, twin : IsSplitStep(t, c, keep, twin)
<1>1. /\ op = Idle /\ Len(run.splits[t]) > 1 /\ run.stage = "split"
      /\ \E e \in Def \ made : Orig[e] = Orig[t]
      /\ \E f \in [g.ops[t] -> FreshUses] : IsInjective(f)
      /\ scop' = scop
  BY DEF Split
<1>2. scop \in Scops /\ g \in Graph /\ Tied(g) /\ OpsAre(g)
  BY <1>1, TiedIdle DEF DInv, GInv, IInv, TypeOK, OperandsOK, OpsOK, OpsAre
<1>3. PICK s : s = run.splits[t]
  OBVIOUS
<1>4. PICK c \in Def \ made : /\ c = CHOOSE e \in Def \ made : Orig[e] = Orig[t]
                              /\ Orig[c] = Orig[t]
  BY <1>1
<1>5. PICK twin \in [g.ops[t] -> FreshUses] :
          /\ twin = CHOOSE f \in [g.ops[t] -> FreshUses] : IsInjective(f)
          /\ IsInjective(twin)
  BY <1>1
<1>6. /\ g' = KeepInstances(SplitDef(g, t, c, s[2], twin), t, s[2])
      /\ made' = made \cup {c}
      /\ stands' = [u \in Use |-> IF \E o \in g.ops[t] : twin[o] = u
                                  THEN stands[TwinOf(twin, u)] ELSE stands[u]]
  BY <1>3, <1>4, <1>5 DEF Split
<1>7. s[2] \subseteq g.dom[t] /\ s[2] # {}
  <2>1. IsPieces(s, g.dom[t]) /\ Len(s) > 1
    BY <1>1, <1>3 DEF DInv, SplitsOK
  <2>2. Len(s) \in Nat
    BY <2>1 DEF IsPieces
  <2>3. 2 \in 1..Len(s)
    BY <2>1, <2>2
  <2> QED BY <2>1, <2>3, PiecesLeft DEF IsPieces
<1>8. t \in made /\ c # t /\ g.dom[c] = {} /\ made \subseteq Def /\ \A u \in Use : g.def[u] # c
  <2>1. t \in made
    BY <1>7 DEF DInv, NodesOK
  <2> QED BY <1>4, <2>1, NoDefAssumption DEF DInv, NodesOK
<1>9. IsSplit(g, t, c, s[2], twin) /\ \A u \in Twins(twin) : g.def[u] = NoDef
  <2>1. \A o, q \in g.ops[t] : twin[o] = twin[q] => o = q
    BY <1>5 DEF IsInjective
  <2>2. twin \in [g.ops[t] -> {u \in Use : g.def[u] = NoDef}]
    BY DEF FreshUses
  <2>3. s[2] \in SUBSET g.dom[t] /\ c \in Def
    BY <1>4, <1>7
  <2> QED BY <1>2, <1>8, <2>1, <2>2, <2>3, FreshSplit
<1>10. \A u \in Use : stands'[u] = stands[WasUse(twin, u)]
  <2>1. DOMAIN twin = g.ops[t]
    BY <1>5
  <2>2. \A u \in Use : (\E o \in g.ops[t] : twin[o] = u) <=> u \in Twins(twin)
    BY <2>1 DEF Twins
  <2> QED BY <1>6, <2>2 DEF WasUse
<1>11. IsSplitStep(t, c, s[2], twin)
  BY <1>1, <1>4, <1>6, <1>7, <1>8, <1>9, <1>10 DEF IsSplitStep
<1> QED BY <1>2, <1>11

(* The statement a read is in stays the same, as far as the program is concerned. *)
LEMMA SplitReaders ==
    ASSUME NEW t, NEW c, NEW keep, NEW twin, IsSplitStep(t, c, keep, twin), g \in Graph, OpsAre(g),
           NEW u \in Use, NEW j
    PROVE  /\ Orig[g'.def[u]] = Orig[g.def[WasUse(twin, u)]]
           /\ stands'[u][j] = stands[WasUse(twin, u)][j]
<1>1. /\ IsSplit(g, t, c, keep, twin) /\ Orig[c] = Orig[t]
      /\ g' = KeepInstances(SplitDef(g, t, c, keep, twin), t, keep)
      /\ \A x \in Use : stands'[x] = stands[WasUse(twin, x)]
  BY DEF IsSplitStep
<1>2. g'.def[u] = IF u \in Twins(twin) THEN c ELSE g.def[u]
  <2>1. SplitGraph(g, t, c, keep, twin, g')
    BY <1>1, SplitNodes
  <2> QED BY <2>1 DEF SplitGraph
<1>3. CASE u \in Twins(twin)
  <2>1. WasUse(twin, u) \in g.ops[t] /\ WasUse(twin, u) \in Use
    BY <1>1, <1>3, TwinFacts DEF WasUse
  <2>2. g.def[WasUse(twin, u)] = t
    BY <1>1, <2>1 DEF OpsAre, IsSplit
  <2> QED BY <1>1, <1>2, <1>3, <2>2
<1>4. CASE u \notin Twins(twin)
  BY <1>1, <1>2, <1>4 DEF WasUse
<1> QED BY <1>3, <1>4

(* The pairs of each kind are the same before and after, from one side and the other. *)
LEMMA SplitRawDeps ==
    ASSUME NEW t, NEW c, NEW keep, NEW twin, IsSplitStep(t, c, keep, twin),
           g \in Graph, Tied(g), OpsAre(g), NEW x
    PROVE  IsRawDep(g', stands', x) <=> IsRawDep(g, stands, x)
<1>1. /\ IsSplit(g, t, c, keep, twin) /\ t \in Def /\ c \in Def /\ Orig[c] = Orig[t]
      /\ g' = KeepInstances(SplitDef(g, t, c, keep, twin), t, keep)
  BY DEF IsSplitStep
<1>2. g'.raw = SplitDef(g, t, c, keep, twin).raw
  <2>1. SplitGraph(g, t, c, keep, twin, g')
    BY <1>1, SplitNodes
  <2> QED BY <2>1 DEF SplitGraph
<1>3. ASSUME NEW e \in Def, NEW u \in Use, NEW i \in Inst, NEW j \in Inst
      PROVE  <<i, j>> \in g'.raw[<<e, u>>] <=>
                /\ <<i, j>> \in g.raw[<<WasDef(t, c, e), WasUse(twin, u)>>]
                /\ HasDef(g, t, c, keep, e, i) /\ HasUse(g, t, keep, twin, u, j)
  <2>1. <<i, j>>[1] = i /\ <<i, j>>[2] = j
    OBVIOUS
  <2> QED BY <1>1, <1>2, <2>1, SplitFacts
<1>4. \A e \in Def : WasDef(t, c, e) \in Def /\ Orig[WasDef(t, c, e)] = Orig[e]
  BY <1>1 DEF WasDef
<1>5. \A u \in Use : WasUse(twin, u) \in Use
  BY <1>1, TwinFacts
<1>6. ASSUME IsRawDep(g', stands', x) PROVE IsRawDep(g, stands, x)
  <2>1. PICK e \in Def, u \in Use, i \in Inst, j \in Inst : RawDep(g', stands', e, u, i, j, x)
    BY <1>6 DEF IsRawDep
  <2>2. /\ Orig[g'.def[u]] = Orig[g.def[WasUse(twin, u)]]
        /\ stands'[u][j] = stands[WasUse(twin, u)][j]
    BY SplitReaders
  <2>3. RawDep(g, stands, WasDef(t, c, e), WasUse(twin, u), i, j, x)
    BY <1>3, <1>4, <2>1, <2>2 DEF RawDep
  <2> QED BY <1>4, <1>5, <2>3 DEF IsRawDep
<1>7. ASSUME IsRawDep(g, stands, x) PROVE IsRawDep(g', stands', x)
  <2>1. PICK e \in Def, u \in Use, i \in Inst, j \in Inst : RawDep(g, stands, e, u, i, j, x)
    BY <1>7 DEF IsRawDep
  <2>2. <<i, j>> \in g.raw[<<e, u>>] /\ <<i, j>>[1] = i /\ <<i, j>>[2] = j
    BY <2>1 DEF RawDep
  <2>3. Present(g, t, e, i) /\ Present(g, t, u, j)
    BY <1>1, <2>2, TiedReal DEF Real
  <2>4. e # c /\ u \notin Twins(twin)
    BY <1>1, <2>2 DEF IsSplit
  <2>5. PICK f \in Def : WasDef(t, c, f) = e /\ HasDef(g, t, c, keep, f, i)
    BY <1>1, <2>3, <2>4, DefPart
  <2>6. PICK w \in Use : WasUse(twin, w) = u /\ HasUse(g, t, keep, twin, w, j)
    BY <1>1, <2>3, <2>4, UsePart
  <2>7. Orig[g'.def[w]] = Orig[g.def[u]] /\ stands'[w][j] = stands[u][j]
    BY <2>6, SplitReaders
  <2>8. RawDep(g', stands', f, w, i, j, x)
    BY <1>3, <1>4, <2>1, <2>2, <2>5, <2>6, <2>7 DEF RawDep
  <2> QED BY <2>8 DEF IsRawDep
<1> QED BY <1>6, <1>7

LEMMA SplitWarDeps ==
    ASSUME NEW t, NEW c, NEW keep, NEW twin, IsSplitStep(t, c, keep, twin),
           g \in Graph, Tied(g), OpsAre(g), NEW x
    PROVE  IsWarDep(g', stands', x) <=> IsWarDep(g, stands, x)
<1>1. /\ IsSplit(g, t, c, keep, twin) /\ t \in Def /\ c \in Def /\ Orig[c] = Orig[t]
      /\ g' = KeepInstances(SplitDef(g, t, c, keep, twin), t, keep)
  BY DEF IsSplitStep
<1>2. g'.war = SplitDef(g, t, c, keep, twin).war
  <2>1. SplitGraph(g, t, c, keep, twin, g')
    BY <1>1, SplitNodes
  <2> QED BY <2>1 DEF SplitGraph
<1>3. ASSUME NEW e \in Def, NEW u \in Use, NEW i \in Inst, NEW j \in Inst
      PROVE  <<i, j>> \in g'.war[<<u, e>>] <=>
                /\ <<i, j>> \in g.war[<<WasUse(twin, u), WasDef(t, c, e)>>]
                /\ HasUse(g, t, keep, twin, u, i) /\ HasDef(g, t, c, keep, e, j)
  <2>1. <<i, j>>[1] = i /\ <<i, j>>[2] = j
    OBVIOUS
  <2> QED BY <1>1, <1>2, <2>1, SplitFacts
<1>4. \A e \in Def : WasDef(t, c, e) \in Def /\ Orig[WasDef(t, c, e)] = Orig[e]
  BY <1>1 DEF WasDef
<1>5. \A u \in Use : WasUse(twin, u) \in Use
  BY <1>1, TwinFacts
<1>6. ASSUME IsWarDep(g', stands', x) PROVE IsWarDep(g, stands, x)
  <2>1. PICK u \in Use, e \in Def, i \in Inst, j \in Inst : WarDep(g', stands', u, e, i, j, x)
    BY <1>6 DEF IsWarDep
  <2>2. /\ Orig[g'.def[u]] = Orig[g.def[WasUse(twin, u)]]
        /\ stands'[u][i] = stands[WasUse(twin, u)][i]
    BY SplitReaders
  <2>3. WarDep(g, stands, WasUse(twin, u), WasDef(t, c, e), i, j, x)
    BY <1>3, <1>4, <2>1, <2>2 DEF WarDep
  <2> QED BY <1>4, <1>5, <2>3 DEF IsWarDep
<1>7. ASSUME IsWarDep(g, stands, x) PROVE IsWarDep(g', stands', x)
  <2>1. PICK u \in Use, e \in Def, i \in Inst, j \in Inst : WarDep(g, stands, u, e, i, j, x)
    BY <1>7 DEF IsWarDep
  <2>2. /\ <<i, j>> \in g.war[<<u, e>>] /\ <<i, j>>[1] = i /\ <<i, j>>[2] = j
        /\ <<u, e>> \in Use \X Def /\ <<u, e>>[1] = u /\ <<u, e>>[2] = e
    BY <2>1 DEF WarDep
  <2>3. Present(g, t, e, j) /\ Present(g, t, u, i)
    <3>1. i \in g.dom[g.def[u]] /\ j \in g.dom[e]
      BY <2>2 DEF Tied
    <3>2. g.ops[t] = {v \in Use : g.def[v] = t} /\ e \notin g.ops[t] /\ u # t
      BY <1>1, NodesAssumption DEF OpsAre
    <3> QED BY <3>1, <3>2 DEF Present
  <2>4. e # c /\ u \notin Twins(twin)
    BY <1>1, <2>2 DEF IsSplit
  <2>5. PICK f \in Def : WasDef(t, c, f) = e /\ HasDef(g, t, c, keep, f, j)
    BY <1>1, <2>3, <2>4, DefPart
  <2>6. PICK w \in Use : WasUse(twin, w) = u /\ HasUse(g, t, keep, twin, w, i)
    BY <1>1, <2>3, <2>4, UsePart
  <2>7. Orig[g'.def[w]] = Orig[g.def[u]] /\ stands'[w][i] = stands[u][i]
    BY <2>6, SplitReaders
  <2>8. WarDep(g', stands', w, f, i, j, x)
    BY <1>3, <1>4, <2>1, <2>2, <2>5, <2>6, <2>7 DEF WarDep
  <2> QED BY <2>8 DEF IsWarDep
<1> QED BY <1>6, <1>7

LEMMA SplitWawDeps ==
    ASSUME NEW t, NEW c, NEW keep, NEW twin, IsSplitStep(t, c, keep, twin), g \in Graph, NEW x
    PROVE  IsWawDep(g', x) <=> IsWawDep(g, x)
<1>1. /\ IsSplit(g, t, c, keep, twin) /\ t \in Def /\ c \in Def /\ Orig[c] = Orig[t] /\ c # t
      /\ g' = KeepInstances(SplitDef(g, t, c, keep, twin), t, keep) /\ g.dom[c] = {}
      /\ keep \subseteq g.dom[t]
  BY DEF IsSplitStep, IsSplit
<1>2. g'.waw = SplitDef(g, t, c, keep, twin).waw
      /\ \A e \in Def : g'.dom[e] = IF e = t THEN keep ELSE IF e = c THEN g.dom[t] \ keep ELSE g.dom[e]
  <2>1. SplitGraph(g, t, c, keep, twin, g')
    BY <1>1, SplitNodes
  <2>2. SplitDef(g, t, c, keep, twin) \in Graph
    BY <1>1, SplitFacts
  <2> QED BY <1>1, <2>1, <2>2 DEF SplitGraph, KeepInstances, Graph
<1>3. ASSUME NEW e \in Def, NEW f \in Def, NEW i \in Inst, NEW j \in Inst
      PROVE  <<i, j>> \in g'.waw[<<e, f>>] <=>
                /\ <<i, j>> \in g.waw[<<WasDef(t, c, e), WasDef(t, c, f)>>]
                /\ HasDef(g, t, c, keep, e, i) /\ HasDef(g, t, c, keep, f, j)
  <2>1. <<i, j>>[1] = i /\ <<i, j>>[2] = j
    OBVIOUS
  <2> QED BY <1>1, <1>2, <2>1, SplitFacts
<1>4. \A e \in Def : WasDef(t, c, e) \in Def /\ Orig[WasDef(t, c, e)] = Orig[e]
  BY <1>1 DEF WasDef
<1>5. ASSUME NEW e \in Def, NEW i \in g'.dom[e]
      PROVE  i \in g.dom[WasDef(t, c, e)] /\ HasDef(g, t, c, keep, e, i)
  BY <1>1, <1>2, <1>5 DEF WasDef, HasDef
<1>6. ASSUME NEW e \in Def, NEW i \in g.dom[e]
      PROVE  \E f \in Def : WasDef(t, c, f) = e /\ i \in g'.dom[f]
  <2>1. e # c
    BY <1>1, <1>6
  <2>2. CASE e = t /\ i \notin keep
    BY <1>1, <1>2, <2>2 DEF WasDef
  <2>3. CASE ~ (e = t /\ i \notin keep)
    BY <1>2, <2>1, <2>3 DEF WasDef
  <2> QED BY <2>2, <2>3
<1>7. ASSUME IsWawDep(g', x) PROVE IsWawDep(g, x)
  <2>1. PICK e \in Def, f \in Def, i \in Inst, j \in Inst : WawDep(g', e, f, i, j, x)
    BY <1>7 DEF IsWawDep
  <2>2. WawDep(g, WasDef(t, c, e), WasDef(t, c, f), i, j, x)
    BY <1>3, <1>4, <1>5, <2>1 DEF WawDep
  <2> QED BY <1>4, <2>2 DEF IsWawDep
<1>8. ASSUME IsWawDep(g, x) PROVE IsWawDep(g', x)
  <2>1. PICK e \in Def, f \in Def, i \in Inst, j \in Inst : WawDep(g, e, f, i, j, x)
    BY <1>8 DEF IsWawDep
  <2>2. PICK a \in Def : WasDef(t, c, a) = e /\ i \in g'.dom[a]
    BY <1>6, <2>1 DEF WawDep
  <2>3. PICK b \in Def : WasDef(t, c, b) = f /\ j \in g'.dom[b]
    BY <1>6, <2>1 DEF WawDep
  <2>4. WawDep(g', a, b, i, j, x)
    BY <1>3, <1>4, <1>5, <2>1, <2>2, <2>3 DEF WawDep
  <2> QED BY <2>4 DEF IsWawDep
<1> QED BY <1>7, <1>8

LEMMA SplitSame ==
    ASSUME DInv, NEW t \in Def, Split(t)
    PROVE  Dependences(g', stands') = Dependences(g, stands)
<1>1. g \in Graph /\ Tied(g) /\ OpsAre(g)
  BY SplitSteps
<1>2. PICK c, keep, twin : IsSplitStep(t, c, keep, twin)
  BY SplitSteps
<1>3. g' \in Graph
  BY <1>2, SplitNodes DEF IsSplitStep, SplitGraph
<1> DEFINE D == Dependences(g, stands)
           E == Dependences(g', stands')
<1>4. /\ \A x : x \in D.raw <=> IsRawDep(g, stands, x)
      /\ \A x : x \in D.war <=> IsWarDep(g, stands, x)
      /\ \A x : x \in D.waw <=> IsWawDep(g, x)
  BY <1>1, DependenceMembers
<1>5. /\ \A x : x \in E.raw <=> IsRawDep(g', stands', x)
      /\ \A x : x \in E.war <=> IsWarDep(g', stands', x)
      /\ \A x : x \in E.waw <=> IsWawDep(g', x)
  BY <1>3, DependenceMembers
<1>6. D = [raw |-> D.raw, war |-> D.war, waw |-> D.waw] /\ E = [raw |-> E.raw, war |-> E.war, waw |-> E.waw]
  BY DEF Dependences
<1> HIDE DEF D, E
<1>7. D.raw = E.raw
  BY <1>1, <1>2, <1>4, <1>5, SplitRawDeps
<1>8. D.war = E.war
  BY <1>1, <1>2, <1>4, <1>5, SplitWarDeps
<1>9. D.waw = E.waw
  BY <1>1, <1>2, <1>4, <1>5, SplitWawDeps
<1>10. D = E
  BY <1>6, <1>7, <1>8, <1>9
<1> QED BY <1>10 DEF D, E

(***************************************************************************)
(* Whatever has been propagated before, a split neither adds nor loses a   *)
(* dependence (splitEdge, the copy constructor of DefNode).                *)
(***************************************************************************)
THEOREM SplitCorrect == RunSpec => SplitKeepsDependences
<1>1. DInv /\ [RunNext]_runVars => (made' # made => Dependences(g', stands') = Dependences(g, stands))
  <2> SUFFICES ASSUME DInv, [RunNext]_runVars, made' # made
               PROVE  Dependences(g', stands') = Dependences(g, stands)
    OBVIOUS
  <2>1. PICK t \in Def : Split(t)
    BY DEF RunNext, runVars, RestrictNode, RestrictOnce, EndLoop, PropagateEdges, Skip, Ask, CutTarget,
           GiveUp, StartSplits, StartPropagation, PickSource, PropagateEdge, ReloadOperand,
           FinishEdge, Abort, FinishSource, FinishGroup, EndWorklist, Finished
  <2> QED BY <2>1, SplitSame
<1> QED BY <1>1, RunInvariance, PTL DEF RunSpec, SplitKeepsDependences

-----------------------------------------------------------------------------
(***************************************************************************)
(* The other half of what restrictStmt may not delete: of an array that is *)
(* live after the Scop, the last write to each cell.  A statement is       *)
(* believed to overwrite an instance if a WAW edge or the cached set says  *)
(* so; and whatever was split, chained, deleted and cached on the way,     *)
(* that instance is overwritten in the program.                            *)
(***************************************************************************)
Over(h, d) == WawDomain(h, d) \cup (IF h.over[d] = Miss THEN {} ELSE h.over[d])

Overridden(s, d) == {i \in Inst : \E e \in Def : i \in EdgeDomain(WAW(s)[<<d, e>>])}

OverReal == \A d \in Def : Over(g, d) \subseteq Overridden(scop, Orig[d])

LastKept == \A d \in Def : LiveOut(d) => \A i \in scop.dom[d] : i \in Overridden(scop, d) \/ Exists(<<d, i>>)

KInv == OverReal /\ LastKept

(* A cached overwritten set has all instances that a WAW edge leaves from. *)
OverHolds(h, d) == h.over[d] # Miss => WawDomain(h, d) \cap h.dom[d] \subseteq h.over[d]

(* What a step does to the writes: it deletes, of a live array, only what it takes for overwritten. *)
WritesStep(h, r) ==
    \A d \in Def : /\ Over(r, d) \subseteq Over(h, d) /\ WawDomain(r, d) \subseteq WawDomain(h, d)
                   /\ LiveOut(d) => h.dom[d] \subseteq r.dom[d] \cup Over(h, d)
                   /\ OverHolds(h, d) => OverHolds(r, d)

WritesUntouched(h, r) == r.dom = h.dom /\ r.waw = h.waw /\ r.over = h.over

-----------------------------------------------------------------------------
LEMMA Untouched == ASSUME NEW h, NEW r, WritesUntouched(h, r) PROVE WritesStep(h, r)
BY DEF WritesUntouched, WritesStep, Over, OverHolds, WawDomain

(* A copy writes the array its statement writes. *)
LEMMA CopyLiveOut ==
    ASSUME scop \in Scops, NEW d \in Def, NEW e \in Def, Orig[e] = Orig[d] \/ Orig[e] = d
    PROVE  LiveOut(e) <=> LiveOut(d)
<1>1. Orig[e] \in Def /\ Orig[d] \in Def /\ Orig[Orig[e]] = Orig[e]
  BY OrigAssumption
<1>2. scop.array[e] = scop.array[Orig[e]] /\ scop.array[d] = scop.array[Orig[d]]
  BY CopiesAssumption
<1> QED BY <1>1, <1>2 DEF LiveOut

LEMMA InitWrites == RunInit => KInv
<1> SUFFICES ASSUME RunInit PROVE KInv
  OBVIOUS
<1>1. /\ scop \in Scops /\ g \in Graph /\ g.dom = scop.dom /\ g.waw = WAW(scop)
      /\ made = {d \in Def : Orig[d] = d}
      /\ \A d \in Def : Orig[d] # d => scop.dom[d] = {}
      /\ \A d \in Def : g.over[d] = WawDomain(g, d)
  BY ScopsAssumption, CopiesAssumption, CreateFacts DEF RunInit, Init
<1>2. OverReal
  <2> SUFFICES ASSUME NEW d \in Def, NEW i \in Over(g, d) PROVE i \in Overridden(scop, Orig[d])
    BY DEF OverReal
  <2>1. PICK e \in Def, j \in Inst : i \in Inst /\ <<i, j>> \in WAW(scop)[<<d, e>>]
    BY <1>1 DEF Over, WawDomain
  <2>2. <<i, j>> \in Flow(scop, d, d, e, e)
    BY <2>1 DEF WAW
  <2>3. i \in scop.dom[d]
    BY <2>2 DEF Flow
  <2>4. Orig[d] = d
    BY <1>1, <2>3
  <2>5. i \in EdgeDomain(WAW(scop)[<<d, e>>])
    <3>1. <<i, j>>[1] = i
      OBVIOUS
    <3> QED BY <2>1, <3>1 DEF EdgeDomain
  <2> QED BY <2>1, <2>4, <2>5 DEF Overridden
<1>3. LastKept
  BY <1>1 DEF LastKept, Exists
<1> QED BY <1>2, <1>3 DEF KInv

-----------------------------------------------------------------------------
LEMMA OverGrow ==
    ASSUME NEW h, NEW r, OverStep(h, r), NEW d \in Def, WawDomain(r, d) \subseteq WawDomain(h, d)
    PROVE  Over(r, d) \subseteq Over(h, d)
BY DEF OverStep, Over

LEMMA OverFilled ==
    ASSUME NEW h, NEW r, r.waw = h.waw, NEW d \in Def, r.over[d] # Miss => r.over[d] \subseteq Over(h, d)
    PROVE  Over(r, d) \subseteq Over(h, d)
BY DEF Over, WawDomain

LEMMA OverMembers ==
    ASSUME NEW h, NEW d
    PROVE  /\ h.over[d] # Miss => h.over[d] \subseteq Over(h, d)
           /\ WawDomain(h, d) \subseteq Over(h, d)
           /\ OverwrittenSet(h, d) \subseteq Over(h, d)
BY DEF Over, OverwrittenSet

LEMMA CheckBarrierWrites == ASSUME EInv, NEW d \in Def, CheckBarrier(d) PROVE WritesStep(g, g')
<1> DEFINE asked == FillBarrier(g, d)
<1>1. g \in Graph
  BY DEF EInv, GInv, IInv, TypeOK
<1>2. asked \in Graph /\ asked.dom = g.dom /\ asked.waw = g.waw /\ asked.over = g.over
  BY <1>1, FillBarrierFacts DEF SameNodes
<1>3. g' = asked \/ g' = FillOver(asked, d)
  BY DEF CheckBarrier
<1> HIDE DEF asked
<1>4. /\ g'.dom = g.dom /\ g'.waw = g.waw
      /\ \A e \in Def : g'.over[e] = g.over[e] \/ g'.over[e] = WawDomain(g', e)
  BY <1>2, <1>3, FillOverFacts DEF SameNodes
<1>5. \A e \in Def : WawDomain(g', e) = WawDomain(g, e)
  BY <1>4 DEF WawDomain
<1>6. ASSUME NEW e \in Def PROVE Over(g', e) \subseteq Over(g, e)
  BY <1>4, <1>5, OverFilled, OverMembers
<1>7. ASSUME NEW e \in Def PROVE OverHolds(g, e) => OverHolds(g', e)
  BY <1>4, <1>5 DEF OverHolds
<1> QED BY <1>4, <1>5, <1>6, <1>7 DEF WritesStep

LEMMA RestrictStmtWrites == ASSUME EInv, NEW d \in Def, RestrictStmt(d) PROVE WritesStep(g, g')
<1> DEFINE used  == FillUsed(g, d)
           asked == IF LiveOut(d) THEN FillOver(used, d) ELSE used
           D     == NeededDomain(d)
           next  == KeepInstances(asked, d, D)
<1>1. g \in Graph
  BY DEF EInv, GInv, IInv, TypeOK
<1>2. used \in Graph /\ used.dom = g.dom /\ used.waw = g.waw /\ used.over = g.over
  BY <1>1, FillUsedFacts DEF SameNodes
<1>3. g' = asked \/ g' = next
  BY DEF RestrictStmt
<1> HIDE DEF used
<1>4. /\ asked \in Graph /\ asked.dom = g.dom /\ asked.waw = g.waw
      /\ \A e \in Def : asked.over[e] = g.over[e] \/ asked.over[e] = WawDomain(g, e)
  <2>1. CASE LiveOut(d)
    <3>1. /\ asked \in Graph /\ asked.dom = used.dom /\ asked.waw = used.waw
          /\ \A e \in Def : asked.over[e] = used.over[e] \/ asked.over[e] = WawDomain(asked, e)
      BY <1>2, <2>1, FillOverFacts DEF SameNodes
    <3>2. \A e \in Def : WawDomain(asked, e) = WawDomain(g, e)
      BY <1>2, <3>1 DEF WawDomain
    <3> QED BY <1>2, <3>1, <3>2
  <2>2. CASE ~ LiveOut(d)
    BY <1>2, <2>2
  <2> QED BY <2>1, <2>2
<1>5. LiveOut(d) => g.dom[d] \subseteq D \cup Over(g, d)
  BY OverMembers DEF NeededDomain
<1>10. ReadsStep(g, g')
  BY StepEdges DEF Next
<1> HIDE DEF asked, D
<1>6. /\ next.waw = asked.waw
      /\ \A e \in Def : next.dom[e] = IF e = d THEN D ELSE asked.dom[e]
      /\ \A e \in Def : next.over[e] = IF e = d /\ asked.over[d] # Miss THEN asked.over[d] \cap D
                                       ELSE asked.over[e]
  BY <1>4 DEF KeepInstances, Graph
<1> HIDE DEF next
<1>7. ASSUME NEW e \in Def PROVE asked.over[e] # Miss => asked.over[e] \subseteq Over(g, e)
  BY <1>4, OverMembers
<1>8. CASE g' = asked
  <2>1. \A e \in Def : WawDomain(g', e) = WawDomain(g, e)
    BY <1>4, <1>8 DEF WawDomain
  <2>2. \A e \in Def : OverHolds(g, e) => OverHolds(g', e)
    BY <1>4, <1>8, <2>1 DEF OverHolds
  <2> QED BY <1>4, <1>7, <1>8, <2>1, <2>2, OverFilled DEF WritesStep
<1>9. CASE g' = next
  <2>1. g'.waw = g.waw
    BY <1>4, <1>6, <1>9
  <2>2. ASSUME NEW e \in Def PROVE Over(g', e) \subseteq Over(g, e)
    <3>1. g'.over[e] # Miss => g'.over[e] \subseteq Over(g, e)
      BY <1>6, <1>7, <1>9
    <3> QED BY <2>1, <3>1, OverFilled
  <2>3. \A e \in Def : LiveOut(e) => g.dom[e] \subseteq g'.dom[e] \cup Over(g, e)
    BY <1>4, <1>5, <1>6, <1>9
  <2>4. \A e \in Def : WawDomain(g', e) = WawDomain(g, e) /\ g'.dom[e] \subseteq g.dom[e]
    BY <1>10, <2>1 DEF WawDomain, ReadsStep
  <2>5. ASSUME NEW e \in Def, OverHolds(g, e) PROVE OverHolds(g', e)
    <3>1. asked.over[e] # Miss => WawDomain(g, e) \cap g.dom[e] \subseteq asked.over[e]
      BY <1>4, <2>5 DEF OverHolds
    <3> QED BY <1>6, <1>9, <2>4, <3>1 DEF OverHolds
  <2> QED BY <2>2, <2>3, <2>4, <2>5 DEF WritesStep
<1> QED BY <1>3, <1>8, <1>9

(* A visit chains the overwrites of an instance; it does not make it one that is overwritten. *)
LEMMA VisitWrites ==
    ASSUME EInv, op.phase \in 1..5, NEW k \in op.todo,
           NEW r, r = Shrink(g, op.def, Phases[op.phase], k)
    PROVE  WritesStep(g, r)
<1> DEFINE D == g.dom[op.def]
<1>1. g \in Graph /\ k \in KeysOf(g, op.def, op.phase) /\ op.def \in Def /\ IInv
  BY DEF EInv, GInv, IInv, TypeOK, TodoOK
<1>2. r.dom = g.dom /\ (op.phase # 3 => r.waw = g.waw)
  BY VisitFacts
<1>3. OverStep(g, r)
  <2>1. CASE op.phase \in {1, 2}
    BY <1>1, <2>1, VisitWar DEF VisitOK
  <2>2. CASE op.phase = 3
    BY <1>1, <2>2, VisitWaw DEF VisitOK
  <2>3. CASE op.phase \in {4, 5}
    BY <1>1, <2>3, VisitRaw DEF VisitOK
  <2> QED BY <2>1, <2>2, <2>3
<1> HIDE DEF D
<1>4. ASSUME NEW d \in Def PROVE WawDomain(r, d) \subseteq WawDomain(g, d)
  <2>1. CASE op.phase # 3
    BY <1>2, <2>1 DEF WawDomain
  <2>2. CASE op.phase = 3
    <3> DEFINE out == IF k[1] = op.def THEN ShrinkWawDomain(g, k, D) ELSE g
    <3>1. k \in Def \X Def /\ r = IF k[2] = op.def THEN ShrinkWawRange(out, k, D) ELSE out
      BY <1>1, <2>2 DEF Shrink, ShrinkWaw, Phases, KeysOf, D
    <3>2. k = <<k[1], k[2]>> /\ k[1] \in Def /\ k[2] \in Def
      BY <3>1, PairFacts
    <3>3. out \in Graph
      BY <1>1, <3>1, ShrinkWawDomainFacts
    <3>4. ASSUME NEW c \in Def, NEW e \in Def, NEW i \in Inst, NEW j \in Inst, <<i, j>> \in out.waw[<<c, e>>]
          PROVE  i \in WawDomain(g, c)
      <4>1. CASE k[1] = op.def
        <5>1. out = ShrinkWawDomain(g, k, D)
          BY <4>1
        <5>2. \/ <<i, j>> \in g.waw[<<c, e>>]
              \/ e = k[2] /\ \E l \in Inst : <<i, l>> \in g.waw[<<c, k[1]>>] /\ <<l, j>> \in g.waw[k]
          <6> HIDE DEF out
          <6> QED BY <1>1, <3>1, <3>4, <5>1, ShrinkWawDomainSound
        <5> QED BY <3>2, <5>2 DEF WawDomain
      <4>2. CASE k[1] # op.def
        BY <3>4, <4>2 DEF WawDomain
      <4> QED BY <4>1, <4>2
    <3> HIDE DEF out
    <3> SUFFICES ASSUME NEW e \in Def, NEW i \in Inst, NEW j \in Inst, <<i, j>> \in r.waw[<<d, e>>]
                 PROVE  i \in WawDomain(g, d)
      BY DEF WawDomain
    <3>5. CASE k[2] = op.def
      <4>1. \/ <<i, j>> \in out.waw[<<d, e>>]
            \/ d = k[1] /\ \E l \in Inst : <<i, l>> \in out.waw[k] /\ <<l, j>> \in out.waw[<<k[2], e>>]
        BY <3>1, <3>3, <3>5, ShrinkWawRangeSound
      <4> QED BY <3>2, <3>4, <4>1
    <3>6. CASE k[2] # op.def
      BY <3>1, <3>4, <3>6
    <3> QED BY <3>5, <3>6
  <2> QED BY <2>1, <2>2
<1>5. ASSUME NEW d \in Def, OverHolds(g, d) PROVE OverHolds(r, d)
  <2>1. r.over[d] = Miss \/ r.over[d] = g.over[d]
    BY <1>3 DEF OverStep
  <2> QED BY <1>2, <1>4, <1>5, <2>1 DEF OverHolds
<1> QED BY <1>2, <1>3, <1>4, <1>5, OverGrow DEF WritesStep

LEMMA StepWrites == ASSUME EInv, [Next]_vars PROVE WritesStep(g, g')
<1>1. CASE \E d \in Def : CheckBarrier(d)
  BY <1>1, CheckBarrierWrites
<1>2. CASE \E d \in Def : RestrictStmt(d)
  BY <1>2, RestrictStmtWrites
<1>3. CASE VisitEdge
  <2>1. PICK k \in op.todo : g' = Shrink(g, op.def, Phases[op.phase], k)
    BY <1>3 DEF VisitEdge
  <2>2. op.phase \in 1..5
    <3>1. op.phase \in 0..5 /\ op.phase # 0
      BY <2>1 DEF EInv, GInv, IInv, TypeOK, TodoOK
    <3> QED BY <3>1
  <2> QED BY <2>1, <2>2, VisitWrites
<1>4. CASE NextPhase \/ UNCHANGED vars
  BY <1>4, Untouched DEF NextPhase, vars, WritesUntouched
<1> QED BY <1>1, <1>2, <1>3, <1>4 DEF Next

LEMMA AskWrites == ASSUME g \in Graph, NEW K, Ask(K) PROVE WritesStep(g, g')
<1> DEFINE D == {k[1] : k \in K}
           barrier == [d \in Def |-> IF d \in D THEN FillBarrier(g, d).barrier[d] ELSE g.barrier[d]]
           over    == [d \in Def |-> IF d \in D /\ SelfBarred(g, d) THEN OverwrittenSet(g, d)
                                     ELSE g.over[d]]
<1>1. g' = [g EXCEPT !.barrier = barrier, !.over = over]
  BY DEF Ask, AskBarriers
<1>2. \A d \in Def : over[d] = OverwrittenSet(g, d) \/ over[d] = g.over[d]
  OBVIOUS
<1> HIDE DEF barrier, over
<1>3. g'.dom = g.dom /\ g'.waw = g.waw /\ g'.over = over
  BY <1>1 DEF Graph
<1>4. ASSUME NEW d \in Def PROVE Over(g', d) \subseteq Over(g, d)
  BY <1>2, <1>3, OverFilled, OverMembers
<1>5. \A d \in Def : WawDomain(g', d) = WawDomain(g, d)
  BY <1>3 DEF WawDomain
<1>6. ASSUME NEW d \in Def, OverHolds(g, d) PROVE OverHolds(g', d)
  BY <1>2, <1>3, <1>5, <1>6 DEF OverHolds, OverwrittenSet
<1> QED BY <1>3, <1>4, <1>5, <1>6 DEF WritesStep

-----------------------------------------------------------------------------
(* A part of a statement is overwritten where the statement was. *)
LEMMA SplitOver ==
    ASSUME NEW h, NEW d, NEW c, NEW keep, NEW twin, IsSplit(h, d, c, keep, twin),
           NEW r, r = KeepInstances(SplitDef(h, d, c, keep, twin), d, keep), NEW e \in Def
    PROVE  /\ Over(r, e) \subseteq Over(h, WasDef(d, c, e))
           /\ WawDomain(r, e) \subseteq WawDomain(h, WasDef(d, c, e))
           /\ OverHolds(h, e) => OverHolds(r, e)
<1> DEFINE s == SplitDef(h, d, c, keep, twin)
<1>1. h \in Graph /\ d \in Def /\ c \in Def /\ c # d
  BY DEF IsSplit
<1>2. s \in Graph /\ \A f \in Def : \A p : p \in s.waw[<<e, f>>] =>
          p \in h.waw[<<WasDef(d, c, e), WasDef(d, c, f)>>]
  BY SplitFacts
<1>3. s.over = [h.over EXCEPT ![c] = Miss]
  BY <1>1 DEF SplitDef, Graph
<1> HIDE DEF s
<1>4. r.waw = s.waw /\ r.over = [s.over EXCEPT ![d] = IF @ = Miss THEN Miss ELSE @ \cap keep]
  BY <1>1, <1>2 DEF KeepInstances, Graph, s
<1>5. \A f \in Def : WasDef(d, c, f) \in Def
  BY <1>1 DEF WasDef
<1>6. WawDomain(r, e) \subseteq WawDomain(h, WasDef(d, c, e))
  BY <1>2, <1>4, <1>5 DEF WawDomain
<1>7. r.over[e] # Miss => r.over[e] \subseteq Over(h, WasDef(d, c, e))
  <2>1. h.over \in [Def -> Cache(Inst)]
    BY <1>1 DEF Graph
  <2>2. r.over[e] # Miss => e # c /\ h.over[e] # Miss /\ r.over[e] \subseteq h.over[e]
    BY <1>1, <1>3, <1>4, <2>1
  <2> QED BY <2>2, OverMembers DEF WasDef
<1>8. ASSUME OverHolds(h, e) PROVE OverHolds(r, e)
  <2>1. h.over \in [Def -> Cache(Inst)] /\ \A f \in Def : r.dom[f] \subseteq IF f = c THEN h.dom[d] ELSE h.dom[f]
    <3>1. SplitGraph(h, d, c, keep, twin, r)
      BY SplitNodes
    <3> QED BY <1>1, <3>1 DEF SplitGraph, Graph, IsSplit
  <2>2. r.over[e] # Miss => e # c /\ h.over[e] # Miss /\ r.over[e] = IF e = d THEN h.over[e] \cap keep ELSE h.over[e]
    BY <1>1, <1>3, <1>4, <2>1
  <2>3. e = d => r.dom[e] = keep
    <3>1. SplitGraph(h, d, c, keep, twin, r)
      BY SplitNodes
    <3> QED BY <1>1, <3>1 DEF SplitGraph
  <2> QED BY <1>6, <1>8, <2>1, <2>2, <2>3 DEF OverHolds, WasDef
<1> QED BY <1>6, <1>7, <1>8 DEF Over

LEMMA SplitWrites == ASSUME DInv, KInv, NEW t \in Def, Split(t) PROVE KInv'
<1>1. PICK c, keep, twin : IsSplitStep(t, c, keep, twin)
  BY SplitSteps
<1>2. /\ t \in made /\ c \in Def \ made /\ made \subseteq Def /\ c # t
      /\ Orig[c] = Orig[t] /\ g.dom[c] = {} /\ IsSplit(g, t, c, keep, twin)
      /\ g' = KeepInstances(SplitDef(g, t, c, keep, twin), t, keep)
      /\ made' = made \cup {c} /\ scop' = scop
  BY <1>1 DEF IsSplitStep
<1>3. \A e \in Def : g'.dom[e] = IF e = t THEN keep ELSE IF e = c THEN g.dom[t] \ keep ELSE g.dom[e]
  <2>1. SplitGraph(g, t, c, keep, twin, g')
    BY <1>2, SplitNodes
  <2> QED BY <2>1 DEF SplitGraph
<1>4. OverReal'
  <2>1. ASSUME NEW e \in Def PROVE Over(g', e) \subseteq Overridden(scop, Orig[e])
    <3>1. Over(g', e) \subseteq Over(g, WasDef(t, c, e))
      BY <1>2, SplitOver
    <3>2. WasDef(t, c, e) \in Def /\ Orig[WasDef(t, c, e)] = Orig[e]
      BY <1>2 DEF WasDef
    <3> QED BY <3>1, <3>2 DEF KInv, OverReal
  <2> QED BY <1>2, <2>1 DEF OverReal
<1>5. LastKept'
  <2> SUFFICES ASSUME NEW d \in Def, LiveOut(d), NEW i \in scop.dom[d], i \notin Overridden(scop, d)
               PROVE  \E e \in made \cup {c} : Orig[e] = d /\ i \in g'.dom[e]
    BY <1>2 DEF LastKept, LiveOut, Exists
  <2>1. PICK e \in made : Orig[e] = d /\ i \in g.dom[e]
    BY DEF KInv, LastKept, Exists
  <2>2. CASE e = t
    BY <1>2, <1>3, <2>1, <2>2
  <2>3. CASE e # t
    BY <1>2, <1>3, <2>1, <2>3
  <2> QED BY <2>2, <2>3
<1> QED BY <1>4, <1>5 DEF KInv

-----------------------------------------------------------------------------
(* A write that is gone was taken for overwritten, so it is. *)
LEMMA WritesInherited ==
    ASSUME KInv, scop \in Scops, made \subseteq Def, WritesStep(g, g'), scop' = scop, made' = made
    PROVE  KInv'
<1>1. OverReal'
  <2>1. \A d \in Def : Over(g', d) \subseteq Overridden(scop, Orig[d])
    BY DEF KInv, OverReal, WritesStep
  <2> QED BY <2>1 DEF OverReal
<1>2. LastKept'
  <2> SUFFICES ASSUME NEW d \in Def, LiveOut(d), NEW i \in scop.dom[d], i \notin Overridden(scop, d)
               PROVE  \E e \in made : Orig[e] = d /\ i \in g'.dom[e]
    BY DEF LastKept, LiveOut, Exists
  <2>1. PICK e \in made : Orig[e] = d /\ i \in g.dom[e]
    BY DEF KInv, LastKept, Exists
  <2>2. LiveOut(e)
    BY <2>1, CopyLiveOut
  <2>3. i \notin Over(g, e)
    BY <2>1 DEF KInv, OverReal
  <2> QED BY <2>1, <2>2, <2>3 DEF WritesStep
<1> QED BY <1>1, <1>2 DEF KInv

(* An operand that is reloaded adds dependences of reads only. *)
LEMMA ReloadWrites ==
    ASSUME NEW h \in Graph, NEW o \in Use, NEW n \in Use, NEW R, NEW t \in Def,
           NEW r, r = AddReload(h, o, n, R, t)
    PROVE  WritesUntouched(h, r)
<1> DEFINE back == {<<p[2], p[1]>> : p \in R}
           node == [h EXCEPT !.def[n] = t]
           newR == [e \in Def \X Use |-> IF e[2] = n THEN Compose(h.raw[<<e[1], o>>], R) ELSE {}]
           past == GrowRaw(node, newR)
           newW == [e \in Use \X Def |-> IF e[1] = n THEN Compose(back, h.war[<<o, e[2]>>]) ELSE {}]
           next == GrowWar(past, newW)
<1>1. r = [next EXCEPT !.ops[t] = @ \cup {n}]
  BY DEF AddReload
<1>2. node \in Graph /\ node.dom = h.dom /\ node.waw = h.waw /\ node.over = h.over
  BY DEF Graph
<1>3. newR \in [Def \X Use -> Map] /\ newW \in [Use \X Def -> Map]
  BY ComposeType DEF Map
<1> HIDE DEF node, newR, newW
<1>4. past \in Graph /\ past.dom = h.dom /\ past.waw = h.waw /\ past.over = h.over
  BY <1>2, <1>3, GrowRawFacts DEF SameNodes
<1> HIDE DEF past
<1>5. next \in Graph /\ next.dom = h.dom /\ next.waw = h.waw /\ next.over = h.over
  BY <1>3, <1>4, GrowWarFacts DEF SameNodes
<1> HIDE DEF next
<1> QED BY <1>1, <1>5 DEF Graph, WritesUntouched

LEMMA RunWrites == DInv /\ KInv /\ [RunNext]_runVars => KInv'
<1> SUFFICES ASSUME DInv, KInv, [RunNext]_runVars PROVE KInv'
  OBVIOUS
<1>1. g \in Graph /\ scop \in Scops /\ made \subseteq Def
  BY DEF DInv, NodesOK, GInv, IInv, TypeOK
<1>2. ASSUME [Next]_vars, run.stage # "reload", made' = made PROVE KInv'
  <2>1. EInv
    BY <1>2 DEF DInv, OperandsOK, EInv
  <2>2. scop' = scop
    BY <1>2 DEF Next, vars, CheckBarrier, RestrictStmt, VisitEdge, NextPhase
  <2> QED BY <1>1, <1>2, <2>1, <2>2, StepWrites, WritesInherited
<1>3. ASSUME WritesUntouched(g, g'), scop' = scop, made' = made PROVE KInv'
  BY <1>1, <1>3, Untouched, WritesInherited
<1>4. CASE \E d \in Def : RestrictNode(d)
  BY <1>2, <1>4 DEF RestrictNode, RestrictOnce, Next
<1>5. CASE FinishSource
  <2>1. run.src \in Def
    BY <1>5 DEF DInv, RunOK, RunRecord, FinishSource
  <2> QED BY <1>2, <1>5, <2>1 DEF FinishSource, RestrictOnce, Next
<1>6. CASE (VisitEdge \/ NextPhase) /\ UNCHANGED <<run, made, stands>>
  <2>1. run.stage # "reload"
    BY <1>6 DEF DInv, OperandsOK, Detached, Idle, VisitEdge, NextPhase
  <2> QED BY <1>2, <1>6, <2>1 DEF Next
<1>7. CASE \E a \in Array : PropagateEdges(a)
  <2>1. PICK a \in Array : PropagateEdges(a)
    BY <1>7
  <2>2. CASE Skip(a)
    BY <1>3, <2>2 DEF Skip, WritesUntouched
  <2>3. CASE \E K : Ask(K)
    BY <1>1, <2>3, AskWrites, WritesInherited DEF Ask
  <2> QED BY <2>1, <2>2, <2>3 DEF PropagateEdges
<1>8. CASE \E t \in Def : Split(t)
  BY <1>8, SplitWrites
<1>9. CASE \E k \in Def \X Use : PropagateEdge(k)
  <2>1. PICK k \in Def \X Use : g' = RemoveOperand(g, k[2])
    BY <1>9 DEF PropagateEdge
  <2>2. WritesUntouched(g, g')
    BY <1>1, <2>1 DEF RemoveOperand, Graph, WritesUntouched
  <2> QED BY <1>3, <1>9, <2>2 DEF PropagateEdge
<1>10. CASE \E o \in Use : ReloadOperand(o)
  <2>1. PICK o \in Use : ReloadOperand(o)
    BY <1>10
  <2>2. run.edge[2] \in Use /\ g.def[run.edge[2]] \in Def
    BY <2>1, PairFacts DEF ReloadOperand, DInv, OperandsOK, Detached
  <2>3. PICK n, R : /\ n \in {CHOOSE m \in FreshUses : TRUE}
                           \cup {m \in EqualOperands(g.def[run.edge[2]], Needed(R, o)) : Subscripted(o)}
                    /\ g' = AddReload(g, o, n, R, g.def[run.edge[2]])
    BY <2>1 DEF ReloadOperand
  <2>4. n \in Use
    <3>1. FreshUses # {} /\ FreshUses \subseteq Use
      BY <2>1 DEF ReloadOperand, FreshUses
    <3>2. EqualOperands(g.def[run.edge[2]], Needed(R, o)) \subseteq Use
      BY <1>1, <2>2 DEF EqualOperands, Graph
    <3> QED BY <2>3, <3>1, <3>2
  <2>5. WritesUntouched(g, g')
    BY <1>1, <2>2, <2>3, <2>4, ReloadWrites
  <2> QED BY <1>3, <2>1, <2>5 DEF ReloadOperand
<1>11. CASE FinishEdge
  <2>1. WritesUntouched(g, g')
    BY <1>1, <1>11 DEF FinishEdge, ClearPropagated, Graph, WritesUntouched
  <2> QED BY <1>3, <1>11, <2>1 DEF FinishEdge
<1>12. ASSUME UNCHANGED <<scop, g, made>> PROVE KInv'
  BY <1>3, <1>12 DEF WritesUntouched
<1>13. CASE UNCHANGED runVars
  BY <1>12, <1>13 DEF runVars
<1>14. CASE CutTarget \/ GiveUp \/ StartSplits \/ EndLoop \/ StartPropagation \/ Abort
            \/ FinishGroup \/ EndWorklist \/ Finished \/ \E d \in Def : PickSource(d)
  BY <1>12, <1>14
     DEF CutTarget, GiveUp, StartSplits, EndLoop, StartPropagation, Abort, FinishGroup, EndWorklist,
         Finished, PickSource, runVars
<1> QED BY <1>4, <1>5, <1>6, <1>7, <1>8, <1>9, <1>10, <1>11, <1>13, <1>14 DEF RunNext

(***************************************************************************)
(* The last write to a cell that is live after the Scop is there as long   *)
(* as there is a graph (getOverwrittenSet), whatever was split, propagated *)
(* and deleted in the meantime.                                            *)
(***************************************************************************)
THEOREM LastCorrect == RunSpec => []LastWritesKept
<1>1. RunSpec => []KInv
  <2>1. RunInit => KInv
    BY InitWrites
  <2>2. DInv /\ KInv /\ [RunNext]_runVars => KInv'
    BY RunWrites
  <2> QED BY <2>1, <2>2, RunInvariance, PTL DEF RunSpec
<1>2. KInv => LastWritesKept
  BY DEF KInv, LastKept, LastWritesKept, Overridden
<1> QED BY <1>1, <1>2, PTL

-----------------------------------------------------------------------------
(***************************************************************************)
(* The barriers.  The barriers of a group are first asked for when the     *)
(* group is considered, after which nobody asks for them again; no other   *)
(* step fills one, so there is none that could have missed anything.       *)
(***************************************************************************)
BarriersUnasked == \A d \in Def : scop.array[d] \in run.groups => g.barrier[d] = Miss

FillsNoBarrier(h, r) == \A d \in Def : h.barrier[d] = Miss => r.barrier[d] = Miss

LEMMA GrowFills ==
    ASSUME NEW h \in Graph, NEW new
    PROVE  /\ GrowRaw(h, new).barrier = h.barrier
           /\ GrowWaw(h, new).barrier = h.barrier
           /\ FillsNoBarrier(h, GrowWar(h, new))
BY DEF GrowRaw, GrowWaw, GrowWar, FillsNoBarrier, Graph

LEMMA WarShrinkFills ==
    ASSUME NEW h \in Graph, NEW k \in Use \X Def, NEW D
    PROVE  FillsNoBarrier(h, ShrinkWarRange(h, k, D)) /\ FillsNoBarrier(h, ShrinkWarDomain(h, k, D))
BY DEF ShrinkWarRange, ShrinkWarDomain, FillsNoBarrier, Graph

LEMMA RawShrinkFills ==
    ASSUME NEW h \in Graph, NEW k \in Def \X Use, NEW D
    PROVE  FillsNoBarrier(h, ShrinkRawDomain(h, k, D)) /\ FillsNoBarrier(h, ShrinkRawRange(h, k, D))
<1> DEFINE lost == LostDomain(h.raw[k], D)
           cut  == [h EXCEPT !.raw[k] = @ \ lost]
           gone == LostRange(h.raw[k], D)
           cutR == [h EXCEPT !.raw[k] = @ \ gone]
           new  == [e \in Def \X Use |-> IF e[2] = k[2] THEN Compose(cut.waw[e[1], k[1]], lost) ELSE {}]
           newR == [e \in Def \X Def |-> IF e[1] = k[1] THEN Compose(gone, cutR.war[k[2], e[2]]) ELSE {}]
<1>1. cut \in Graph /\ cut.barrier = h.barrier /\ cutR \in Graph /\ cutR.barrier = h.barrier
  BY DEF Graph, Map
<1>2. new \in [Def \X Use -> Map] /\ newR \in [Def \X Def -> Map]
  BY ComposeType DEF Map
<1> HIDE DEF new, newR, cut, cutR
<1>3. GrowRaw(cut, new).barrier = h.barrier /\ GrowWaw(cutR, newR).barrier = h.barrier
      /\ GrowRaw(cut, new) \in Graph /\ GrowWaw(cutR, newR) \in Graph
  BY <1>1, <1>2, GrowFills, GrowRawFacts, GrowWawFacts
<1>4. ShrinkRawDomain(h, k, D).barrier = h.barrier
  BY <1>3 DEF ShrinkRawDomain, Graph, cut, new
<1>5. ShrinkRawRange(h, k, D).barrier = h.barrier
  BY <1>3 DEF ShrinkRawRange, Graph, cutR, newR
<1> QED BY <1>4, <1>5 DEF FillsNoBarrier

LEMMA WawShrinkFills ==
    ASSUME NEW h \in Graph, NEW k \in Def \X Def, NEW D
    PROVE  FillsNoBarrier(h, ShrinkWawDomain(h, k, D)) /\ FillsNoBarrier(h, ShrinkWawRange(h, k, D))
<1> DEFINE lost == LostDomain(h.waw[k], D)
           cut  == [h EXCEPT !.waw[k] = @ \ lost]
           newW == [e \in Def \X Def |-> IF e[2] = k[2] THEN Compose(cut.waw[e[1], k[1]], lost) ELSE {}]
           past == GrowWaw(cut, newW)
           newR == [e \in Use \X Def |-> IF e[2] = k[2] THEN Compose(past.war[e[1], k[1]], lost) ELSE {}]
           gone == LostRange(h.waw[k], D)
           cutR == [h EXCEPT !.waw[k] = @ \ gone]
           newN == [e \in Def \X Def |-> IF e[1] = k[1] THEN Compose(gone, cutR.waw[k[2], e[2]]) ELSE {}]
<1>1. cut \in Graph /\ cut.barrier = h.barrier /\ cutR \in Graph /\ cutR.barrier = h.barrier
  BY DEF Graph, Map
<1>2. newW \in [Def \X Def -> Map] /\ newN \in [Def \X Def -> Map]
  BY ComposeType DEF Map
<1>3. newR \in [Use \X Def -> Map]
  BY ComposeType DEF Map
<1> HIDE DEF newW, newN, newR, cut, cutR
<1>4. past.barrier = h.barrier /\ GrowWaw(cutR, newN).barrier = h.barrier
      /\ past \in Graph /\ GrowWaw(cutR, newN) \in Graph
  BY <1>1, <1>2, GrowFills, GrowWawFacts
<1> DEFINE ante == GrowWar(past, newR)
<1>5. FillsNoBarrier(h, ante) /\ ante \in Graph
  <2> HIDE DEF past
  <2>1. FillsNoBarrier(past, ante)
    BY <1>4, GrowFills
  <2>2. ante \in Graph
    BY <1>3, <1>4, GrowWarFacts
  <2> QED BY <1>4, <2>1, <2>2 DEF FillsNoBarrier
<1>6. ShrinkWawDomain(h, k, D) = IF lost = {} THEN h ELSE [ante EXCEPT !.over[k[1]] = Miss]
  BY DEF ShrinkWawDomain, newW, newR, cut
<1>7. ShrinkWawRange(h, k, D) = IF gone = {} THEN h ELSE [GrowWaw(cutR, newN) EXCEPT !.over[k[1]] = Miss]
  BY DEF ShrinkWawRange, newN, cutR
<1> HIDE DEF ante
<1>8. FillsNoBarrier(h, ShrinkWawDomain(h, k, D))
  BY <1>5, <1>6 DEF FillsNoBarrier, Graph
<1>9. FillsNoBarrier(h, ShrinkWawRange(h, k, D))
  BY <1>4, <1>7 DEF FillsNoBarrier, Graph
<1> QED BY <1>8, <1>9

LEMMA VisitFills ==
    ASSUME EInv, op.phase \in 1..5, NEW k \in op.todo
    PROVE  FillsNoBarrier(g, Shrink(g, op.def, Phases[op.phase], k))
<1>1. g \in Graph /\ k \in KeysOf(g, op.def, op.phase) /\ op.def \in Def
  BY DEF EInv, GInv, IInv, TypeOK, TodoOK
<1> DEFINE D == g.dom[op.def]
<1>2. CASE op.phase = 1
  BY <1>1, <1>2, WarShrinkFills DEF Shrink, Phases, KeysOf
<1>3. CASE op.phase = 2
  BY <1>1, <1>3, WarShrinkFills DEF Shrink, Phases, KeysOf
<1>4. CASE op.phase = 3
  <2> DEFINE out == IF k[1] = op.def THEN ShrinkWawDomain(g, k, D) ELSE g
  <2>1. k \in Def \X Def /\ Shrink(g, op.def, Phases[op.phase], k)
                              = IF k[2] = op.def THEN ShrinkWawRange(out, k, D) ELSE out
    BY <1>1, <1>4 DEF Shrink, ShrinkWaw, Phases, KeysOf
  <2>2. out \in Graph
    BY <1>1, <2>1, ShrinkWawDomainFacts
  <2>4. FillsNoBarrier(g, out)
    <3>1. FillsNoBarrier(g, ShrinkWawDomain(g, k, D)) /\ FillsNoBarrier(g, g)
      BY <1>1, <2>1, WawShrinkFills DEF FillsNoBarrier
    <3> QED BY <3>1
  <2> HIDE DEF out, D
  <2>3. FillsNoBarrier(out, ShrinkWawRange(out, k, D))
    BY <2>1, <2>2, WawShrinkFills
  <2> QED BY <2>1, <2>3, <2>4 DEF FillsNoBarrier
<1>5. CASE op.phase = 4
  BY <1>1, <1>5, RawShrinkFills DEF Shrink, Phases, KeysOf
<1>6. CASE op.phase = 5
  BY <1>1, <1>6, RawShrinkFills DEF Shrink, Phases, KeysOf
<1> QED BY <1>2, <1>3, <1>4, <1>5, <1>6

LEMMA RestrictFills == ASSUME g \in Graph, NEW d \in Def, RestrictStmt(d) PROVE g'.barrier = g.barrier
<1> DEFINE asked == IF LiveOut(d) THEN FillOver(FillUsed(g, d), d) ELSE FillUsed(g, d)
<1>1. asked \in Graph /\ asked.barrier = g.barrier
  <2>1. FillUsed(g, d) \in Graph /\ FillUsed(g, d).barrier = g.barrier
    BY FillUsedFacts DEF FillUsed, Graph
  <2>2. FillOver(FillUsed(g, d), d) \in Graph /\ FillOver(FillUsed(g, d), d).barrier = g.barrier
    BY <2>1, FillOverFacts DEF FillOver, Graph
  <2> QED BY <2>1, <2>2
<1>2. g' = asked \/ g' = KeepInstances(asked, d, NeededDomain(d))
  BY DEF RestrictStmt
<1> HIDE DEF asked
<1> QED BY <1>1, <1>2 DEF KeepInstances, Graph

LEMMA ReloadFills ==
    ASSUME NEW h \in Graph, NEW o \in Use, NEW n \in Use, NEW R, NEW t \in Def
    PROVE  FillsNoBarrier(h, AddReload(h, o, n, R, t))
<1> DEFINE back == {<<p[2], p[1]>> : p \in R}
           node == [h EXCEPT !.def[n] = t]
           newR == [e \in Def \X Use |-> IF e[2] = n THEN Compose(h.raw[<<e[1], o>>], R) ELSE {}]
           past == GrowRaw(node, newR)
           newW == [e \in Use \X Def |-> IF e[1] = n THEN Compose(back, h.war[<<o, e[2]>>]) ELSE {}]
           next == GrowWar(past, newW)
<1>1. AddReload(h, o, n, R, t) = [next EXCEPT !.ops[t] = @ \cup {n}]
  BY DEF AddReload
<1>2. node \in Graph /\ node.barrier = h.barrier
  BY DEF Graph
<1>3. newR \in [Def \X Use -> Map] /\ newW \in [Use \X Def -> Map]
  BY ComposeType DEF Map
<1> HIDE DEF node, newR, newW
<1>4. past \in Graph /\ past.barrier = h.barrier
  BY <1>2, <1>3, GrowRawFacts
<1> HIDE DEF past
<1>5. next \in Graph /\ FillsNoBarrier(past, next)
  BY <1>3, <1>4, GrowWarFacts, GrowFills
<1> HIDE DEF next
<1> QED BY <1>1, <1>4, <1>5 DEF Graph, FillsNoBarrier

(* Asking for a recompute domain fills the barriers of the group that is considered. *)
LEMMA AskFills ==
    ASSUME NEW h \in Graph, NEW D, NEW d \in Def, d \notin D
    PROVE  AskBarriers(h, D).barrier[d] = h.barrier[d]
BY DEF AskBarriers, Graph

LEMMA UnaskedKept ==
    ASSUME BarriersUnasked, FillsNoBarrier(g, g'), scop' = scop, run'.groups \subseteq run.groups
    PROVE  BarriersUnasked'
BY DEF BarriersUnasked, FillsNoBarrier

LEMMA PropagateEdgesUnasked ==
    ASSUME DInv, BarriersUnasked, NEW a \in Array, PropagateEdges(a)
    PROVE  BarriersUnasked'
<1>1. g \in Graph /\ run \in RunRecord /\ made \subseteq Def
  BY DEF DInv, GInv, IInv, TypeOK, RunOK, NodesOK
<1>2. CASE Skip(a)
  <2>1. run'.groups \subseteq run.groups
    BY <1>1, <1>2 DEF Skip, RunRecord
  <2> QED BY <1>2, <2>1, UnaskedKept DEF Skip, FillsNoBarrier
<1>3. ASSUME NEW nonTrgs, Ask(PropEdges(a, nonTrgs)), Plan(a, PropEdges(a, nonTrgs), nonTrgs)
      PROVE  BarriersUnasked'
  <2> DEFINE D == {k[1] : k \in PropEdges(a, nonTrgs)}
  <2>1. g' = AskBarriers(g, D) /\ scop' = scop
    BY <1>3 DEF Ask
  <2>2. run'.groups = run.groups \ {a}
    BY <1>1, <1>3 DEF Plan, RunRecord
  <2>3. \A d \in D : scop.array[d] = a
    BY DEF PropEdges, OutEdges, Nodes
  <2> HIDE DEF D
  <2> SUFFICES ASSUME NEW d \in Def, scop.array[d] \in run'.groups PROVE g'.barrier[d] = Miss
    BY <2>1 DEF BarriersUnasked
  <2>4. d \notin D /\ g.barrier[d] = Miss
    BY <2>2, <2>3 DEF BarriersUnasked
  <2> QED BY <1>1, <2>1, <2>4, AskFills
<1> QED BY <1>2, <1>3 DEF PropagateEdges

LEMMA RunUnasked == DInv /\ BarriersUnasked /\ [RunNext]_runVars => BarriersUnasked'
<1> SUFFICES ASSUME DInv, BarriersUnasked, [RunNext]_runVars PROVE BarriersUnasked'
  OBVIOUS
<1>1. g \in Graph /\ run \in RunRecord /\ made \subseteq Def
  BY DEF DInv, GInv, IInv, TypeOK, RunOK, NodesOK
<1>2. ASSUME g'.barrier = g.barrier, scop' = scop, run'.groups \subseteq run.groups PROVE BarriersUnasked'
  BY <1>2, UnaskedKept DEF FillsNoBarrier
<1>3. ASSUME NEW d \in Def, RestrictOnce(d) PROVE g'.barrier = g.barrier /\ scop' = scop
  BY <1>1, <1>3, RestrictFills DEF RestrictOnce, RestrictStmt, vars
<1>4. CASE \E d \in Def : RestrictNode(d)
  <2>1. run'.groups = run.groups
    BY <1>1, <1>4 DEF RestrictNode, RunRecord
  <2> QED BY <1>2, <1>3, <1>4, <2>1 DEF RestrictNode
<1>5. CASE FinishSource
  <2>1. run.src \in Def /\ run'.groups = run.groups
    BY <1>1, <1>5 DEF RunRecord, FinishSource
  <2> QED BY <1>2, <1>3, <1>5, <2>1 DEF FinishSource
<1>6. CASE VisitEdge /\ UNCHANGED <<run, made, stands>>
  <2>1. PICK k \in op.todo : g' = Shrink(g, op.def, Phases[op.phase], k)
    BY <1>6 DEF VisitEdge
  <2>2. op.phase # 0 /\ op.phase \in 0..5 /\ op # Idle
    BY <2>1 DEF DInv, GInv, IInv, TypeOK, TodoOK, Idle
  <2>3. EInv /\ op.phase \in 1..5
    BY <2>2 DEF DInv, OperandsOK, Detached, EInv
  <2>4. FillsNoBarrier(g, g')
    BY <2>1, <2>3, VisitFills
  <2> QED BY <1>6, <2>4, UnaskedKept DEF VisitEdge
<1>7. CASE \E a \in Array : PropagateEdges(a)
  BY <1>7, PropagateEdgesUnasked
<1>8. CASE \E t \in Def : Split(t)
  <2>1. PICK t \in Def : Split(t)
    BY <1>8
  <2>2. PICK c, keep, twin : IsSplitStep(t, c, keep, twin)
    BY <2>1, SplitSteps
  <2>3. c \in Def /\ g' = KeepInstances(SplitDef(g, t, c, keep, twin), t, keep) /\ scop' = scop
        /\ IsSplit(g, t, c, keep, twin)
    BY <2>2 DEF IsSplitStep
  <2>4. SplitDef(g, t, c, keep, twin) \in Graph
        /\ SplitDef(g, t, c, keep, twin).barrier = [g.barrier EXCEPT ![c] = Miss]
    <3>1. SplitDef(g, t, c, keep, twin) \in Graph
      BY <1>1, <2>3, SplitFacts
    <3> QED BY <1>1, <3>1 DEF SplitDef, Graph
  <2>5. g'.barrier = [g.barrier EXCEPT ![c] = Miss]
    BY <2>3, <2>4 DEF KeepInstances, Graph
  <2>6. FillsNoBarrier(g, g')
    BY <1>1, <2>5 DEF FillsNoBarrier, Graph
  <2>7. run'.groups = run.groups
    BY <1>1, <2>1 DEF Split, RunRecord
  <2> QED BY <2>3, <2>6, <2>7, UnaskedKept
<1>9. CASE \E k \in Def \X Use : PropagateEdge(k)
  <2>1. PICK k \in Def \X Use : PropagateEdge(k)
    BY <1>9
  <2>2. FillsNoBarrier(g, g')
    BY <1>1, <2>1 DEF PropagateEdge, RemoveOperand, Graph, FillsNoBarrier
  <2>3. run'.groups = run.groups /\ scop' = scop
    BY <1>1, <2>1 DEF PropagateEdge, RunRecord
  <2> QED BY <2>2, <2>3, UnaskedKept
<1>10. CASE \E o \in Use : ReloadOperand(o)
  <2>1. PICK o \in Use : ReloadOperand(o)
    BY <1>10
  <2>2. run.edge[2] \in Use /\ g.def[run.edge[2]] \in Def
    BY <2>1, PairFacts DEF ReloadOperand, DInv, OperandsOK, Detached
  <2>3. PICK n, R : /\ n \in {CHOOSE m \in FreshUses : TRUE}
                           \cup {m \in EqualOperands(g.def[run.edge[2]], Needed(R, o)) : Subscripted(o)}
                    /\ g' = AddReload(g, o, n, R, g.def[run.edge[2]])
    BY <2>1 DEF ReloadOperand
  <2>4. n \in Use
    <3>1. FreshUses # {} /\ FreshUses \subseteq Use
      BY <2>1 DEF ReloadOperand, FreshUses
    <3>2. EqualOperands(g.def[run.edge[2]], Needed(R, o)) \subseteq Use
      BY <1>1, <2>2 DEF EqualOperands, Graph
    <3> QED BY <2>3, <3>1, <3>2
  <2>5. FillsNoBarrier(g, g')
    BY <1>1, <2>2, <2>3, <2>4, ReloadFills
  <2>6. run'.groups = run.groups /\ scop' = scop
    BY <1>1, <2>1 DEF ReloadOperand, RunRecord
  <2> QED BY <2>5, <2>6, UnaskedKept
<1>11. CASE FinishEdge
  <2>1. g'.barrier = g.barrier /\ run'.groups = run.groups /\ scop' = scop
    BY <1>1, <1>11 DEF FinishEdge, ClearPropagated, Graph, RunRecord
  <2> QED BY <1>2, <2>1
<1>12. CASE UNCHANGED runVars \/ (NextPhase /\ UNCHANGED <<run, made, stands>>)
  BY <1>2, <1>12 DEF runVars, NextPhase
<1>13. CASE CutTarget \/ GiveUp \/ StartSplits \/ EndLoop \/ StartPropagation \/ Abort
            \/ FinishGroup \/ EndWorklist \/ Finished
  <2>1. g' = g /\ scop' = scop
    BY <1>13
       DEF CutTarget, GiveUp, StartSplits, EndLoop, StartPropagation, Abort, FinishGroup, EndWorklist,
           Finished, runVars
  <2>2. run'.groups = run.groups
    BY <1>1, <1>13
       DEF CutTarget, GiveUp, StartSplits, EndLoop, StartPropagation, Abort, FinishGroup, EndWorklist,
           Finished, runVars, RunRecord
  <2> QED BY <1>2, <2>1, <2>2
<1>14. CASE \E d \in Def : PickSource(d)
  BY <1>1, <1>2, <1>14, PickSourceFacts
<1> QED BY <1>4, <1>5, <1>6, <1>7, <1>8, <1>9, <1>10, <1>11, <1>12, <1>13, <1>14 DEF RunNext

=============================================================================
