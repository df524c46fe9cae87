---------------------------- MODULE GraphProofs ----------------------------
(***************************************************************************)
(* What the operations of the dependence graph return, leave alone and     *)
(* keep coherent, one lemma per operation, and what its rewriting does:    *)
(* the split of a statement (splitUsingDefNode) loses no dependence and,   *)
(* although nobody is notified of it, leaves no used domain stale.         *)
(***************************************************************************)
EXTENDS Restriction, GraphRewrite, TLAPS

(***************************************************************************)
(* From h to r no cached set got stale: the cache of a DefNode is freed,   *)
(* or neither it nor the edges it is computed from have changed.           *)
(***************************************************************************)
OverStep(h, r) ==
    \A d \in Def :
        \/ r.over[d] = Miss
        \/ r.over[d] = h.over[d] /\ \A e \in Def : r.waw[d, e] = h.waw[d, e]

UsedStep(h, r) ==
    \A d \in Def :
        \/ r.used[d] = Miss
        \/ r.used[d] = h.used[d] /\ \A u \in Use : r.raw[d, u] = h.raw[d, u]

(***************************************************************************)
(* From h to r a barrier is freed, kept, or computed from the edges.       *)
(***************************************************************************)
BarrierStep(h, r) ==
    \A d \in Def :
        r.barrier[d] = Miss \/ r.barrier[d] = h.barrier[d] \/ r.barrier[d] = WarTimes(h, d)

SameNodes(h, r) == r.dom = h.dom /\ r.def = h.def /\ r.ops = h.ops

(* A pair is made of its two members. *)
LEMMA PairFacts ==
    ASSUME NEW S, NEW T, NEW p \in S \X T
    PROVE  p = <<p[1], p[2]>> /\ p[1] \in S /\ p[2] \in T
OBVIOUS

(* The source of a RAW dependence is an instance some read depends on. *)
LEMMA RawDomainFacts ==
    ASSUME NEW h \in Graph, NEW d \in Def, NEW u \in Use, NEW p \in h.raw[d, u]
    PROVE  p[1] \in RawDomain(h, d)
<1>1. h.raw[d, u] \in SUBSET (Inst \X Inst)
  BY DEF Graph, Map
<1>2. p \in Inst \X Inst
  BY <1>1
<1>3. p = <<p[1], p[2]>> /\ p[1] \in Inst /\ p[2] \in Inst
  BY <1>2, PairFacts
<1>4. <<p[1], p[2]>> \in h.raw[d, u]
  BY <1>3
<1> QED BY <1>3, <1>4 DEF RawDomain

(* The chain of two dependences is a dependence. *)
LEMMA ComposeType == ASSUME NEW R, NEW S PROVE Compose(R, S) \in Map
BY DEF Compose, Map

(***************************************************************************)
(* Asking a DefNode for a set it may have cached changes that cache only,  *)
(* to what the edges say.                                                  *)
(***************************************************************************)
LEMMA FillUsedFacts ==
    ASSUME NEW h \in Graph, NEW d \in Def
    PROVE  LET r == FillUsed(h, d)
           IN  /\ r \in Graph
               /\ SameNodes(h, r) /\ r.raw = h.raw /\ r.waw = h.waw /\ r.war = h.war
               /\ r.over = h.over /\ r.barrier = h.barrier
               /\ \A e \in Def : r.used[e] = h.used[e] \/ r.used[e] = RawDomain(r, e)
               /\ r.used[d] = UsedDomain(h, d)
<1> DEFINE r == FillUsed(h, d)
<1>1. RawDomain(h, d) \in SUBSET Inst
  BY DEF RawDomain
<1>2. UsedDomain(h, d) \in Cache(Inst)
  BY <1>1 DEF Graph, Cache, UsedDomain
<1>3. /\ r \in Graph /\ r.raw = h.raw /\ r.waw = h.waw /\ r.war = h.war /\ r.over = h.over
      /\ r.barrier = h.barrier /\ SameNodes(h, r) /\ r.used = [h.used EXCEPT ![d] = UsedDomain(h, d)]
  BY <1>2 DEF FillUsed, Graph, SameNodes
<1> HIDE DEF r
<1>4. \A e \in Def : RawDomain(r, e) = RawDomain(h, e)
  BY <1>3 DEF RawDomain
<1>5. UsedDomain(h, d) = h.used[d] \/ UsedDomain(h, d) = RawDomain(h, d)
  BY DEF UsedDomain
<1>6. h.used \in [Def -> Cache(Inst)]
  BY DEF Graph
<1>7. \A e \in Def : r.used[e] = h.used[e] \/ r.used[e] = RawDomain(r, e)
  BY <1>3, <1>4, <1>5, <1>6
<1>8. r.used[d] = UsedDomain(h, d)
  BY <1>3, <1>6
<1> QED BY <1>3, <1>7, <1>8 DEF r

LEMMA FillOverFacts ==
    ASSUME NEW h \in Graph, NEW d \in Def
    PROVE  LET r == FillOver(h, d)
           IN  /\ r \in Graph
               /\ SameNodes(h, r) /\ r.raw = h.raw /\ r.waw = h.waw /\ r.war = h.war
               /\ r.used = h.used /\ r.barrier = h.barrier
               /\ \A e \in Def : r.over[e] = h.over[e] \/ r.over[e] = WawDomain(r, e)
<1> DEFINE r == FillOver(h, d)
<1>1. WawDomain(h, d) \in SUBSET Inst
  BY DEF WawDomain
<1>2. OverwrittenSet(h, d) \in Cache(Inst)
  BY <1>1 DEF Graph, Cache, OverwrittenSet
<1>3. /\ r \in Graph /\ r.raw = h.raw /\ r.waw = h.waw /\ r.war = h.war /\ r.used = h.used
      /\ r.barrier = h.barrier /\ SameNodes(h, r) /\ r.over = [h.over EXCEPT ![d] = OverwrittenSet(h, d)]
  BY <1>2 DEF FillOver, Graph, SameNodes
<1> HIDE DEF r
<1>4. \A e \in Def : WawDomain(r, e) = WawDomain(h, e)
  BY <1>3 DEF WawDomain
<1>5. OverwrittenSet(h, d) = h.over[d] \/ OverwrittenSet(h, d) = WawDomain(h, d)
  BY DEF OverwrittenSet
<1>6. h.over \in [Def -> Cache(Inst)]
  BY DEF Graph
<1>7. \A e \in Def : r.over[e] = h.over[e] \/ r.over[e] = WawDomain(r, e)
  BY <1>3, <1>4, <1>5, <1>6
<1> QED BY <1>3, <1>7 DEF r

LEMMA FillBarrierFacts ==
    ASSUME NEW h \in Graph, NEW d \in Def
    PROVE  LET r == FillBarrier(h, d)
           IN  /\ r \in Graph
               /\ SameNodes(h, r) /\ r.raw = h.raw /\ r.waw = h.waw /\ r.war = h.war
               /\ r.used = h.used /\ r.over = h.over
               /\ BarrierStep(h, r)
<1>1. WarTimes(h, d) \in SUBSET (Inst \X (Def \X Inst))
  BY DEF WarTimes
<1>2. Barrier(h, d) \in Cache(Inst \X (Def \X Inst))
  BY <1>1 DEF Graph, Cache, Barrier
<1> DEFINE stored == [h EXCEPT !.barrier[d] = Barrier(h, d)]
<1>3. /\ stored \in Graph
      /\ SameNodes(h, stored) /\ stored.raw = h.raw /\ stored.waw = h.waw /\ stored.war = h.war
      /\ stored.used = h.used /\ stored.over = h.over
  BY <1>2 DEF Graph, SameNodes
<1>4. stored.barrier = [h.barrier EXCEPT ![d] = Barrier(h, d)]
  OBVIOUS
<1> HIDE DEF stored
<1>5. FillBarrier(h, d) = h \/ FillBarrier(h, d) = stored
  BY DEF FillBarrier, stored
<1>6. Barrier(h, d) = h.barrier[d] \/ Barrier(h, d) = WarTimes(h, d)
  BY DEF Barrier
<1>7. h.barrier \in [Def -> Cache(Inst \X (Def \X Inst))]
  BY DEF Graph
<1>8. BarrierStep(h, stored) /\ BarrierStep(h, h)
  BY <1>4, <1>6, <1>7 DEF BarrierStep
<1> QED BY <1>3, <1>5, <1>8 DEF SameNodes

-----------------------------------------------------------------------------
(* GrowRaw adds to the RAW edges and to the used domains only. *)
LEMMA GrowRawFacts ==
    ASSUME NEW h \in Graph, NEW new \in [Def \X Use -> Map]
    PROVE  LET r == GrowRaw(h, new)
           IN  /\ r \in Graph
               /\ SameNodes(h, r) /\ r.war = h.war /\ r.waw = h.waw /\ r.over = h.over
               /\ r.barrier = h.barrier
               /\ r.raw = [k \in Def \X Use |-> h.raw[k] \cup new[k]]
               /\ \A d \in Def : r.used[d] = h.used[d] \/ \E u \in Use : r.raw[d, u] # h.raw[d, u]
<1> DEFINE raw == [k \in Def \X Use |-> h.raw[k] \cup new[k]]
           used == [d \in Def |->
                      IF h.used[d] = Miss THEN Miss
                      ELSE h.used[d] \cup
                           {i \in Inst : \E u \in {u \in Use : raw[d, u] # h.raw[d, u]} :
                                            \E j \in Inst : <<i, j>> \in raw[d, u]}]
<1>1. raw \in [Def \X Use -> Map]
  BY DEF Graph, Map
<1>2. used \in [Def -> Cache(Inst)]
  BY DEF Graph, Cache
<1>3. GrowRaw(h, new) = [h EXCEPT !.raw = raw, !.used = used]
  BY DEF GrowRaw
<1>4. ASSUME NEW d \in Def, used[d] # h.used[d] PROVE \E u \in Use : raw[d, u] # h.raw[d, u]
  <2> SUFFICES ASSUME {u \in Use : raw[d, u] # h.raw[d, u]} = {} PROVE FALSE
    OBVIOUS
  <2> HIDE DEF raw
  <2>1. used[d] = h.used[d]
    OBVIOUS
  <2> QED BY <1>4, <2>1
<1> DEFINE r == GrowRaw(h, new)
<1> HIDE DEF raw, used, r
<1>5. /\ r \in Graph /\ SameNodes(h, r) /\ r.war = h.war /\ r.waw = h.waw /\ r.over = h.over
      /\ r.barrier = h.barrier /\ r.raw = raw /\ r.used = used
  BY <1>1, <1>2, <1>3 DEF Graph, SameNodes, r
<1> QED BY <1>4, <1>5 DEF r, raw

(* GrowWaw adds to the WAW edges and frees the overwritten sets of their sources. *)
LEMMA GrowWawFacts ==
    ASSUME NEW h \in Graph, NEW new \in [Def \X Def -> Map]
    PROVE  LET r == GrowWaw(h, new)
           IN  /\ r \in Graph
               /\ SameNodes(h, r) /\ r.raw = h.raw /\ r.war = h.war /\ r.used = h.used
               /\ r.barrier = h.barrier
               /\ r.waw = [k \in Def \X Def |-> h.waw[k] \cup new[k]]
               /\ OverStep(h, r)
<1> DEFINE waw == [k \in Def \X Def |-> h.waw[k] \cup new[k]]
           over == [d \in Def |-> IF \E e \in Def : waw[d, e] # h.waw[d, e]
                                  THEN Miss ELSE h.over[d]]
           r == GrowWaw(h, new)
<1>1. waw \in [Def \X Def -> Map]
  BY DEF Graph, Map
<1>2. over \in [Def -> Cache(Inst)]
  BY DEF Graph, Cache
<1>3. r = [h EXCEPT !.waw = waw, !.over = over]
  BY DEF GrowWaw
<1>4. \A d \in Def : over[d] = Miss \/ (over[d] = h.over[d] /\ \A e \in Def : waw[d, e] = h.waw[d, e])
  OBVIOUS
<1> HIDE DEF waw, over, r
<1>5. r \in Graph /\ r.waw = waw /\ r.over = over
  BY <1>1, <1>2, <1>3 DEF Graph
<1>6. SameNodes(h, r) /\ r.raw = h.raw /\ r.war = h.war /\ r.used = h.used /\ r.barrier = h.barrier
  BY <1>1, <1>2, <1>3 DEF Graph, SameNodes
<1>7. OverStep(h, r)
  BY <1>4, <1>5 DEF OverStep
<1> QED BY <1>5, <1>6, <1>7 DEF waw, r

(* GrowWar adds to the WAR edges and to the barriers only. *)
LEMMA GrowWarFacts ==
    ASSUME NEW h \in Graph, NEW new \in [Use \X Def -> Map]
    PROVE  LET r == GrowWar(h, new)
           IN  /\ r \in Graph
               /\ SameNodes(h, r) /\ r.raw = h.raw /\ r.waw = h.waw /\ r.used = h.used
               /\ r.over = h.over
               /\ r.war = [k \in Use \X Def |-> h.war[k] \cup new[k]]
               /\ (r.war = h.war => r.barrier = h.barrier)
<1> DEFINE war == [k \in Use \X Def |-> h.war[k] \cup new[k]]
           grew(d) == {k \in Use \X Def : h.def[k[1]] = d /\ war[k] # h.war[k]}
           barrier == [d \in Def |->
                         IF h.used[d] = Miss \/ h.barrier[d] = Miss THEN h.barrier[d]
                         ELSE h.barrier[d] \cup
                              {b \in Inst \X (Def \X Inst) :
                                 \E k \in grew(d) : k[2] = b[2][1] /\ <<b[1], b[2][2]>> \in war[k]}]
           r == GrowWar(h, new)
<1>1. war \in [Use \X Def -> Map]
  BY DEF Graph, Map
<1>2. barrier \in [Def -> Cache(Inst \X (Def \X Inst))]
  <2> HIDE DEF war, grew
  <2> QED BY DEF Graph, Cache
<1>3. r = [h EXCEPT !.war = war, !.barrier = barrier]
  BY DEF GrowWar
<1>4. ASSUME war = h.war PROVE barrier = h.barrier
  <2>1. \A d \in Def : grew(d) = {}
    BY <1>4
  <2> HIDE DEF grew, war
  <2>2. h.barrier \in [Def -> Cache(Inst \X (Def \X Inst))]
    BY DEF Graph
  <2>3. ASSUME NEW d \in Def PROVE barrier[d] = h.barrier[d]
    <3>1. {b \in Inst \X (Def \X Inst) :
             \E k \in grew(d) : k[2] = b[2][1] /\ <<b[1], b[2][2]>> \in war[k]} = {}
      BY <2>1
    <3> QED BY <3>1
  <2>4. barrier = [d \in Def |-> barrier[d]]
    OBVIOUS
  <2>5. h.barrier = [d \in Def |-> h.barrier[d]]
    BY <2>2
  <2> HIDE DEF barrier
  <2> QED BY <2>3, <2>4, <2>5, Zenon
<1> HIDE DEF war, barrier, r
<1>5. /\ r \in Graph /\ SameNodes(h, r) /\ r.raw = h.raw /\ r.waw = h.waw /\ r.used = h.used
      /\ r.over = h.over /\ r.war = war /\ r.barrier = barrier
  BY <1>1, <1>2, <1>3 DEF Graph, SameNodes
<1> QED BY <1>4, <1>5 DEF war, r

-----------------------------------------------------------------------------
(* No WAR edge continues through an instance that was just deleted. *)
LEMMA NoWarThroughLost ==
    ASSUME NEW R, NEW S, NEW D, \A p \in R : p[2] \in D
    PROVE  Compose(R, LostDomain(S, D)) = {}
<1>1. ASSUME NEW p \in Compose(R, LostDomain(S, D)) PROVE FALSE
  <2>1. PICK m \in Inst : <<p[1], m>> \in R /\ <<m, p[2]>> \in LostDomain(S, D)
    BY <1>1 DEF Compose
  <2> QED BY <2>1 DEF LostDomain
<1> QED BY <1>1

(* Cutting a WAW edge at its source keeps the overwritten sets coherent.   *)
(* No WAR edge is extended if those that end in the source are cut already. *)
LEMMA ShrinkWawDomainFacts ==
    ASSUME NEW h \in Graph, NEW k \in Def \X Def, NEW D
    PROVE  LET r == ShrinkWawDomain(h, k, D)
           IN  /\ r \in Graph
               /\ SameNodes(h, r) /\ r.raw = h.raw /\ r.used = h.used
               /\ OverStep(h, r)
               /\ (\A u \in Use : \A p \in h.war[u, k[1]] : p[2] \in D)
                     => r.war = h.war /\ r.barrier = h.barrier
<1> DEFINE lost == LostDomain(h.waw[k], D)
           cut  == [h EXCEPT !.waw[k] = @ \ lost]
           newW == [e \in Def \X Def |->
                      IF e[2] = k[2] THEN Compose(cut.waw[e[1], k[1]], lost) ELSE {}]
           past == GrowWaw(cut, newW)
           newR == [e \in Use \X Def |->
                      IF e[2] = k[2] THEN Compose(past.war[e[1], k[1]], lost) ELSE {}]
           ante == GrowWar(past, newR)
           done == [ante EXCEPT !.over[k[1]] = Miss]
           r    == ShrinkWawDomain(h, k, D)
<1>1. r = IF lost = {} THEN h ELSE done
  BY DEF ShrinkWawDomain
<1>2. cut \in Graph /\ SameNodes(h, cut) /\ cut.raw = h.raw /\ cut.used = h.used /\ cut.war = h.war
      /\ cut.barrier = h.barrier /\ cut.over = h.over /\ \A e \in Def \X Def : e # k => cut.waw[e] = h.waw[e]
  BY DEF Graph, Map, SameNodes
<1>3. newW \in [Def \X Def -> Map]
  BY ComposeType DEF Map
<1>4. past \in Graph /\ SameNodes(cut, past) /\ past.raw = cut.raw /\ past.used = cut.used
      /\ past.war = cut.war /\ past.barrier = cut.barrier /\ OverStep(cut, past)
  BY <1>2, <1>3, GrowWawFacts
<1>5. newR \in [Use \X Def -> Map]
  BY ComposeType DEF Map
<1>6. ante \in Graph /\ SameNodes(past, ante) /\ ante.raw = past.raw /\ ante.used = past.used
      /\ ante.waw = past.waw /\ ante.over = past.over
      /\ ante.war = [e \in Use \X Def |-> past.war[e] \cup newR[e]]
      /\ (ante.war = past.war => ante.barrier = past.barrier)
  <2> HIDE DEF newR, past
  <2> QED BY <1>4, <1>5, GrowWarFacts
<1>7. \A e \in Use \X Def : e[2] # k[2] => newR[e] = {}
  OBVIOUS
<1>8. \A e \in Use \X Def : e[2] = k[2] => newR[e] = Compose(h.war[e[1], k[1]], lost)
  BY <1>2, <1>4
<1> HIDE DEF newW, newR, past, ante, cut
<1>9. done \in Graph /\ SameNodes(ante, done) /\ done.raw = ante.raw /\ done.used = ante.used
      /\ done.waw = ante.waw /\ done.war = ante.war /\ done.barrier = ante.barrier
      /\ \A d \in Def : d # k[1] => done.over[d] = ante.over[d]
  BY <1>6 DEF Graph, Cache, SameNodes
<1>10. done.over[k[1]] = Miss
  BY <1>6 DEF Graph
<1> HIDE DEF done, lost
<1>11. OverStep(h, done)
  <2> SUFFICES ASSUME NEW d \in Def, d # k[1]
               PROVE  \/ done.over[d] = Miss
                      \/ (done.over[d] = h.over[d] /\ \A e \in Def : done.waw[d, e] = h.waw[d, e])
    BY <1>10 DEF OverStep
  <2>1. \A e \in Def : <<d, e>> \in Def \X Def /\ <<d, e>> # k
    OBVIOUS
  <2>2. \A e \in Def : cut.waw[d, e] = h.waw[d, e]
    BY <1>2, <2>1
  <2>3. done.over[d] = past.over[d] /\ done.waw = past.waw
    BY <1>6, <1>9
  <2>4. \/ past.over[d] = Miss
        \/ (past.over[d] = cut.over[d] /\ \A e \in Def : past.waw[d, e] = cut.waw[d, e])
    BY <1>4 DEF OverStep
  <2>5. cut.over[d] = h.over[d]
    BY <1>2
  <2> QED BY <2>2, <2>3, <2>4, <2>5
<1>12. ASSUME \A u \in Use : \A p \in h.war[u, k[1]] : p[2] \in D
       PROVE  done.war = h.war /\ done.barrier = h.barrier
  <2>1. \A u \in Use : Compose(h.war[u, k[1]], lost) = {}
    BY <1>12, NoWarThroughLost DEF lost
  <2>2. \A e \in Use \X Def : newR[e] = {}
    BY <1>7, <1>8, <2>1
  <2>3. past.war = h.war /\ done.war = [e \in Use \X Def |-> past.war[e] \cup newR[e]]
    BY <1>2, <1>4, <1>6, <1>9
  <2>4. h.war \in [Use \X Def -> Map]
    BY DEF Graph
  <2>5. done.war = h.war
    BY <2>2, <2>3, <2>4
  <2> QED BY <1>2, <1>4, <1>6, <1>9, <2>3, <2>5
<1>13. OverStep(h, h)
  BY DEF OverStep
<1>14. SameNodes(h, done) /\ done.raw = h.raw /\ done.used = h.used
  BY <1>2, <1>4, <1>6, <1>9 DEF SameNodes
<1>15. CASE lost = {}
  BY <1>1, <1>13, <1>15 DEF SameNodes, lost
<1>16. CASE lost # {}
  BY <1>1, <1>9, <1>11, <1>12, <1>14, <1>16 DEF lost
<1> QED BY <1>15, <1>16

(* The other end of a WAW edge: no edge of a read is touched. *)
LEMMA ShrinkWawRangeFacts ==
    ASSUME NEW h \in Graph, NEW k \in Def \X Def, NEW D
    PROVE  LET r == ShrinkWawRange(h, k, D)
           IN  /\ r \in Graph
               /\ SameNodes(h, r) /\ r.raw = h.raw /\ r.used = h.used /\ r.war = h.war
               /\ r.barrier = h.barrier
               /\ OverStep(h, r)
<1> DEFINE lost == LostRange(h.waw[k], D)
           cut  == [h EXCEPT !.waw[k] = @ \ lost]
           newW == [e \in Def \X Def |->
                      IF e[1] = k[1] THEN Compose(lost, cut.waw[k[2], e[2]]) ELSE {}]
           next == GrowWaw(cut, newW)
           done == [next EXCEPT !.over[k[1]] = Miss]
           r    == ShrinkWawRange(h, k, D)
<1>1. r = IF lost = {} THEN h ELSE done
  BY DEF ShrinkWawRange
<1>2. cut \in Graph /\ SameNodes(h, cut) /\ cut.raw = h.raw /\ cut.used = h.used /\ cut.war = h.war
      /\ cut.barrier = h.barrier /\ cut.over = h.over /\ \A e \in Def \X Def : e # k => cut.waw[e] = h.waw[e]
  BY DEF Graph, Map, SameNodes
<1>3. newW \in [Def \X Def -> Map]
  BY ComposeType DEF Map
<1>4. next \in Graph /\ SameNodes(cut, next) /\ next.raw = cut.raw /\ next.used = cut.used
      /\ next.war = cut.war /\ next.barrier = cut.barrier /\ OverStep(cut, next)
  BY <1>2, <1>3, GrowWawFacts
<1> HIDE DEF newW, next, cut
<1>5. done \in Graph /\ SameNodes(next, done) /\ done.raw = next.raw /\ done.used = next.used
      /\ done.waw = next.waw /\ done.war = next.war /\ done.barrier = next.barrier
      /\ \A d \in Def : d # k[1] => done.over[d] = next.over[d]
  BY <1>4 DEF Graph, Cache, SameNodes
<1>6. done.over[k[1]] = Miss
  BY <1>4 DEF Graph
<1> HIDE DEF done, lost
<1>7. OverStep(h, done)
  <2> SUFFICES ASSUME NEW d \in Def, d # k[1]
               PROVE  \/ done.over[d] = Miss
                      \/ (done.over[d] = h.over[d] /\ \A e \in Def : done.waw[d, e] = h.waw[d, e])
    BY <1>6 DEF OverStep
  <2>1. \A e \in Def : <<d, e>> \in Def \X Def /\ <<d, e>> # k
    OBVIOUS
  <2>2. \A e \in Def : cut.waw[d, e] = h.waw[d, e]
    BY <1>2, <2>1
  <2>3. done.over[d] = next.over[d] /\ done.waw = next.waw
    BY <1>5
  <2>4. \/ next.over[d] = Miss
        \/ (next.over[d] = cut.over[d] /\ \A e \in Def : next.waw[d, e] = cut.waw[d, e])
    BY <1>4 DEF OverStep
  <2>5. cut.over[d] = h.over[d]
    BY <1>2
  <2> QED BY <2>2, <2>3, <2>4, <2>5
<1>8. SameNodes(h, done) /\ done.raw = h.raw /\ done.used = h.used /\ done.war = h.war
      /\ done.barrier = h.barrier
  BY <1>2, <1>4, <1>5 DEF SameNodes
<1>9. OverStep(h, h)
  BY DEF OverStep
<1>10. CASE lost = {}
  BY <1>1, <1>9, <1>10 DEF SameNodes
<1>11. CASE lost # {}
  BY <1>1, <1>5, <1>7, <1>8, <1>11
<1> QED BY <1>10, <1>11

(* A RAW edge that starts inside D loses nothing and connects nothing. *)
LEMMA ShrinkRawDomainFacts ==
    ASSUME NEW h \in Graph, NEW k \in Def \X Use, NEW D,
           \A p \in h.raw[k] : p[1] \in D
    PROVE  LET r == ShrinkRawDomain(h, k, D)
           IN  /\ r \in Graph
               /\ SameNodes(h, r) /\ r.raw = h.raw /\ r.waw = h.waw /\ r.war = h.war
               /\ r.over = h.over /\ r.used = h.used /\ r.barrier = h.barrier
<1> DEFINE lost == LostDomain(h.raw[k], D)
           cut  == [h EXCEPT !.raw[k] = @ \ lost]
           new  == [e \in Def \X Use |->
                      IF e[2] = k[2] THEN Compose(cut.waw[e[1], k[1]], lost) ELSE {}]
           past == GrowRaw(cut, new)
<1>1. lost = {}
  BY DEF LostDomain
<1>2. ShrinkRawDomain(h, k, D) = past
  BY <1>1 DEF ShrinkRawDomain
<1>3. cut \in Graph /\ SameNodes(h, cut) /\ cut.raw = h.raw /\ cut.waw = h.waw /\ cut.war = h.war
      /\ cut.over = h.over /\ cut.used = h.used /\ cut.barrier = h.barrier
  BY <1>1 DEF Graph, Map, SameNodes
<1>4. new = [e \in Def \X Use |-> {}]
  BY <1>1 DEF Compose
<1>5. new \in [Def \X Use -> Map]
  BY ComposeType DEF Map
<1> HIDE DEF lost, cut, new
<1>6. past \in Graph /\ SameNodes(cut, past) /\ past.war = cut.war /\ past.waw = cut.waw
      /\ past.barrier = cut.barrier
      /\ past.over = cut.over /\ past.raw = [e \in Def \X Use |-> cut.raw[e] \cup new[e]]
      /\ \A d \in Def : past.used[d] = cut.used[d] \/ \E u \in Use : past.raw[d, u] # cut.raw[d, u]
  BY <1>3, <1>5, GrowRawFacts
<1> HIDE DEF past
<1>7. past.raw = cut.raw
  <2>1. cut.raw \in [Def \X Use -> Map]
    BY <1>3 DEF Graph
  <2>2. \A e \in Def \X Use : new[e] = {}
    BY <1>4
  <2> QED BY <1>6, <2>1, <2>2
<1>8. past.used = cut.used
  <2>1. past.used \in [Def -> Cache(Inst)] /\ cut.used \in [Def -> Cache(Inst)]
    BY <1>3, <1>6 DEF Graph
  <2>2. \A d \in Def : past.used[d] = cut.used[d]
    BY <1>6, <1>7
  <2> QED BY <2>1, <2>2
<1> QED BY <1>2, <1>3, <1>6, <1>7, <1>8 DEF SameNodes

(* Cutting a RAW edge at its reader frees the used domain of its writer. *)
LEMMA ShrinkRawRangeFacts ==
    ASSUME NEW h \in Graph, NEW k \in Def \X Use, NEW D
    PROVE  LET r == ShrinkRawRange(h, k, D)
           IN  /\ r \in Graph
               /\ SameNodes(h, r) /\ r.war = h.war /\ r.barrier = h.barrier
               /\ OverStep(h, r) /\ UsedStep(h, r)
               /\ r.raw = [h.raw EXCEPT ![k] = @ \ LostRange(@, D)]
<1> DEFINE lost == LostRange(h.raw[k], D)
           cut  == [h EXCEPT !.raw[k] = @ \ lost]
           new  == [e \in Def \X Def |->
                      IF e[1] = k[1] THEN Compose(lost, cut.war[k[2], e[2]]) ELSE {}]
           next == GrowWaw(cut, new)
           done == [next EXCEPT !.used[k[1]] = Miss]
           r    == ShrinkRawRange(h, k, D)
<1>1. r = IF lost = {} THEN h ELSE done
  BY DEF ShrinkRawRange
<1>2. cut \in Graph /\ SameNodes(h, cut) /\ cut.waw = h.waw /\ cut.war = h.war /\ cut.over = h.over
      /\ cut.barrier = h.barrier
      /\ cut.used = h.used /\ cut.raw = [h.raw EXCEPT ![k] = @ \ lost]
  BY DEF Graph, Map, SameNodes
<1>3. new \in [Def \X Def -> Map]
  BY ComposeType DEF Map
<1> HIDE DEF new, cut
<1>4. next \in Graph /\ SameNodes(cut, next) /\ next.raw = cut.raw /\ next.used = cut.used
      /\ next.war = cut.war /\ next.barrier = cut.barrier /\ OverStep(cut, next)
  BY <1>2, <1>3, GrowWawFacts
<1> HIDE DEF next
<1>5. done \in Graph /\ SameNodes(next, done) /\ done.raw = next.raw /\ done.waw = next.waw
      /\ done.war = next.war /\ done.over = next.over /\ done.barrier = next.barrier
      /\ done.used[k[1]] = Miss
      /\ \A d \in Def : d # k[1] => done.used[d] = next.used[d]
  BY <1>4 DEF Graph, Cache, SameNodes
<1> HIDE DEF done, lost
<1>6. OverStep(h, done)
  <2> SUFFICES ASSUME NEW d \in Def
               PROVE  \/ done.over[d] = Miss
                      \/ (done.over[d] = h.over[d] /\ \A e \in Def : done.waw[d, e] = h.waw[d, e])
    BY DEF OverStep
  <2>1. \/ next.over[d] = Miss
        \/ (next.over[d] = cut.over[d] /\ \A e \in Def : next.waw[d, e] = cut.waw[d, e])
    BY <1>4 DEF OverStep
  <2>2. done.over[d] = next.over[d] /\ done.waw = next.waw /\ cut.over = h.over /\ cut.waw = h.waw
    BY <1>2, <1>5
  <2> QED BY <2>1, <2>2
<1>7. UsedStep(h, done)
  <2> SUFFICES ASSUME NEW d \in Def, d # k[1]
               PROVE  done.used[d] = h.used[d] /\ \A u \in Use : done.raw[d, u] = h.raw[d, u]
    BY <1>5 DEF UsedStep
  <2>1. \A u \in Use : <<d, u>> \in Def \X Use /\ <<d, u>> # k
    OBVIOUS
  <2>2. \A u \in Use : cut.raw[d, u] = h.raw[d, u]
    BY <1>2, <2>1 DEF Graph
  <2>3. done.used[d] = h.used[d]
    BY <1>2, <1>4, <1>5
  <2>4. done.raw = cut.raw
    BY <1>4, <1>5
  <2> QED BY <2>2, <2>3, <2>4
<1>8. CASE lost = {}
  <2>1. OverStep(h, h) /\ UsedStep(h, h) /\ SameNodes(h, h)
    BY DEF OverStep, UsedStep, SameNodes
  <2>2. h.raw = [h.raw EXCEPT ![k] = @ \ LostRange(@, D)]
    BY <1>8 DEF Graph, lost
  <2> QED BY <1>1, <1>8, <2>1, <2>2
<1>9. CASE lost # {}
  BY <1>1, <1>2, <1>4, <1>5, <1>6, <1>7, <1>9 DEF SameNodes, lost
<1> QED BY <1>8, <1>9

(* Cutting a WAR edge touches that edge and a barrier. *)
LEMMA ShrinkWarRangeFacts ==
    ASSUME NEW h \in Graph, NEW k \in Use \X Def, NEW D
    PROVE  LET r == ShrinkWarRange(h, k, D)
           IN  /\ r \in Graph
               /\ SameNodes(h, r) /\ r.raw = h.raw /\ r.waw = h.waw
               /\ r.used = h.used /\ r.over = h.over
               /\ r.war = [h.war EXCEPT ![k] = @ \ LostRange(@, D)]
               /\ BarrierStep(h, r)
<1>1. h.war[k] \ LostRange(h.war[k], D) \in Map
  BY DEF Graph, Map
<1>2. ShrinkWarRange(h, k, D) \in Graph
  BY <1>1 DEF ShrinkWarRange, Graph, Cache
<1>3. BarrierStep(h, ShrinkWarRange(h, k, D))
  BY DEF ShrinkWarRange, Graph, BarrierStep
<1> QED BY <1>2, <1>3 DEF ShrinkWarRange, Graph, SameNodes

LEMMA ShrinkWarDomainFacts ==
    ASSUME NEW h \in Graph, NEW k \in Use \X Def, NEW D
    PROVE  LET r == ShrinkWarDomain(h, k, D)
           IN  /\ r \in Graph
               /\ SameNodes(h, r) /\ r.raw = h.raw /\ r.waw = h.waw
               /\ r.used = h.used /\ r.over = h.over
               /\ r.war = [h.war EXCEPT ![k] = @ \ LostDomain(@, D)]
               /\ BarrierStep(h, r)
<1>1. h.war[k] \ LostDomain(h.war[k], D) \in Map
  BY DEF Graph, Map
<1>2. ShrinkWarDomain(h, k, D) \in Graph
  BY <1>1 DEF ShrinkWarDomain, Graph, Cache
<1>3. BarrierStep(h, ShrinkWarDomain(h, k, D))
  BY DEF ShrinkWarDomain, Graph, BarrierStep
<1> QED BY <1>2, <1>3 DEF ShrinkWarDomain, Graph, SameNodes

-----------------------------------------------------------------------------
(***************************************************************************)
(* A split: c is a node the graph does not have yet, and twin gives each   *)
(* operand of d a use of its own that nothing depends on yet.              *)
(***************************************************************************)
Twins(twin) == {twin[o] : o \in DOMAIN twin}

IsSplit(h, d, c, keep, twin) ==
    /\ h \in Graph /\ d \in Def /\ c \in Def /\ c # d
    /\ keep \subseteq h.dom[d]
    /\ twin \in [h.ops[d] -> Use]
    /\ \A o, q \in h.ops[d] : twin[o] = twin[q] => o = q
    /\ Twins(twin) \cap h.ops[d] = {}
    /\ \A e \in Def, u \in Use : e = c \/ u \in Twins(twin) =>
          h.raw[<<e, u>>] = {} /\ h.war[<<u, e>>] = {}

(* The pair p of dependent instances of m and n relates instances of d and its operands that exist. *)
Present(h, d, n, i)  == n = d \/ n \in h.ops[d] => i \in h.dom[d]
Real(h, d, m, n, p) == Present(h, d, m, p[1]) /\ Present(h, d, n, p[2])

(* The node a node of the split graph was part of, and the instances it has. *)
WasDef(d, c, e)  == IF e = c THEN d ELSE e
WasUse(twin, u)  == IF u \in Twins(twin) THEN TwinOf(twin, u) ELSE u

HasDef(h, d, c, keep, e, i) ==
    (e = d => i \in keep) /\ (e = c => i \in h.dom[d] \ keep)
HasUse(h, d, keep, twin, u, i) ==
    (u \in h.ops[d] => i \in keep) /\ (u \in Twins(twin) => i \in h.dom[d] \ keep)

-----------------------------------------------------------------------------
(* The use a twin is the twin of. *)
LEMMA TwinFacts ==
    ASSUME NEW h, NEW d, NEW c, NEW keep, NEW twin, IsSplit(h, d, c, keep, twin)
    PROVE  /\ \A o \in h.ops[d] : twin[o] \in Use /\ twin[o] \in Twins(twin) /\ TwinOf(twin, twin[o]) = o
           /\ \A u \in Twins(twin) : u \in Use /\ TwinOf(twin, u) \in h.ops[d] /\ twin[TwinOf(twin, u)] = u
           /\ h.ops[d] \subseteq Use /\ Twins(twin) \subseteq Use
           /\ \A u \in Use : WasUse(twin, u) \in Use
<1>1. h.ops[d] \subseteq Use /\ DOMAIN twin = h.ops[d] /\ twin \in [h.ops[d] -> Use]
  BY DEF IsSplit, Graph
<1>2. ASSUME NEW o \in h.ops[d]
      PROVE  twin[o] \in Use /\ twin[o] \in Twins(twin) /\ TwinOf(twin, twin[o]) = o
  <2>1. \A q \in h.ops[d] : twin[q] = twin[o] => q = o
    BY DEF IsSplit
  <2> QED BY <1>1, <2>1 DEF Twins, TwinOf
<1>3. ASSUME NEW u \in Twins(twin)
      PROVE  u \in Use /\ TwinOf(twin, u) \in h.ops[d] /\ twin[TwinOf(twin, u)] = u
  <2>1. PICK o \in h.ops[d] : twin[o] = u
    BY <1>1 DEF Twins
  <2> QED BY <1>2, <2>1
<1> QED BY <1>1, <1>2, <1>3 DEF WasUse

(* The edges after a split, in terms of the edges before it. *)
LEMMA SplitFacts ==
    ASSUME NEW h, NEW d, NEW c, NEW keep, NEW twin, IsSplit(h, d, c, keep, twin)
    PROVE  LET r == SplitDef(h, d, c, keep, twin)
           IN  /\ r \in Graph
               /\ \A x \in Def : r.used[x] = IF x = c THEN Miss ELSE h.used[x]
               /\ \A e \in Def, u \in Use : \A p :
                     p \in r.raw[<<e, u>>] <=>
                       /\ p \in h.raw[<<WasDef(d, c, e), WasUse(twin, u)>>]
                       /\ HasDef(h, d, c, keep, e, p[1]) /\ HasUse(h, d, keep, twin, u, p[2])
               /\ \A e \in Def, u \in Use : \A p :
                     p \in r.war[<<u, e>>] <=>
                       /\ p \in h.war[<<WasUse(twin, u), WasDef(d, c, e)>>]
                       /\ HasUse(h, d, keep, twin, u, p[1]) /\ HasDef(h, d, c, keep, e, p[2])
               /\ \A e, f \in Def : \A p :
                     p \in r.waw[<<e, f>>] <=>
                       /\ p \in h.waw[<<WasDef(d, c, e), WasDef(d, c, f)>>]
                       /\ HasDef(h, d, c, keep, e, p[1]) /\ HasDef(h, d, c, keep, f, p[2])
<1> DEFINE left  == h.dom[d] \ keep
           twins == {twin[o] : o \in DOMAIN twin}
           was(n) == IF n = c THEN d ELSE IF n \in twins THEN TwinOf(twin, n) ELSE n
           has(n, i) == IF n = d \/ n \in DOMAIN twin THEN i \in keep
                        ELSE IF n = c \/ n \in twins THEN i \in left ELSE TRUE
           part(m, k) == {p \in m[was(k[1]), was(k[2])] : has(k[1], p[1]) /\ has(k[2], p[2])}
           def == [u \in Use |-> IF u \in twins THEN c ELSE h.def[u]]
           raw == [k \in Def \X Use |-> part(h.raw, k)]
           war == [k \in Use \X Def |-> part(h.war, k)]
           waw == [k \in Def \X Def |-> part(h.waw, k)]
           r   == SplitDef(h, d, c, keep, twin)
<1>1. r = [h EXCEPT !.dom[c] = left, !.ops[c] = twins,
                    !.used[c] = Miss, !.over[c] = Miss, !.barrier[c] = Miss,
                    !.def = def, !.raw = raw, !.war = war, !.waw = waw]
  BY DEF SplitDef
<1>2. h \in Graph /\ d \in Def /\ c \in Def /\ c # d /\ DOMAIN twin = h.ops[d] /\ twins = Twins(twin)
      /\ h.ops[d] \subseteq Use /\ twins \subseteq Use /\ twins \cap h.ops[d] = {}
  <2>1. h \in Graph /\ d \in Def /\ c \in Def /\ c # d /\ DOMAIN twin = h.ops[d]
        /\ Twins(twin) \cap h.ops[d] = {}
    BY DEF IsSplit
  <2>2. twins = Twins(twin)
    BY DEF Twins
  <2> QED BY <2>1, <2>2, TwinFacts
<1>3. ASSUME NEW e \in Def
      PROVE  was(e) = WasDef(d, c, e) /\ was(e) \in Def
             /\ \A i : has(e, i) <=> HasDef(h, d, c, keep, e, i)
  <2>1. e \notin twins /\ e \notin h.ops[d]
    BY <1>2, NodesAssumption
  <2> QED BY <1>2, <2>1 DEF WasDef, HasDef
<1>4. ASSUME NEW u \in Use
      PROVE  was(u) = WasUse(twin, u) /\ was(u) \in Use
             /\ \A i : has(u, i) <=> HasUse(h, d, keep, twin, u, i)
  <2>1. u # c /\ u # d
    BY <1>2, NodesAssumption
  <2> HIDE DEF twins
  <2>2. was(u) = WasUse(twin, u) /\ was(u) \in Use
    BY <1>2, <2>1, TwinFacts DEF WasUse
  <2>3. \A i : has(u, i) <=> HasUse(h, d, keep, twin, u, i)
    BY <1>2, <2>1 DEF HasUse
  <2> QED BY <2>2, <2>3
<1> HIDE DEF twins, was, has
<1>5. ASSUME NEW e \in Def, NEW u \in Use
      PROVE  \A p : p \in raw[<<e, u>>] <=>
               /\ p \in h.raw[<<WasDef(d, c, e), WasUse(twin, u)>>]
               /\ HasDef(h, d, c, keep, e, p[1]) /\ HasUse(h, d, keep, twin, u, p[2])
  <2>1. raw[<<e, u>>] = {p \in h.raw[<<was(e), was(u)>>] : has(e, p[1]) /\ has(u, p[2])}
    OBVIOUS
  <2> HIDE DEF raw
  <2> QED BY <1>3, <1>4, <2>1
<1>6. ASSUME NEW e \in Def, NEW u \in Use
      PROVE  \A p : p \in war[<<u, e>>] <=>
               /\ p \in h.war[<<WasUse(twin, u), WasDef(d, c, e)>>]
               /\ HasUse(h, d, keep, twin, u, p[1]) /\ HasDef(h, d, c, keep, e, p[2])
  <2>1. war[<<u, e>>] = {p \in h.war[<<was(u), was(e)>>] : has(u, p[1]) /\ has(e, p[2])}
    OBVIOUS
  <2> HIDE DEF war
  <2> QED BY <1>3, <1>4, <2>1
<1>7. ASSUME NEW e \in Def, NEW f \in Def
      PROVE  \A p : p \in waw[<<e, f>>] <=>
               /\ p \in h.waw[<<WasDef(d, c, e), WasDef(d, c, f)>>]
               /\ HasDef(h, d, c, keep, e, p[1]) /\ HasDef(h, d, c, keep, f, p[2])
  <2>1. waw[<<e, f>>] = {p \in h.waw[<<was(e), was(f)>>] : has(e, p[1]) /\ has(f, p[2])}
    OBVIOUS
  <2> HIDE DEF waw
  <2> QED BY <1>3, <2>1
<1>8. raw \in [Def \X Use -> Map] /\ war \in [Use \X Def -> Map] /\ waw \in [Def \X Def -> Map]
  <2>1. ASSUME NEW k \in Def \X Use PROVE raw[k] \in Map
    <3>1. <<was(k[1]), was(k[2])>> \in Def \X Use
      BY <1>3, <1>4
    <3>2. h.raw[<<was(k[1]), was(k[2])>>] \in Map
      BY <1>2, <3>1 DEF Graph
    <3>3. raw[k] \subseteq h.raw[<<was(k[1]), was(k[2])>>]
      OBVIOUS
    <3> QED BY <3>2, <3>3 DEF Map
  <2>2. ASSUME NEW k \in Use \X Def PROVE war[k] \in Map
    <3>1. <<was(k[1]), was(k[2])>> \in Use \X Def
      BY <1>3, <1>4
    <3>2. h.war[<<was(k[1]), was(k[2])>>] \in Map
      BY <1>2, <3>1 DEF Graph
    <3>3. war[k] \subseteq h.war[<<was(k[1]), was(k[2])>>]
      OBVIOUS
    <3> QED BY <3>2, <3>3 DEF Map
  <2>3. ASSUME NEW k \in Def \X Def PROVE waw[k] \in Map
    <3>1. <<was(k[1]), was(k[2])>> \in Def \X Def
      BY <1>3
    <3>2. h.waw[<<was(k[1]), was(k[2])>>] \in Map
      BY <1>2, <3>1 DEF Graph
    <3>3. waw[k] \subseteq h.waw[<<was(k[1]), was(k[2])>>]
      OBVIOUS
    <3> QED BY <3>2, <3>3 DEF Map
  <2> QED BY <2>1, <2>2, <2>3
<1>9. def \in [Use -> Def \cup {NoDef}]
  BY <1>2 DEF Graph
<1>10. left \in SUBSET Inst
  BY <1>2 DEF Graph
<1> HIDE DEF raw, war, waw, def, left, r
<1>11. /\ r \in Graph /\ r.raw = raw /\ r.war = war /\ r.waw = waw
       /\ r.used = [h.used EXCEPT ![c] = Miss]
  BY <1>1, <1>2, <1>8, <1>9, <1>10 DEF Graph, Cache
<1>12. \A x \in Def : r.used[x] = IF x = c THEN Miss ELSE h.used[x]
  <2>1. h.used \in [Def -> Cache(Inst)]
    BY <1>2 DEF Graph
  <2> QED BY <1>2, <1>11, <2>1
<1> QED BY <1>5, <1>6, <1>7, <1>11, <1>12 DEF r

(* The nodes of the graph r after a split of d, which keeps its part. *)
SplitGraph(h, d, c, keep, twin, r) ==
    /\ r \in Graph
    /\ r.raw = SplitDef(h, d, c, keep, twin).raw
    /\ r.war = SplitDef(h, d, c, keep, twin).war
    /\ \A e \in Def : r.dom[e] = IF e = d THEN keep ELSE IF e = c THEN h.dom[d] \ keep ELSE h.dom[e]
    /\ \A e \in Def : r.ops[e] = IF e = c THEN Twins(twin) ELSE h.ops[e]
    /\ \A u \in Use : r.def[u] = IF u \in Twins(twin) THEN c ELSE h.def[u]

LEMMA SplitNodes ==
    ASSUME NEW h, NEW d, NEW c, NEW keep, NEW twin, IsSplit(h, d, c, keep, twin)
    PROVE  SplitGraph(h, d, c, keep, twin, KeepInstances(SplitDef(h, d, c, keep, twin), d, keep))
<1> DEFINE s == SplitDef(h, d, c, keep, twin)
           r == KeepInstances(s, d, keep)
           used == [s.used EXCEPT ![d] = IF @ = Miss THEN Miss ELSE @ \cap keep]
           over == [s.over EXCEPT ![d] = IF @ = Miss THEN Miss ELSE @ \cap keep]
<1>1. h \in Graph /\ d \in Def /\ c \in Def /\ c # d /\ keep \subseteq h.dom[d]
  BY DEF IsSplit
<1>2. /\ s.dom = [h.dom EXCEPT ![c] = h.dom[d] \ keep]
      /\ s.ops = [h.ops EXCEPT ![c] = Twins(twin)]
      /\ s.def = [u \in Use |-> IF u \in Twins(twin) THEN c ELSE h.def[u]]
  BY <1>1 DEF SplitDef, Graph, Twins
<1>3. s \in Graph
  BY SplitFacts
<1>4. r = [s EXCEPT !.used = used, !.over = over, !.dom = [s.dom EXCEPT ![d] = keep]]
  BY DEF KeepInstances
<1> HIDE DEF s, r
<1>5. used \in [Def -> Cache(Inst)] /\ over \in [Def -> Cache(Inst)]
  BY <1>1, <1>3 DEF Graph, Cache
<1>6. [s.dom EXCEPT ![d] = keep] \in [Def -> SUBSET Inst]
  BY <1>1, <1>3 DEF Graph
<1> HIDE DEF used, over
<1>7. r \in Graph /\ r.raw = s.raw /\ r.war = s.war /\ r.ops = s.ops /\ r.def = s.def
      /\ r.dom = [s.dom EXCEPT ![d] = keep]
  BY <1>3, <1>4, <1>5, <1>6 DEF Graph
<1>8. h.dom \in [Def -> SUBSET Inst] /\ h.ops \in [Def -> SUBSET Use]
  BY <1>1 DEF Graph
<1>9. \A e \in Def : r.dom[e] = IF e = d THEN keep ELSE IF e = c THEN h.dom[d] \ keep ELSE h.dom[e]
  BY <1>1, <1>2, <1>7, <1>8
<1>10. \A e \in Def : r.ops[e] = IF e = c THEN Twins(twin) ELSE h.ops[e]
  BY <1>1, <1>2, <1>7, <1>8
<1>11. \A u \in Use : r.def[u] = IF u \in Twins(twin) THEN c ELSE h.def[u]
  BY <1>2, <1>7
<1> QED BY <1>7, <1>9, <1>10, <1>11 DEF r, s, SplitGraph

(* An instance in a part of a statement existed before the split. *)
LEMMA DefExists ==
    ASSUME NEW h, NEW d, NEW c, NEW keep, NEW twin, IsSplit(h, d, c, keep, twin),
           NEW x \in Def, NEW i, HasDef(h, d, c, keep, x, i)
    PROVE  Present(h, d, WasDef(d, c, x), i)
<1>1. d \in Def /\ c \in Def /\ c # d /\ keep \subseteq h.dom[d] /\ h.ops[d] \subseteq Use
  BY DEF IsSplit, Graph
<1>2. d \notin h.ops[d] /\ x \notin h.ops[d]
  BY <1>1, NodesAssumption
<1>3. CASE x = c
  BY <1>1, <1>3 DEF WasDef, HasDef, Present
<1>4. CASE x # c
  BY <1>1, <1>2, <1>4 DEF WasDef, HasDef, Present
<1> QED BY <1>3, <1>4

LEMMA UseExists ==
    ASSUME NEW h, NEW d, NEW c, NEW keep, NEW twin, IsSplit(h, d, c, keep, twin),
           NEW x \in Use, NEW i, HasUse(h, d, keep, twin, x, i)
    PROVE  Present(h, d, WasUse(twin, x), i)
<1>1. d \in Def /\ keep \subseteq h.dom[d] /\ h.ops[d] \subseteq Use
  BY DEF IsSplit, Graph
<1>2. d \notin Use
  BY <1>1, NodesAssumption
<1>3. CASE x \in Twins(twin)
  BY <1>3 DEF HasUse, Present
<1>4. CASE x \notin Twins(twin)
  BY <1>1, <1>2, <1>4 DEF WasUse, HasUse, Present
<1> QED BY <1>3, <1>4

(* Every instance of a statement is in one of its parts, *)
LEMMA DefPart ==
    ASSUME NEW h, NEW d, NEW c, NEW keep, NEW twin, IsSplit(h, d, c, keep, twin),
           NEW e \in Def, e # c, NEW i, Present(h, d, e, i)
    PROVE  \E x \in Def : WasDef(d, c, x) = e /\ HasDef(h, d, c, keep, x, i)
<1>1. d \in Def /\ c \in Def /\ c # d
  BY DEF IsSplit
<1>2. CASE e = d /\ i \notin keep
  <2>1. WasDef(d, c, c) = e /\ HasDef(h, d, c, keep, c, i)
    BY <1>1, <1>2 DEF WasDef, HasDef, Present
  <2> QED BY <1>1, <2>1
<1>3. CASE ~ (e = d /\ i \notin keep)
  <2>1. WasDef(d, c, e) = e /\ HasDef(h, d, c, keep, e, i)
    BY <1>3 DEF WasDef, HasDef
  <2> QED BY <2>1
<1> QED BY <1>2, <1>3

LEMMA UsePart ==
    ASSUME NEW h, NEW d, NEW c, NEW keep, NEW twin, IsSplit(h, d, c, keep, twin),
           NEW u \in Use, u \notin Twins(twin), NEW i, Present(h, d, u, i)
    PROVE  \E x \in Use : WasUse(twin, x) = u /\ HasUse(h, d, keep, twin, x, i)
<1>1. Twins(twin) \cap h.ops[d] = {}
  BY DEF IsSplit
<1>2. CASE u \in h.ops[d] /\ i \notin keep
  <2>1. twin[u] \in Use /\ WasUse(twin, twin[u]) = u /\ twin[u] \in Twins(twin)
    BY <1>2, TwinFacts DEF WasUse
  <2>2. HasUse(h, d, keep, twin, twin[u], i)
    BY <1>1, <1>2, <2>1 DEF HasUse, Present
  <2> QED BY <2>1, <2>2
<1>3. CASE ~ (u \in h.ops[d] /\ i \notin keep)
  <2>1. WasUse(twin, u) = u /\ HasUse(h, d, keep, twin, u, i)
    BY <1>3 DEF WasUse, HasUse
  <2> QED BY <2>1
<1> QED BY <1>2, <1>3

(* and in no other. *)
LEMMA DefOnce ==
    ASSUME NEW h, NEW d, NEW c, NEW keep, NEW twin, IsSplit(h, d, c, keep, twin),
           NEW x \in Def, NEW y \in Def, WasDef(d, c, x) = WasDef(d, c, y),
           NEW i, HasDef(h, d, c, keep, x, i), HasDef(h, d, c, keep, y, i)
    PROVE  x = y
BY DEF IsSplit, WasDef, HasDef

LEMMA UseOnce ==
    ASSUME NEW h, NEW d, NEW c, NEW keep, NEW twin, IsSplit(h, d, c, keep, twin),
           NEW x \in Use, NEW y \in Use, WasUse(twin, x) = WasUse(twin, y),
           NEW i, HasUse(h, d, keep, twin, x, i), HasUse(h, d, keep, twin, y, i)
    PROVE  x = y
<1>1. CASE x \in Twins(twin) /\ y \in Twins(twin)
  <2>1. TwinOf(twin, x) = TwinOf(twin, y)
    BY <1>1 DEF WasUse
  <2>2. x = twin[TwinOf(twin, x)] /\ y = twin[TwinOf(twin, y)]
    BY <1>1, TwinFacts
  <2> QED BY <2>1, <2>2
<1>2. CASE x \in Twins(twin) /\ y \notin Twins(twin)
  <2>1. y \in h.ops[d]
    BY <1>2, TwinFacts DEF WasUse
  <2> QED BY <1>2, <2>1 DEF HasUse
<1>3. CASE x \notin Twins(twin) /\ y \in Twins(twin)
  <2>1. x \in h.ops[d]
    BY <1>3, TwinFacts DEF WasUse
  <2> QED BY <1>3, <2>1 DEF HasUse
<1>4. CASE x \notin Twins(twin) /\ y \notin Twins(twin)
  BY <1>4 DEF WasUse
<1> QED BY <1>1, <1>2, <1>3, <1>4

(***************************************************************************)
(* splitEdge: every pair of instances that exist and depend on each other  *)
(* is, after the split, in exactly one part of the edge it was in before,  *)
(* and there are no others.                                                *)
(***************************************************************************)
THEOREM SplitPartition ==
    ASSUME NEW h, NEW d, NEW c, NEW keep, NEW twin,
           IsSplit(h, d, c, keep, twin),
           NEW e \in Def, e # c, NEW u \in Use, u \notin Twins(twin), NEW f \in Def, f # c
    PROVE  LET r == SplitDef(h, d, c, keep, twin)
               Parts(n) == {x \in Def : WasDef(d, c, x) = n}
               Reads(n) == {v \in Use : WasUse(twin, v) = n}
           IN  /\ {p \in h.raw[<<e, u>>] : Real(h, d, e, u, p)} = UNION {r.raw[k] : k \in Parts(e) \X Reads(u)}
               /\ {p \in h.war[<<u, e>>] : Real(h, d, u, e, p)} = UNION {r.war[k] : k \in Reads(u) \X Parts(e)}
               /\ {p \in h.waw[<<e, f>>] : Real(h, d, e, f, p)} = UNION {r.waw[k] : k \in Parts(e) \X Parts(f)}
               /\ \A k, l \in Parts(e) \X Reads(u) : k = l \/ r.raw[k] \cap r.raw[l] = {}
               /\ \A k, l \in Reads(u) \X Parts(e) : k = l \/ r.war[k] \cap r.war[l] = {}
               /\ \A k, l \in Parts(e) \X Parts(f) : k = l \/ r.waw[k] \cap r.waw[l] = {}
<1> DEFINE r == SplitDef(h, d, c, keep, twin)
           Parts(n) == {x \in Def : WasDef(d, c, x) = n}
           Reads(n) == {v \in Use : WasUse(twin, v) = n}
<1>1. /\ \A x \in Def, v \in Use : \A p :
            p \in r.raw[<<x, v>>] <=>
              /\ p \in h.raw[<<WasDef(d, c, x), WasUse(twin, v)>>]
              /\ HasDef(h, d, c, keep, x, p[1]) /\ HasUse(h, d, keep, twin, v, p[2])
      /\ \A x \in Def, v \in Use : \A p :
            p \in r.war[<<v, x>>] <=>
              /\ p \in h.war[<<WasUse(twin, v), WasDef(d, c, x)>>]
              /\ HasUse(h, d, keep, twin, v, p[1]) /\ HasDef(h, d, c, keep, x, p[2])
      /\ \A x, y \in Def : \A p :
            p \in r.waw[<<x, y>>] <=>
              /\ p \in h.waw[<<WasDef(d, c, x), WasDef(d, c, y)>>]
              /\ HasDef(h, d, c, keep, x, p[1]) /\ HasDef(h, d, c, keep, y, p[2])
  BY SplitFacts
<1> HIDE DEF r
<1>9. ASSUME NEW n \in Def, n # c, NEW i, Present(h, d, n, i)
      PROVE  \E x \in Parts(n) : HasDef(h, d, c, keep, x, i)
  BY <1>9, DefPart
<1>10. ASSUME NEW n, NEW x \in Parts(n), NEW y \in Parts(n), NEW i,
              HasDef(h, d, c, keep, x, i), HasDef(h, d, c, keep, y, i)
       PROVE  x = y
  <2>1. WasDef(d, c, x) = WasDef(d, c, y)
    OBVIOUS
  <2> QED BY <1>10, <2>1, DefOnce
<1>11. ASSUME NEW n \in Use, n \notin Twins(twin), NEW i, Present(h, d, n, i)
       PROVE  \E x \in Reads(n) : HasUse(h, d, keep, twin, x, i)
  BY <1>11, UsePart
<1>12. ASSUME NEW n, NEW x \in Reads(n), NEW y \in Reads(n), NEW i,
              HasUse(h, d, keep, twin, x, i), HasUse(h, d, keep, twin, y, i)
       PROVE  x = y
  <2>1. WasUse(twin, x) = WasUse(twin, y)
    OBVIOUS
  <2> QED BY <1>12, <2>1, UseOnce
<1>2. ASSUME NEW p \in h.raw[<<e, u>>], Real(h, d, e, u, p)
      PROVE  /\ \E k \in Parts(e) \X Reads(u) : p \in r.raw[k]
             /\ \A k, l \in Parts(e) \X Reads(u) : p \in r.raw[k] /\ p \in r.raw[l] => k = l
  <2>1. Present(h, d, e, p[1]) /\ Present(h, d, u, p[2])
    BY <1>2 DEF Real
  <2>2. PICK x \in Parts(e) : HasDef(h, d, c, keep, x, p[1])
    BY <2>1, <1>9
  <2>3. PICK v \in Reads(u) : HasUse(h, d, keep, twin, v, p[2])
    BY <2>1, <1>11
  <2>4. p \in r.raw[<<x, v>>] /\ <<x, v>> \in Parts(e) \X Reads(u)
    BY <1>1, <1>2, <2>2, <2>3
  <2>5. ASSUME NEW a \in Parts(e), NEW b \in Reads(u), p \in r.raw[<<a, b>>],
               NEW y \in Parts(e), NEW z \in Reads(u), p \in r.raw[<<y, z>>]
        PROVE  a = y /\ b = z
    <3>1. HasDef(h, d, c, keep, a, p[1]) /\ HasUse(h, d, keep, twin, b, p[2])
          /\ HasDef(h, d, c, keep, y, p[1]) /\ HasUse(h, d, keep, twin, z, p[2])
      BY <1>1, <2>5
    <3> HIDE DEF Parts, Reads
    <3>2. a = y
      BY <3>1, <1>10
    <3>3. b = z
      BY <3>1, <1>12
    <3> QED BY <3>2, <3>3
  <2>6. ASSUME NEW k \in Parts(e) \X Reads(u), NEW l \in Parts(e) \X Reads(u), p \in r.raw[k], p \in r.raw[l]
        PROVE  k = l
    <3>1. PICK a \in Parts(e), b \in Reads(u) : k = <<a, b>>
      OBVIOUS
    <3>2. PICK y \in Parts(e), z \in Reads(u) : l = <<y, z>>
      OBVIOUS
    <3>3. p \in r.raw[<<a, b>>] /\ p \in r.raw[<<y, z>>]
      BY <2>6, <3>1, <3>2
    <3>4. a = y /\ b = z
      BY <2>5, <3>3
    <3> QED BY <3>1, <3>2, <3>4
  <2> QED BY <2>4, <2>6
<1>3. ASSUME NEW p \in h.war[<<u, e>>], Real(h, d, u, e, p)
      PROVE  /\ \E k \in Reads(u) \X Parts(e) : p \in r.war[k]
             /\ \A k, l \in Reads(u) \X Parts(e) : p \in r.war[k] /\ p \in r.war[l] => k = l
  <2>1. Present(h, d, u, p[1]) /\ Present(h, d, e, p[2])
    BY <1>3 DEF Real
  <2>2. PICK x \in Parts(e) : HasDef(h, d, c, keep, x, p[2])
    BY <2>1, <1>9
  <2>3. PICK v \in Reads(u) : HasUse(h, d, keep, twin, v, p[1])
    BY <2>1, <1>11
  <2>4. p \in r.war[<<v, x>>] /\ <<v, x>> \in Reads(u) \X Parts(e)
    BY <1>1, <1>3, <2>2, <2>3
  <2>5. ASSUME NEW a \in Reads(u), NEW b \in Parts(e), p \in r.war[<<a, b>>],
               NEW y \in Reads(u), NEW z \in Parts(e), p \in r.war[<<y, z>>]
        PROVE  a = y /\ b = z
    <3>1. HasUse(h, d, keep, twin, a, p[1]) /\ HasDef(h, d, c, keep, b, p[2])
          /\ HasUse(h, d, keep, twin, y, p[1]) /\ HasDef(h, d, c, keep, z, p[2])
      BY <1>1, <2>5
    <3> HIDE DEF Parts, Reads
    <3>2. a = y
      BY <3>1, <1>12
    <3>3. b = z
      BY <3>1, <1>10
    <3> QED BY <3>2, <3>3
  <2>6. ASSUME NEW k \in Reads(u) \X Parts(e), NEW l \in Reads(u) \X Parts(e), p \in r.war[k], p \in r.war[l]
        PROVE  k = l
    <3>1. PICK a \in Reads(u), b \in Parts(e) : k = <<a, b>>
      OBVIOUS
    <3>2. PICK y \in Reads(u), z \in Parts(e) : l = <<y, z>>
      OBVIOUS
    <3>3. p \in r.war[<<a, b>>] /\ p \in r.war[<<y, z>>]
      BY <2>6, <3>1, <3>2
    <3>4. a = y /\ b = z
      BY <2>5, <3>3
    <3> QED BY <3>1, <3>2, <3>4
  <2> QED BY <2>4, <2>6
<1>4. ASSUME NEW p \in h.waw[<<e, f>>], Real(h, d, e, f, p)
      PROVE  /\ \E k \in Parts(e) \X Parts(f) : p \in r.waw[k]
             /\ \A k, l \in Parts(e) \X Parts(f) : p \in r.waw[k] /\ p \in r.waw[l] => k = l
  <2>1. Present(h, d, e, p[1]) /\ Present(h, d, f, p[2])
    BY <1>4 DEF Real
  <2>2. PICK x \in Parts(e) : HasDef(h, d, c, keep, x, p[1])
    BY <2>1, <1>9
  <2>3. PICK v \in Parts(f) : HasDef(h, d, c, keep, v, p[2])
    BY <2>1, <1>9
  <2>4. p \in r.waw[<<x, v>>] /\ <<x, v>> \in Parts(e) \X Parts(f)
    BY <1>1, <1>4, <2>2, <2>3
  <2>5. ASSUME NEW a \in Parts(e), NEW b \in Parts(f), p \in r.waw[<<a, b>>],
               NEW y \in Parts(e), NEW z \in Parts(f), p \in r.waw[<<y, z>>]
        PROVE  a = y /\ b = z
    <3>1. HasDef(h, d, c, keep, a, p[1]) /\ HasDef(h, d, c, keep, b, p[2])
          /\ HasDef(h, d, c, keep, y, p[1]) /\ HasDef(h, d, c, keep, z, p[2])
      BY <1>1, <2>5
    <3> HIDE DEF Parts, Reads
    <3>2. a = y
      BY <3>1, <1>10
    <3>3. b = z
      BY <3>1, <1>10
    <3> QED BY <3>2, <3>3
  <2>6. ASSUME NEW k \in Parts(e) \X Parts(f), NEW l \in Parts(e) \X Parts(f), p \in r.waw[k], p \in r.waw[l]
        PROVE  k = l
    <3>1. PICK a \in Parts(e), b \in Parts(f) : k = <<a, b>>
      OBVIOUS
    <3>2. PICK y \in Parts(e), z \in Parts(f) : l = <<y, z>>
      OBVIOUS
    <3>3. p \in r.waw[<<a, b>>] /\ p \in r.waw[<<y, z>>]
      BY <2>6, <3>1, <3>2
    <3>4. a = y /\ b = z
      BY <2>5, <3>3
    <3> QED BY <3>1, <3>2, <3>4
  <2> QED BY <2>4, <2>6
<1>5. /\ \A k \in Parts(e) \X Reads(u) : r.raw[k] \subseteq {p \in h.raw[<<e, u>>] : Real(h, d, e, u, p)}
      /\ \A k \in Reads(u) \X Parts(e) : r.war[k] \subseteq {p \in h.war[<<u, e>>] : Real(h, d, u, e, p)}
      /\ \A k \in Parts(e) \X Parts(f) : r.waw[k] \subseteq {p \in h.waw[<<e, f>>] : Real(h, d, e, f, p)}
  <2>1. ASSUME NEW k \in Parts(e) \X Reads(u), NEW p \in r.raw[k]
        PROVE  p \in h.raw[<<e, u>>] /\ Real(h, d, e, u, p)
    <3>1. PICK a \in Parts(e), b \in Reads(u) : k = <<a, b>>
      OBVIOUS
    <3>2. p \in h.raw[<<e, u>>] /\ HasDef(h, d, c, keep, a, p[1]) /\ HasUse(h, d, keep, twin, b, p[2])
      BY <1>1, <2>1, <3>1
    <3>3. Present(h, d, e, p[1])
      BY <3>2, DefExists
    <3>4. Present(h, d, u, p[2])
      BY <3>2, UseExists
    <3> QED BY <3>2, <3>3, <3>4 DEF Real
  <2>2. ASSUME NEW k \in Reads(u) \X Parts(e), NEW p \in r.war[k]
        PROVE  p \in h.war[<<u, e>>] /\ Real(h, d, u, e, p)
    <3>1. PICK a \in Reads(u), b \in Parts(e) : k = <<a, b>>
      OBVIOUS
    <3>2. p \in h.war[<<u, e>>] /\ HasUse(h, d, keep, twin, a, p[1]) /\ HasDef(h, d, c, keep, b, p[2])
      BY <1>1, <2>2, <3>1
    <3>3. Present(h, d, u, p[1])
      BY <3>2, UseExists
    <3>4. Present(h, d, e, p[2])
      BY <3>2, DefExists
    <3> QED BY <3>2, <3>3, <3>4 DEF Real
  <2>3. ASSUME NEW k \in Parts(e) \X Parts(f), NEW p \in r.waw[k]
        PROVE  p \in h.waw[<<e, f>>] /\ Real(h, d, e, f, p)
    <3>1. PICK a \in Parts(e), b \in Parts(f) : k = <<a, b>>
      OBVIOUS
    <3>2. p \in h.waw[<<e, f>>] /\ HasDef(h, d, c, keep, a, p[1]) /\ HasDef(h, d, c, keep, b, p[2])
      BY <1>1, <2>3, <3>1
    <3>3. Present(h, d, e, p[1])
      BY <3>2, DefExists
    <3>4. Present(h, d, f, p[2])
      BY <3>2, DefExists
    <3> QED BY <3>2, <3>3, <3>4 DEF Real
  <2> QED BY <2>1, <2>2, <2>3
<1> DEFINE rw == Parts(e) \X Reads(u)
           wr == Reads(u) \X Parts(e)
           ww == Parts(e) \X Parts(f)
<1> HIDE DEF Parts, Reads
<1>6. /\ {p \in h.raw[<<e, u>>] : Real(h, d, e, u, p)} = UNION {r.raw[k] : k \in rw}
      /\ \A k, l \in rw : k = l \/ r.raw[k] \cap r.raw[l] = {}
  BY <1>2, <1>5
<1>7. /\ {p \in h.war[<<u, e>>] : Real(h, d, u, e, p)} = UNION {r.war[k] : k \in wr}
      /\ \A k, l \in wr : k = l \/ r.war[k] \cap r.war[l] = {}
  BY <1>3, <1>5
<1>8. /\ {p \in h.waw[<<e, f>>] : Real(h, d, e, f, p)} = UNION {r.waw[k] : k \in ww}
      /\ \A k, l \in ww : k = l \/ r.waw[k] \cap r.waw[l] = {}
  BY <1>4, <1>5
<1> QED BY <1>6, <1>7, <1>8 DEF Parts, Reads, r

(***************************************************************************)
(* The used domain of a statement (DefNode::UsedDomain) is what            *)
(* restrictStmt keeps of a statement that nobody else needs.  A split      *)
(* redirects reads to copies of their statements without a notification;   *)
(* if the dependences of reads relate instances that exist (see            *)
(* ReadEdgesInDomains), what the cache holds is what is read all the same. *)
(***************************************************************************)
UsedAgrees(h, x) == h.used[x] # Miss => h.used[x] = RawDomain(h, x)

THEOREM SplitUsed ==
    ASSUME NEW h, NEW d, NEW c, NEW keep, NEW twin, IsSplit(h, d, c, keep, twin),
           \A x \in Def, u \in Use : \A p \in h.raw[<<x, u>>] : Real(h, d, x, u, p),
           \A x \in Def : UsedAgrees(h, x)
    PROVE  \A x \in Def : UsedAgrees(KeepInstances(SplitDef(h, d, c, keep, twin), d, keep), x)
<1> DEFINE r == SplitDef(h, d, c, keep, twin)
           q == KeepInstances(r, d, keep)
<1>1. /\ r \in Graph /\ h \in Graph /\ d \in Def /\ c \in Def /\ c # d
      /\ \A x \in Def : r.used[x] = IF x = c THEN Miss ELSE h.used[x]
      /\ \A x \in Def, v \in Use : \A p :
            p \in r.raw[<<x, v>>] <=>
              /\ p \in h.raw[<<WasDef(d, c, x), WasUse(twin, v)>>]
              /\ HasDef(h, d, c, keep, x, p[1]) /\ HasUse(h, d, keep, twin, v, p[2])
  <2>1. h \in Graph /\ d \in Def /\ c \in Def /\ c # d
    BY DEF IsSplit
  <2>2. r \in Graph /\ \A x \in Def : r.used[x] = IF x = c THEN Miss ELSE h.used[x]
    BY SplitFacts
  <2>3. \A x \in Def, v \in Use : \A p :
            p \in r.raw[<<x, v>>] <=>
              /\ p \in h.raw[<<WasDef(d, c, x), WasUse(twin, v)>>]
              /\ HasDef(h, d, c, keep, x, p[1]) /\ HasUse(h, d, keep, twin, v, p[2])
    BY SplitFacts
  <2> QED BY <2>1, <2>2, <2>3
<1> HIDE DEF r
<1>2. /\ q.raw = r.raw
      /\ \A x \in Def : q.used[x] = IF x = d /\ r.used[x] # Miss THEN r.used[x] \cap keep ELSE r.used[x]
  BY <1>1 DEF KeepInstances, Graph
<1>3. \A x \in Def : RawDomain(q, x) = RawDomain(r, x)
  BY <1>2 DEF RawDomain
<1> HIDE DEF q
<1>4. ASSUME NEW x \in Def, x # c
      PROVE  RawDomain(r, x) = IF x = d THEN RawDomain(h, x) \cap keep ELSE RawDomain(h, x)
  <2>1. ASSUME NEW i \in RawDomain(r, x)
        PROVE  i \in RawDomain(h, x) /\ (x = d => i \in keep)
    <3>1. PICK v \in Use, j \in Inst : <<i, j>> \in r.raw[<<x, v>>]
      BY DEF RawDomain
    <3>2. /\ <<i, j>> \in h.raw[<<WasDef(d, c, x), WasUse(twin, v)>>]
          /\ HasDef(h, d, c, keep, x, <<i, j>>[1])
      BY <1>1, <3>1
    <3>3. WasDef(d, c, x) = x /\ WasUse(twin, v) \in Use
      BY <1>4, TwinFacts DEF WasDef
    <3>4. i \in Inst
      BY <2>1 DEF RawDomain
    <3> QED BY <3>2, <3>3, <3>4 DEF RawDomain, HasDef
  <2>2. ASSUME NEW i \in RawDomain(h, x), x = d => i \in keep
        PROVE  i \in RawDomain(r, x)
    <3>1. PICK u \in Use, j \in Inst : <<i, j>> \in h.raw[<<x, u>>]
      BY DEF RawDomain
    <3>2. u \notin Twins(twin)
      BY <3>1 DEF IsSplit
    <3>3. Present(h, d, u, <<i, j>>[2])
      BY <3>1 DEF Real
    <3>4. Present(h, d, u, j)
      BY <3>3
    <3>5. PICK v \in Use : WasUse(twin, v) = u /\ HasUse(h, d, keep, twin, v, j)
      BY <3>2, <3>4, UsePart
    <3>6. HasDef(h, d, c, keep, x, i) /\ WasDef(d, c, x) = x
      BY <1>4, <2>2 DEF HasDef, WasDef
    <3>7. <<i, j>>[1] = i /\ <<i, j>>[2] = j
      OBVIOUS
    <3>8. <<i, j>> \in r.raw[<<x, v>>]
      BY <1>1, <3>1, <3>5, <3>6, <3>7
    <3>9. i \in Inst
      BY <2>2 DEF RawDomain
    <3> QED BY <3>8, <3>9 DEF RawDomain
  <2> QED BY <2>1, <2>2
<1>5. ASSUME NEW x \in Def
      PROVE  UsedAgrees(q, x)
  <2>1. r.used[c] = Miss /\ (x # c => r.used[x] = h.used[x])
    BY <1>1
  <2>2. CASE x = c
    BY <1>1, <1>2, <2>1, <2>2 DEF UsedAgrees
  <2>3. CASE x = d
    <3>1. RawDomain(q, d) = RawDomain(h, d) \cap keep
      BY <1>1, <1>3, <1>4
    <3>2. q.used[d] = IF h.used[d] # Miss THEN h.used[d] \cap keep ELSE Miss
      BY <1>1, <1>2, <2>1, <2>3
    <3>3. h.used[d] # Miss => h.used[d] = RawDomain(h, d)
      BY <1>1 DEF UsedAgrees
    <3> QED BY <2>3, <3>1, <3>2, <3>3 DEF UsedAgrees
  <2>4. CASE x # c /\ x # d
    BY <1>2, <1>3, <1>4, <2>1, <2>4 DEF UsedAgrees
  <2> QED BY <2>2, <2>3, <2>4
<1> QED BY <1>5 DEF q, r
=============================================================================
