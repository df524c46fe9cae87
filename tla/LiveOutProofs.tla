--------------------------- MODULE LiveOutProofs ---------------------------
(***************************************************************************)
(* isLiveOut gives one answer, whatever the order of its searches, and the *)
(* right one for memory of the function itself.                            *)
(*                                                                         *)
(* The search keeps no record of the users it is done with.  The proof     *)
(* does: SearchedAll says that there is such a set T, without a live user  *)
(* in it, and that what its members lead to is in T or still on the list.  *)
(***************************************************************************)
EXTENDS LiveOut, TLAPS

LEMMA ClosureLeast ==
    ASSUME NEW start, NEW next, NEW S \in SUBSET DOMAIN next, Closed(S, start, next)
    PROVE  Closure(start, next) \subseteq S
  BY DEF Closure

LEMMA ClosureClosed ==
    ASSUME NEW start, NEW next, start \subseteq DOMAIN next,
           \A x \in DOMAIN next : next[x] \subseteq DOMAIN next
    PROVE  Closed(Closure(start, next), start, next)
<1>1. start \subseteq Closure(start, next)
  BY DEF Closure, Closed
<1>2. ASSUME NEW x \in Closure(start, next), NEW z \in next[x]
      PROVE  z \in Closure(start, next)
  <2>1. x \in DOMAIN next /\ z \in DOMAIN next
    BY <1>2 DEF Closure
  <2>2. ASSUME NEW S \in SUBSET DOMAIN next, Closed(S, start, next) PROVE z \in S
    <3>1. x \in S
      BY <1>2, <2>2 DEF Closure
    <3> QED BY <1>2, <2>2, <3>1 DEF Closed
  <2> QED BY <2>1, <2>2 DEF Closure
<1> QED BY <1>1, <1>2 DEF Closed

LEMMA AfterClosed ==
    ASSUME NEW p, IsProgram(p)
    PROVE  /\ After(p) \subseteq Block
           /\ p.exit \in After(p)
           /\ \A b \in After(p) : p.succ[b] \subseteq After(p)
<1>1. DOMAIN p.succ = Block /\ {p.exit} \subseteq Block /\ \A b \in Block : p.succ[b] \subseteq Block
  BY DEF IsProgram
<1>2. Closed(After(p), {p.exit}, p.succ)
  BY <1>1, ClosureClosed DEF After
<1>3. After(p) \subseteq Block
  BY <1>1 DEF After, Closure
<1> QED BY <1>2, <1>3 DEF Closed

LEMMA AskedType ==
    ASSUME NEW p, IsProgram(p)
    PROVE  /\ DOMAIN Asked(p) = Value
           /\ \A u \in Value : Asked(p)[u] \subseteq Value
           /\ \A u \in Value : Asked(p)[u] =
                 IF LiveUse(p, u) \/ SkippedUse(p, u) THEN {} ELSE p.users[u]
           /\ p.users[BasePtr] \subseteq Value
  BY DEF Asked, IsProgram

LEMMA UsersClosed ==
    ASSUME NEW p, IsProgram(p)
    PROVE  LET R == Closure(p.users[BasePtr], Asked(p))
           IN  R \subseteq Value /\ p.users[BasePtr] \subseteq R /\ \A u \in R : Asked(p)[u] \subseteq R
<1>1. Closed(Closure(p.users[BasePtr], Asked(p)), p.users[BasePtr], Asked(p))
  BY AskedType, ClosureClosed
<1>2. Closure(p.users[BasePtr], Asked(p)) \subseteq Value
  BY AskedType DEF Closure
<1> QED BY <1>1, <1>2 DEF Closed

-----------------------------------------------------------------------------
BlocksOK ==
    /\ answer = "asked" => succBlocks = {}
    /\ answer = "blocks" =>
          /\ worklist \cup succBlocks \subseteq After(ir)
          /\ ir.exit \in worklist \cup succBlocks
          /\ \A b \in succBlocks : ir.succ[b] \subseteq worklist \cup succBlocks
    /\ answer = "users" => succBlocks = After(ir)
    /\ answer \in {"blocks", "users", "notLive"} => ir.base \notin {"argument", "external"}

(* T: the users the search is done with. *)
Searched(T) ==
    /\ ir.users[BasePtr] \subseteq T \cup userWorklist
    /\ \A u \in T : ~ LiveUse(ir, u) /\ Asked(ir)[u] \subseteq T \cup userWorklist

SearchedAll == \E T \in SUBSET Value : Searched(T)

UsersOK ==
    /\ answer = "users" => userWorklist \subseteq Closure(ir.users[BasePtr], Asked(ir)) /\ SearchedAll
    /\ answer = "notLive" => userWorklist = {} /\ SearchedAll
    /\ answer = "live" => FoundLive(ir)

SearchInv == TypeOK /\ BlocksOK /\ UsersOK

LEMMA InitSearch == Init => SearchInv
  BY ProgramsAssumption DEF Init, SearchInv, TypeOK, BlocksOK, UsersOK

LEMMA AskKept == SearchInv /\ Ask => SearchInv'
<1> SUFFICES ASSUME SearchInv, Ask PROVE SearchInv'
  OBVIOUS
<1> USE DEF SearchInv, Ask
<1>1. TypeOK'
  BY DEF TypeOK, IsProgram
<1>2. BlocksOK'
  <2>1. ir.exit \in After(ir)
    BY AfterClosed DEF TypeOK
  <2> QED BY <2>1 DEF BlocksOK
<1>3. UsersOK'
  BY DEF UsersOK, FoundLive
<1> QED BY <1>1, <1>2, <1>3

LEMMA VisitBlockKept == ASSUME NEW b \in Block PROVE SearchInv /\ VisitBlock(b) => SearchInv'
<1> SUFFICES ASSUME SearchInv, VisitBlock(b) PROVE SearchInv'
  OBVIOUS
<1> USE DEF SearchInv, VisitBlock
<1>1. TypeOK'
  BY DEF TypeOK, IsProgram
<1>2. BlocksOK'
  <2>1. ir.succ[b] \subseteq After(ir)
    BY AfterClosed DEF TypeOK, BlocksOK
  <2> QED BY <2>1 DEF BlocksOK
<1>3. UsersOK'
  BY DEF UsersOK
<1> QED BY <1>1, <1>2, <1>3

LEMMA CollectUsersKept == SearchInv /\ CollectUsers => SearchInv'
<1> SUFFICES ASSUME SearchInv, CollectUsers PROVE SearchInv'
  OBVIOUS
<1> USE DEF SearchInv, CollectUsers
<1>1. TypeOK'
  BY DEF TypeOK, IsProgram
<1>2. BlocksOK'
  <2>1. DOMAIN ir.succ = Block /\ succBlocks \in SUBSET Block
    BY DEF TypeOK, IsProgram
  <2>2. Closed(succBlocks, {ir.exit}, ir.succ)
    BY DEF BlocksOK, Closed
  <2>3. After(ir) \subseteq succBlocks
    BY <2>1, <2>2, ClosureLeast DEF After
  <2> QED BY <2>3 DEF BlocksOK
<1>3. UsersOK'
  <2>1. userWorklist' \subseteq Closure(ir.users[BasePtr], Asked(ir))
    BY UsersClosed DEF TypeOK
  <2>2. SearchedAll'
    <3>1. Searched({})'
      BY DEF Searched
    <3> QED BY <3>1 DEF SearchedAll
  <2> QED BY <2>1, <2>2 DEF UsersOK
<1> QED BY <1>1, <1>2, <1>3

LEMMA VisitUserKept == ASSUME NEW u \in Value PROVE SearchInv /\ VisitUser(u) => SearchInv'
<1> SUFFICES ASSUME SearchInv, VisitUser(u) PROVE SearchInv'
  OBVIOUS
<1> DEFINE R == Closure(ir.users[BasePtr], Asked(ir))
<1>1. /\ answer = "users" /\ u \in userWorklist /\ IsProgram(ir) /\ succBlocks = After(ir)
      /\ ir' = ir /\ succBlocks' = succBlocks /\ worklist' = worklist
      /\ answer' = IF LiveUse(ir, u) THEN "live" ELSE answer
      /\ userWorklist' = (userWorklist \ {u}) \cup Asked(ir)[u]
      /\ u \in R /\ userWorklist \subseteq R
  BY AskedType DEF SearchInv, TypeOK, BlocksOK, UsersOK, VisitUser, LiveUse, SkippedUse
<1> HIDE DEF R
<1>2. TypeOK'
  BY <1>1, AskedType DEF SearchInv, TypeOK
<1>3. BlocksOK'
  BY <1>1 DEF SearchInv, BlocksOK
<1>4. CASE LiveUse(ir, u)
  <2>1. FoundLive(ir)'
    BY <1>1, <1>4 DEF FoundLive, R
  <2> QED BY <1>1, <1>2, <1>3, <1>4, <2>1 DEF SearchInv, UsersOK
<1>5. CASE ~ LiveUse(ir, u)
  <2>1. userWorklist' \subseteq R
    BY <1>1, UsersClosed DEF R
  <2>2. PICK T \in SUBSET Value : Searched(T)
    BY <1>1 DEF SearchInv, UsersOK, SearchedAll
  <2>3. Searched(T \cup {u})'
    BY <1>1, <1>5, <2>2 DEF Searched
  <2>4. SearchedAll'
    BY <2>3 DEF SearchedAll
  <2> QED BY <1>1, <1>2, <1>3, <1>5, <2>1, <2>4 DEF SearchInv, UsersOK, R
<1> QED BY <1>4, <1>5

LEMMA NoUserLeftKept == SearchInv /\ NoUserLeft => SearchInv'
  BY DEF SearchInv, NoUserLeft, TypeOK, BlocksOK, UsersOK, SearchedAll, Searched

LEMMA SearchStep == SearchInv /\ [Next]_vars => SearchInv'
<1> SUFFICES ASSUME SearchInv, [Next]_vars PROVE SearchInv'
  OBVIOUS
<1>1. CASE UNCHANGED vars
  BY <1>1 DEF vars, SearchInv, TypeOK, BlocksOK, UsersOK, SearchedAll, Searched
<1> QED BY <1>1, AskKept, VisitBlockKept, CollectUsersKept, VisitUserKept, NoUserLeftKept DEF Next

LEMMA SearchInvariant == Spec => []SearchInv
  BY InitSearch, SearchStep, PTL DEF Spec

-----------------------------------------------------------------------------
(* isLiveOut only ever holds blocks and users in its sets. *)
THEOREM SearchTypeCorrect == Spec => []TypeOK
<1>1. SearchInv => TypeOK
  BY DEF SearchInv
<1> QED BY <1>1, SearchInvariant, PTL

LEMMA NothingFound ==
    ASSUME SearchInv, answer = "notLive"
    PROVE  \E T \in SUBSET Value :
              /\ ir.users[BasePtr] \subseteq T
              /\ \A u \in T : ~ LiveUse(ir, u) /\ Asked(ir)[u] \subseteq T
  BY DEF SearchInv, UsersOK, SearchedAll, Searched

(***************************************************************************)
(* isLiveOut answers the same, in whatever order it walks its pointer sets.*)
(***************************************************************************)
THEOREM AnswerCorrect == Spec => []AnswerDetermined
<1>1. SearchInv => AnswerDetermined
  <2> SUFFICES ASSUME SearchInv, answer = "notLive" PROVE ~ FoundLive(ir)
    BY DEF SearchInv, UsersOK, AnswerDetermined
  <2>1. PICK T \in SUBSET Value :
           /\ ir.users[BasePtr] \subseteq T
           /\ \A u \in T : ~ LiveUse(ir, u) /\ Asked(ir)[u] \subseteq T
    BY NothingFound
  <2>2. IsProgram(ir) /\ DOMAIN Asked(ir) = Value
    BY AskedType DEF SearchInv, TypeOK
  <2>3. Closure(ir.users[BasePtr], Asked(ir)) \subseteq T
    <3>1. Closed(T, ir.users[BasePtr], Asked(ir))
      BY <2>1 DEF Closed
    <3> QED BY <2>2, <3>1, ClosureLeast
  <2>4. ir.base \notin {"argument", "external"}
    BY DEF SearchInv, BlocksOK
  <2> QED BY <2>1, <2>3, <2>4 DEF FoundLive
<1> QED BY <1>1, SearchInvariant, PTL

(***************************************************************************)
(* Memory of the function itself that isLiveOut calls dead is not read     *)
(* after the Scop.                                                         *)
(***************************************************************************)
THEOREM LocalCorrect == Spec => []LocalNotLiveUnread
<1>1. SearchInv => LocalNotLiveUnread
  <2> SUFFICES ASSUME SearchInv, Local(ir), answer = "notLive" PROVE ~ ReadLater(ir)
    BY DEF LocalNotLiveUnread, NotLiveUnread
  <2>1. PICK T \in SUBSET Value :
           /\ ir.users[BasePtr] \subseteq T
           /\ \A u \in T : ~ LiveUse(ir, u) /\ Asked(ir)[u] \subseteq T
    BY NothingFound
  <2>2. IsProgram(ir)
    BY DEF SearchInv, TypeOK
  <2> DEFINE next == [v \in Value \cup {BasePtr} |-> {u \in ir.users[v] : ir.kind[u] = "address"}]
             S == {BasePtr} \cup {u \in T : ir.kind[u] = "address"}
  <2>3. ASSUME NEW v \in S PROVE ir.users[v] \subseteq T
    <3>1. CASE v = BasePtr
      BY <2>1, <3>1
    <3>2. CASE v \in T /\ ir.kind[v] = "address"
      <4>1. ~ LiveUse(ir, v) /\ ~ SkippedUse(ir, v)
        BY <3>2 DEF LiveUse, SkippedUse, LiveKind, SkippedKind
      <4> QED BY <2>1, <2>2, <3>2, <4>1, AskedType
    <3> QED BY <2>3, <3>1, <3>2
  <2>4. Pointers(ir) \subseteq S
    <3>1. S \in SUBSET DOMAIN next
      OBVIOUS
    <3>2. Closed(S, {BasePtr} \cup ir.aliases, next)
      BY <2>3, <3>1 DEF Closed, Local
    <3> HIDE DEF S, next
    <3>3. Closure({BasePtr} \cup ir.aliases, next) \subseteq S
      BY <3>1, <3>2, ClosureLeast
    <3> QED BY <3>3 DEF Pointers, next
  <2>5. ASSUME NEW v \in Pointers(ir), NEW u \in ir.users[v], Reads(ir, u) PROVE ~ RunsLater(ir, u)
    <3>1. u \in T /\ ~ LiveUse(ir, u)
      BY <2>1, <2>3, <2>4, <2>5
    <3> QED BY <2>5, <3>1 DEF Local, Reads, RunsLater, LiveUse, LiveKind
  <2> QED BY <2>5 DEF ReadLater
<1> QED BY <1>1, SearchInvariant, PTL
=============================================================================
