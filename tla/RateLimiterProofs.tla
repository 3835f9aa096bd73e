------------------------- MODULE RateLimiterProofs -------------------------
(***************************************************************************)
(* The overshoot of the rate limiter's deque, for every number of threads, *)
(* window and limit.  Overshoot is not inductive: a thread between its     *)
(* length test and its append is a stamp the deque does not hold yet.      *)
(* OvershootInv counts those threads too.  The table of remembered         *)
(* messages, which the limiter does not touch: what is recalled runs       *)
(* forward, because ids and timestamps grow together.  And the window of a *)
(* client whose calls do not overlap: its deque is the ledger of the calls *)
(* let through (SerialInv).                                                *)
(***************************************************************************)
EXTENDS RateLimiter, ChatMemory, FiniteSetTheorems, WellFoundedInduction, TLAPS

\* Threads that passed the length test and have not appended yet.
Appending == {t \in Threads : pc[t] = "append"}

OvershootInv ==
    /\ TypeOK
    /\ Cardinality(Inside) <= overlap
    /\ Len(bucket) + Cardinality(Appending) <= MaxRequests + overlap - 1

\* Sets of threads are finite, so their cardinalities are naturals.
LEMMA ThreadSets ==
    ASSUME NEW S \in SUBSET Threads
    PROVE  IsFiniteSet(S) /\ Cardinality(S) \in Nat
  BY LimiterAssumption, FS_Subset, FS_CardinalityType

\* One thread entering or leaving a set of threads moves its cardinality by one.
LEMMA CountAdd ==
    ASSUME NEW S \in SUBSET Threads, NEW t \in Threads, t \notin S
    PROVE  Cardinality(S \cup {t}) = Cardinality(S) + 1
  BY ThreadSets, FS_AddElement

LEMMA CountRemove ==
    ASSUME NEW S \in SUBSET Threads, NEW t \in S
    PROVE  Cardinality(S \ {t}) = Cardinality(S) - 1
  BY ThreadSets, FS_RemoveElement

LEMMA CountSubset ==
    ASSUME NEW S \in SUBSET Threads, NEW T \in SUBSET S
    PROVE  Cardinality(T) <= Cardinality(S)
  BY ThreadSets, FS_Subset

LEMMA InitOvershoot == Init => OvershootInv
  <1> SUFFICES ASSUME Init PROVE OvershootInv
    OBVIOUS
  <1>1. Inside = {} /\ Appending = {}
    BY DEF Init, Inside, Appending
  <1>2. Cardinality({}) = 0
    BY FS_EmptySet
  <1>3. TypeOK
    BY LimiterAssumption DEF Init, TypeOK, Times, Labels, Outcomes
  <1> QED
    BY <1>1, <1>2, <1>3, LimiterAssumption DEF OvershootInv, Init

\* Every step keeps the types.
LEMMA NextType == TypeOK /\ [Next]_vars => TypeOK'
  <1> SUFFICES ASSUME TypeOK, [Next]_vars PROVE TypeOK'
    OBVIOUS
  <1> USE LimiterAssumption DEF TypeOK, Labels, Outcomes
  <1>1. CASE Tick
    BY <1>1 DEF Tick, Times
  <1>2. ASSUME NEW t \in Threads, Enter(t) PROVE TypeOK'
    BY <1>2 DEF Enter, Goto
  <1>3. ASSUME NEW t \in Threads, TestNonempty(t) PROVE TypeOK'
    BY <1>3 DEF TestNonempty, Goto
  <1>4. ASSUME NEW t \in Threads, TestHead(t) PROVE TypeOK'
    BY <1>4 DEF TestHead, Goto
  <1>5. ASSUME NEW t \in Threads, PopLeft(t) PROVE TypeOK'
    BY <1>5 DEF PopLeft, Goto
  <1>6. ASSUME NEW t \in Threads, HeadVanished(t) PROVE TypeOK'
    BY <1>6 DEF HeadVanished, Answer, Goto
  <1>7. ASSUME NEW t \in Threads, Refuse(t) PROVE TypeOK'
    BY <1>7 DEF Refuse, Answer, Goto
  <1>8. ASSUME NEW t \in Threads, HasRoom(t) PROVE TypeOK'
    BY <1>8 DEF HasRoom, Goto
  <1>9. ASSUME NEW t \in Threads, Admit(t) PROVE TypeOK'
    <2>1. now[t] \in Times
      OBVIOUS
    <2>2. bucket' \in Seq(Times)
      BY <1>9, <2>1 DEF Admit
    <2>3. admissions' \in [Times -> Nat]
      BY <1>9, <2>1 DEF Admit
    <2> QED
      BY <1>9, <2>2, <2>3 DEF Admit, Answer, Goto
  <1>10. CASE UNCHANGED vars
    BY <1>10 DEF vars
  <1> QED
    BY <1>1, <1>2, <1>3, <1>4, <1>5, <1>6, <1>7, <1>8, <1>9, <1>10 DEF Next, Continue

\* A thread that moves among labels other than "append" counts for nothing new.
LEMMA NextOvershoot == OvershootInv /\ [Next]_vars => OvershootInv'
  <1> SUFFICES ASSUME OvershootInv, [Next]_vars PROVE OvershootInv'
    OBVIOUS
  <1>0. TypeOK /\ TypeOK'
    BY NextType DEF OvershootInv
  <1>a. /\ Inside \in SUBSET Threads /\ Appending \in SUBSET Inside
        /\ Inside' \in SUBSET Threads /\ Appending' \in SUBSET Inside'
    BY DEF Inside, Appending
  <1>b. /\ Cardinality(Inside) \in Nat /\ Cardinality(Inside') \in Nat
        /\ Cardinality(Appending) \in Nat /\ Cardinality(Appending') \in Nat
        /\ Len(bucket) \in Nat /\ Len(bucket') \in Nat
    <2>1. Appending \in SUBSET Threads /\ Appending' \in SUBSET Threads
      BY <1>a
    <2> QED
      BY <1>0, <1>a, <2>1, ThreadSets DEF TypeOK
  <1>c. overlap \in Nat \ {0} /\ MaxRequests \in Nat \ {0} /\ overlap' = overlap
    <2>1. overlap' = overlap
      BY DEF Next, Tick, Continue, Enter, TestNonempty, TestHead, PopLeft, HeadVanished,
             Refuse, HasRoom, Admit, vars
    <2> QED
      BY <1>0, <2>1, LimiterAssumption DEF TypeOK
  <1>1. ASSUME NEW t \in Threads, Enter(t) PROVE OvershootInv'
    <2>1. t \notin Inside /\ Inside' = Inside \cup {t} /\ Appending' = Appending
      BY <1>0, <1>1 DEF Enter, Goto, Inside, Appending, TypeOK
    <2>2. Cardinality(Inside') = Cardinality(Inside) + 1
      BY <1>a, <2>1, CountAdd
    <2>3. Cardinality(Inside) < overlap /\ bucket' = bucket
      BY <1>1 DEF Enter
    <2> QED
      BY <1>0, <1>b, <1>c, <2>1, <2>2, <2>3 DEF OvershootInv
  <1>2. ASSUME NEW t \in Threads, TestNonempty(t) \/ TestHead(t) PROVE OvershootInv'
    <2>1. Inside' = Inside /\ Appending' = Appending /\ bucket' = bucket
      BY <1>0, <1>2 DEF TestNonempty, TestHead, Goto, Inside, Appending, TypeOK
    <2> QED
      BY <1>0, <1>c, <2>1 DEF OvershootInv
  <1>3. ASSUME NEW t \in Threads, PopLeft(t) PROVE OvershootInv'
    <2>1. Inside' = Inside /\ Appending' = Appending
      BY <1>0, <1>3 DEF PopLeft, Goto, Inside, Appending, TypeOK
    <2>2. Len(bucket') = Len(bucket) - 1
      BY <1>0, <1>3 DEF PopLeft, TypeOK
    <2> QED
      BY <1>0, <1>b, <1>c, <2>1, <2>2 DEF OvershootInv
  <1>4. ASSUME NEW t \in Threads, HeadVanished(t) \/ Refuse(t) PROVE OvershootInv'
    <2>1. /\ t \in Inside /\ Inside' = Inside \ {t}
          /\ Appending' = Appending /\ bucket' = bucket
      BY <1>0, <1>4 DEF HeadVanished, Refuse, Answer, Goto, Inside, Appending, TypeOK
    <2>2. Cardinality(Inside') = Cardinality(Inside) - 1
      BY <1>a, <2>1, CountRemove
    <2> QED
      BY <1>0, <1>b, <1>c, <2>1, <2>2 DEF OvershootInv
  <1>5. ASSUME NEW t \in Threads, HasRoom(t) PROVE OvershootInv'
    <2>1. Inside' = Inside /\ bucket' = bucket
      BY <1>0, <1>5 DEF HasRoom, Goto, Inside, TypeOK
    <2>2. Len(bucket) <= MaxRequests - 1
      BY <1>5, <1>b, <1>c DEF HasRoom, Full
    <2>3. Cardinality(Appending') <= Cardinality(Inside')
      BY <1>a, CountSubset
    <2> QED
      BY <1>0, <1>b, <1>c, <2>1, <2>2, <2>3 DEF OvershootInv
  <1>6. ASSUME NEW t \in Threads, Admit(t) PROVE OvershootInv'
    <2>1. /\ t \in Inside /\ Inside' = Inside \ {t}
          /\ t \in Appending /\ Appending' = Appending \ {t}
      BY <1>0, <1>6 DEF Admit, Answer, Goto, Inside, Appending, TypeOK
    <2>2. Cardinality(Inside') = Cardinality(Inside) - 1
      BY <1>a, <2>1, CountRemove
    <2>3. Cardinality(Appending') = Cardinality(Appending) - 1
      BY <1>a, <2>1, CountRemove
    <2>4. Len(bucket') = Len(bucket) + 1
      BY <1>0, <1>6 DEF Admit, TypeOK
    <2> QED
      BY <1>0, <1>b, <1>c, <2>2, <2>3, <2>4 DEF OvershootInv
  <1>7. CASE Tick \/ UNCHANGED vars
    <2>1. Inside' = Inside /\ Appending' = Appending /\ bucket' = bucket
      BY <1>7 DEF Tick, vars, Inside, Appending
    <2> QED
      BY <1>0, <1>c, <2>1 DEF OvershootInv
  <1> QED
    BY <1>1, <1>2, <1>3, <1>4, <1>5, <1>6, <1>7 DEF Next, Continue

\* The limiter's state stays well typed in every execution.
THEOREM LimiterTypes == Spec => []TypeOK
  <1>1. Init => TypeOK
    BY InitOvershoot DEF OvershootInv
  <1> QED
    BY <1>1, NextType, PTL DEF Spec

\* Calls of is_rate_limited that overlap let the deque outgrow the limit by at
\* most one stamp for each other call that is inside at the same time.
THEOREM OvershootBounded == Spec => []Overshoot
  <1>1. OvershootInv => Overshoot
    <2>1. ASSUME OvershootInv PROVE Overshoot
      <3>1. Cardinality(Appending) \in Nat
        BY ThreadSets DEF Appending
      <3>2. Len(bucket) \in Nat /\ overlap \in Nat
        BY <2>1, LimiterAssumption DEF OvershootInv, TypeOK
      <3> QED
        BY <2>1, <3>1, <3>2, LimiterAssumption DEF OvershootInv, Overshoot
    <2> QED
      BY <2>1
  <1> QED
    BY <1>1, InitOvershoot, NextOvershoot, PTL DEF Spec

-----------------------------------------------------------------------------
\* The memory table.

\* Ids follow the clock, and what was recalled runs forward.
MemoryInv ==
    /\ memory \subseteq [id : Nat, chat : Chats, text : Texts, at : Nat] /\ IsFiniteSet(memory)
    /\ nextId \in Nat /\ second \in Nat
    /\ \A row \in memory : row.id < nextId /\ row.at <= second
    /\ \A x, y \in memory : x.at < y.at => x.id < y.id
    /\ RecallRunsForward

LEMMA KeptRows ==
    ASSUME NEW rows, NEW limit, NEW kept \in Newest(rows, limit)
    PROVE  /\ kept \subseteq rows
           /\ Cardinality(kept) = IF limit < Cardinality(rows) THEN limit ELSE Cardinality(rows)
           /\ \A in \in kept, out \in rows \ kept : in.at >= out.at
  BY DEF Newest

\* What is the newest of the newest is the newest, as the ranking is the same.
LEMMA NewestOfNewest ==
    ASSUME NEW rows, rows \subseteq [id : Nat, chat : Chats, text : Texts, at : Nat],
           IsFiniteSet(rows), NEW limit \in Nat, NEW most \in Nat, limit <= most,
           NEW kept \in Newest(rows, most)
    PROVE  Newest(kept, limit) \subseteq Newest(rows, limit)
<1> SUFFICES ASSUME NEW some \in Newest(kept, limit) PROVE some \in Newest(rows, limit)
  OBVIOUS
<1>1. /\ kept \subseteq rows
      /\ Cardinality(kept) = IF most < Cardinality(rows) THEN most ELSE Cardinality(rows)
      /\ \A in \in kept, out \in rows \ kept : in.at >= out.at
  BY KeptRows
<1>2. /\ some \subseteq kept
      /\ Cardinality(some) = IF limit < Cardinality(kept) THEN limit ELSE Cardinality(kept)
      /\ \A in \in some, out \in kept \ some : in.at >= out.at
  BY KeptRows
<1>3. Cardinality(rows) \in Nat
  BY FS_CardinalityType
<1>4. Cardinality(some) = IF limit < Cardinality(rows) THEN limit ELSE Cardinality(rows)
  BY <1>1, <1>2, <1>3
<1>5. ASSUME NEW in \in some, NEW out \in rows \ some PROVE in.at >= out.at
  <2>1. in \in kept
    BY <1>2
  <2>2. CASE out \in kept
    BY <1>2, <2>2
  <2>3. CASE out \notin kept
    BY <1>1, <2>1, <2>3
  <2> QED BY <2>2, <2>3
<1>6. some \in SUBSET rows
  BY <1>1, <1>2
<1> QED BY <1>4, <1>5, <1>6 DEF Newest

LEMMA InsertKeeps ==
    ASSUME MemoryInv, NEW chat \in Chats, NEW text \in Texts, Insert(chat, text)
    PROVE  MemoryInv'
<1>1. PICK new : new = [id |-> nextId, chat |-> chat, text |-> text, at |-> second]
  OBVIOUS
<1>2. new.id = nextId /\ new.at = second
  BY <1>1
<1>3. /\ memory' = memory \cup {new} /\ nextId' = nextId + 1
      /\ second' = second /\ recalled' = recalled
  BY <1>1 DEF Insert
<1>4. nextId \in Nat /\ second \in Nat /\ \A row \in memory : row.id \in Nat /\ row.at \in Nat
  BY DEF MemoryInv
<1>5. memory' \subseteq [id : Nat, chat : Chats, text : Texts, at : Nat]
  BY <1>1, <1>3, <1>4 DEF MemoryInv
<1>6. IsFiniteSet(memory')
  BY <1>3, FS_AddElement DEF MemoryInv
<1>7. nextId' \in Nat /\ \A row \in memory' : row.id < nextId' /\ row.at <= second'
  BY <1>2, <1>3, <1>4 DEF MemoryInv
<1>8. ASSUME NEW x \in memory', NEW y \in memory', x.at < y.at PROVE x.id < y.id
  <2>1. CASE x \in memory /\ y \in memory
    BY <1>8, <2>1 DEF MemoryInv
  <2>2. CASE x \in memory /\ y = new
    BY <1>2, <2>2 DEF MemoryInv
  <2>3. CASE x = new
    <3>1. y.at <= second /\ y.at \in Nat
      BY <1>2, <1>3, <1>4 DEF MemoryInv
    <3> QED BY <1>2, <1>4, <1>8, <2>3, <3>1
  <2> QED BY <1>3, <2>1, <2>2, <2>3
<1>9. RecallRunsForward'
  BY <1>3 DEF MemoryInv, RecallRunsForward
<1> QED BY <1>3, <1>4, <1>5, <1>6, <1>7, <1>8, <1>9 DEF MemoryInv

LEMMA MemoryInvInductive == MemoryInv /\ [MemoryNext]_memoryVars => MemoryInv'
<1> SUFFICES ASSUME MemoryInv, [MemoryNext]_memoryVars PROVE MemoryInv'
  OBVIOUS
<1>1. CASE NewSecond
  BY <1>1 DEF NewSecond, MemoryInv, RecallRunsForward
<1>2. ASSUME NEW chat \in Chats, Prune(chat) PROVE MemoryInv'
  <2>1. memory' \subseteq memory
    <3>1. PICK kept \in Newest(RowsOf(chat), KeepLast) :
              memory' = (memory \ RowsOf(chat)) \cup kept
      BY <1>2 DEF Prune
    <3>2. kept \subseteq RowsOf(chat)
      BY <3>1, KeptRows
    <3> QED BY <3>1, <3>2 DEF RowsOf
  <2>2. IsFiniteSet(memory')
    BY <2>1, FS_Subset DEF MemoryInv
  <2>3. nextId' = nextId /\ second' = second /\ recalled' = recalled
    BY <1>2 DEF Prune
  <2> QED BY <2>1, <2>2, <2>3 DEF MemoryInv, RecallRunsForward
<1>3. ASSUME NEW chat \in Chats, Recall(chat) PROVE MemoryInv'
  <2>1. PICK kept \in Newest(RowsOf(chat), RecallLimit) : recalled' \in InOrder(kept)
    BY <1>3 DEF Recall
  <2>2. kept \subseteq memory
    <3>1. kept \subseteq RowsOf(chat)
      BY KeptRows
    <3> QED BY <3>1 DEF RowsOf
  <2>3. /\ recalled' \in [1..Cardinality(kept) -> kept]
        /\ \A i, j \in 1..Cardinality(kept) : i < j => recalled'[i].at <= recalled'[j].at
    BY <2>1 DEF InOrder
  <2>4. ASSUME NEW i \in DOMAIN recalled', NEW j \in DOMAIN recalled', i < j,
               recalled'[i].at # recalled'[j].at
        PROVE  recalled'[i].id < recalled'[j].id
    <3>1. PICK x \in memory, y \in memory : x = recalled'[i] /\ y = recalled'[j]
      BY <2>2, <2>3
    <3>2. x.at <= y.at /\ x.at # y.at
      BY <2>3, <2>4, <3>1
    <3>3. x.at \in Nat /\ y.at \in Nat
      BY DEF MemoryInv
    <3>4. x.at < y.at
      BY <3>2, <3>3
    <3>5. x.id < y.id
      BY <3>4 DEF MemoryInv
    <3> QED BY <3>1, <3>5
  <2>5. RecallRunsForward'
    BY <2>4 DEF RecallRunsForward
  <2>6. memory' = memory /\ nextId' = nextId /\ second' = second
    BY <1>3 DEF Recall
  <2> QED BY <2>5, <2>6 DEF MemoryInv
<1>4. CASE UNCHANGED memoryVars
  BY <1>4 DEF memoryVars, MemoryInv, RecallRunsForward
<1> QED BY <1>1, <1>2, <1>3, <1>4, InsertKeeps DEF MemoryNext

\* A pruning leaves of a chat its newest rows, and of another chat every row.
LEMMA PruningKeepsRecall ==
    ASSUME MemoryInv, NEW pruned \in Chats, Prune(pruned), NEW chat \in Chats
    PROVE  Recallable(chat)' \subseteq Recallable(chat)
<1>1. PICK kept \in Newest(RowsOf(pruned), KeepLast) :
          memory' = (memory \ RowsOf(pruned)) \cup kept
  BY DEF Prune
<1>2. kept \subseteq RowsOf(pruned)
  BY KeptRows
<1>3. CASE chat # pruned
  <2>1. RowsOf(chat)' = RowsOf(chat)
    BY <1>1, <1>2, <1>3 DEF RowsOf
  <2> QED BY <2>1 DEF Recallable
<1>4. CASE chat = pruned
  <2>1. RowsOf(chat)' = kept
    BY <1>1, <1>2, <1>4 DEF RowsOf
  <2>2. Newest(kept, RecallLimit) \subseteq Newest(RowsOf(chat), RecallLimit)
    <3>1. /\ RowsOf(chat) \subseteq memory
          /\ RowsOf(chat) \subseteq [id : Nat, chat : Chats, text : Texts, at : Nat]
      BY DEF RowsOf, MemoryInv
    <3>2. IsFiniteSet(RowsOf(chat))
      BY <3>1, FS_Subset DEF MemoryInv
    <3>3. RecallLimit \in Nat /\ KeepLast \in Nat /\ RecallLimit <= KeepLast
      BY MemoryAssumption
    <3> QED BY <1>4, <3>1, <3>2, <3>3, NewestOfNewest
  <2> QED BY <2>1, <2>2 DEF Recallable
<1> QED BY <1>3, <1>4

\* A recall of a chat shows its lines in the order in which they were written, second by
\* second, and a pruning takes nothing from what it would show, for any number of chats and
\* rows and any limits, as long as no more is recalled than kept (get_memory_context,
\* save_to_memory, prune_old_memory).
THEOREM RecallRunsForwardAndSurvives == MemorySpec => RecallHolds
<1>1. MemoryInit => MemoryInv
  BY FS_EmptySet DEF MemoryInit, MemoryInv, RecallRunsForward
<1>2. MemoryInv /\ [MemoryNext]_memoryVars
          => [\A pruned \in Chats : Prune(pruned) =>
                \A chat \in Chats : Recallable(chat)' \subseteq Recallable(chat)]_memoryVars
  BY PruningKeepsRecall
<1>3. MemoryInv => RecallRunsForward
  BY DEF MemoryInv
<1> QED BY <1>1, <1>2, <1>3, MemoryInvInductive, PTL DEF MemorySpec, RecallHolds, PruneKeepsRecall
-----------------------------------------------------------------------------
\* The window, while calls do not overlap.

LEMMA SmallestNumber ==
    ASSUME NEW S, S \subseteq Nat, S # {}
    PROVE  \E n \in S : \A j \in S : n <= j
<1> DEFINE R == OpToRel(<, Nat)
<1>1. IsWellFoundedOn(R, Nat)
  BY NatLessThanWellFounded
<1> HIDE DEF R
<1>2. PICK n \in S : \A j \in S : ~(<<j, n>> \in R)
  BY <1>1, WFMin
<1>3. ASSUME NEW j \in S PROVE n <= j
  <2>1. n \in Nat /\ j \in Nat
    OBVIOUS
  <2>2. j < n => <<j, n>> \in R
    BY <2>1 DEF R, OpToRel
  <2> QED BY <1>2, <2>1, <2>2
<1> QED BY <1>3

\* AdmittedSince, of any count of admissions.
Marks == 0..(MaxTime + 1)
OneSum(f, count, s) == IF s > MaxTime THEN 0 ELSE count[s] + f[s + 1]
Since(count) == CHOOSE f : f = [s \in Marks |-> OneSum(f, count, s)]

SumsTo(f, count, k) ==
    /\ f = [s \in Marks |-> f[s]]
    /\ \A s \in Marks : MaxTime + 1 - s <= k => f[s] = OneSum(f, count, s)

\* The recursion goes to later seconds, hence it has a solution.
LEMMA SumExists ==
    ASSUME NEW count, NEW k \in Nat
    PROVE  \E f : SumsTo(f, count, k)
<1>0. MaxTime \in Nat
  BY LimiterAssumption
<1> DEFINE S == {n \in Nat : ~ \E f : SumsTo(f, count, n)}
<1>1. SUFFICES ASSUME S # {} PROVE FALSE
  OBVIOUS
<1>2. PICK m \in S : \A j \in S : m <= j
  <2>1. S \subseteq Nat
    OBVIOUS
  <2> QED BY <1>1, <2>1, SmallestNumber
<1>3. CASE m = 0
  <2>1. PICK f : f = [s \in Marks |-> 0]
    OBVIOUS
  <2>2. ASSUME NEW s \in Marks, MaxTime + 1 - s <= 0 PROVE f[s] = OneSum(f, count, s)
    BY <1>0, <2>1, <2>2 DEF Marks, OneSum
  <2>3. SumsTo(f, count, 0)
    BY <2>1, <2>2 DEF SumsTo
  <2> QED BY <1>2, <1>3, <2>3
<1>4. CASE m # 0
  <2>1. m - 1 \in Nat /\ ~(m <= m - 1)
    BY <1>2, <1>4
  <2>2. PICK f : SumsTo(f, count, m - 1)
    BY <1>2, <2>1
  <2>3. PICK g : g = [s \in Marks |-> OneSum(f, count, s)]
    OBVIOUS
  <2>4. ASSUME NEW s \in Marks, MaxTime + 1 - s <= m PROVE g[s] = OneSum(g, count, s)
    <3>1. g[s] = OneSum(f, count, s)
      BY <2>3
    <3>2. CASE s > MaxTime
      BY <3>1, <3>2 DEF OneSum
    <3>3. CASE ~(s > MaxTime)
      <4>1. s + 1 \in Marks /\ MaxTime + 1 - (s + 1) <= m - 1
        BY <1>0, <1>2, <2>4, <3>3 DEF Marks
      <4>2. f[s + 1] = OneSum(f, count, s + 1)
        BY <2>2, <4>1 DEF SumsTo
      <4>3. g[s + 1] = f[s + 1]
        BY <2>3, <4>1, <4>2
      <4> QED BY <3>1, <3>3, <4>3 DEF OneSum
    <3> QED BY <3>2, <3>3
  <2>5. SumsTo(g, count, m)
    BY <2>3, <2>4 DEF SumsTo
  <2> QED BY <1>2, <2>5
<1> QED BY <1>3, <1>4

LEMMA SinceIs ==
    ASSUME NEW count
    PROVE  Since(count) = [s \in Marks |-> OneSum(Since(count), count, s)]
<1>1. MaxTime + 1 \in Nat /\ MaxTime \in Nat
  BY LimiterAssumption
<1>2. PICK f : SumsTo(f, count, MaxTime + 1)
  BY <1>1, SumExists
<1>3. \A s \in Marks : f[s] = OneSum(f, count, s)
  <2>1. ASSUME NEW s \in Marks PROVE MaxTime + 1 - s <= MaxTime + 1
    BY <1>1 DEF Marks
  <2> QED BY <1>2, <2>1 DEF SumsTo
<1>4. f = [s \in Marks |-> f[s]]
  BY <1>2 DEF SumsTo
<1>5. f = [s \in Marks |-> OneSum(f, count, s)]
  BY <1>3, <1>4
<1> QED BY <1>5 DEF Since

\* The sum at each second from the one after it, and at the end of time.
LEMMA SinceAt ==
    ASSUME NEW count
    PROVE  /\ Since(count)[MaxTime + 1] = 0
           /\ \A s \in Times : Since(count)[s] = count[s] + Since(count)[s + 1]
<1>1. MaxTime \in Nat
  BY LimiterAssumption
<1>2. PICK f : f = Since(count)
  OBVIOUS
<1>3. \A s \in Marks : f[s] = OneSum(f, count, s)
  BY <1>2, SinceIs
<1>4. MaxTime + 1 \in Marks /\ MaxTime + 1 > MaxTime
  BY <1>1 DEF Marks
<1>5. f[MaxTime + 1] = 0
  BY <1>3, <1>4 DEF OneSum
<1>6. ASSUME NEW s \in Times PROVE f[s] = count[s] + f[s + 1]
  <2>1. s \in Marks /\ ~(s > MaxTime)
    BY <1>1 DEF Marks, Times
  <2> QED BY <1>3, <2>1 DEF OneSum
<1> QED BY <1>2, <1>5, <1>6

LEMMA SinceNat ==
    ASSUME NEW count \in [Times -> Nat]
    PROVE  \A s \in Marks : Since(count)[s] \in Nat
<1>0. MaxTime \in Nat
  BY LimiterAssumption
<1>1. PICK f : f = Since(count)
  OBVIOUS
<1>2. f[MaxTime + 1] = 0 /\ \A s \in Times : f[s] = count[s] + f[s + 1]
  BY <1>1, SinceAt
<1> DEFINE S == {k \in Nat : \E s \in Marks : k = MaxTime + 1 - s /\ f[s] \notin Nat}
<1>3. SUFFICES ASSUME S # {} PROVE FALSE
  <2>1. \A s \in Marks : MaxTime + 1 - s \in Nat
    BY <1>0 DEF Marks
  <2> QED BY <1>1, <1>3, <2>1
<1>4. PICK m \in S : \A j \in S : m <= j
  <2>1. S \subseteq Nat
    OBVIOUS
  <2> QED BY <1>3, <2>1, SmallestNumber
<1>5. PICK s \in Marks : m = MaxTime + 1 - s /\ f[s] \notin Nat
  BY <1>4
<1>6. s # MaxTime + 1
  BY <1>2, <1>5
<1>7. s \in Times /\ s + 1 \in Marks /\ MaxTime + 1 - (s + 1) \in Nat
      /\ ~(m <= MaxTime + 1 - (s + 1))
  BY <1>0, <1>5, <1>6 DEF Marks, Times
<1>8. MaxTime + 1 - (s + 1) \notin S
  BY <1>4, <1>7
<1>9. f[s + 1] \in Nat
  BY <1>7, <1>8
<1>10. f[s] \in Nat
  BY <1>2, <1>7, <1>9
<1> QED BY <1>5, <1>10

OneMore(f, g, last) == \A x \in Marks : g[x] = f[x] + (IF x <= last THEN 1 ELSE 0)

\* One admission more at n counts for every second up to n.
LEMMA SinceAdded ==
    ASSUME NEW count \in [Times -> Nat], NEW n \in Times, NEW more,
           more = [count EXCEPT ![n] = count[n] + 1]
    PROVE  OneMore(Since(count), Since(more), n)
<1>0. MaxTime \in Nat
  BY LimiterAssumption
<1>1. PICK f, g : f = Since(count) /\ g = Since(more)
  OBVIOUS
<1>2. /\ f[MaxTime + 1] = 0 /\ \A s \in Times : f[s] = count[s] + f[s + 1]
      /\ g[MaxTime + 1] = 0 /\ \A s \in Times : g[s] = more[s] + g[s + 1]
  BY <1>1, SinceAt
<1>3. \A s \in Marks : f[s] \in Nat
  BY <1>1, SinceNat
<1> DEFINE Right(s) == g[s] = f[s] + (IF s <= n THEN 1 ELSE 0)
           S == {k \in Nat : \E s \in Marks : k = MaxTime + 1 - s /\ ~Right(s)}
<1>4. SUFFICES ASSUME S # {} PROVE FALSE
  <2>1. \A s \in Marks : MaxTime + 1 - s \in Nat
    BY <1>0 DEF Marks
  <2>2. \A s \in Marks : Right(s)
    BY <1>4, <2>1
  <2> QED BY <1>1, <2>2 DEF OneMore
<1>5. PICK m \in S : \A j \in S : m <= j
  <2>1. S \subseteq Nat
    OBVIOUS
  <2> QED BY <1>4, <2>1, SmallestNumber
<1>6. PICK s \in Marks : m = MaxTime + 1 - s /\ ~Right(s)
  BY <1>5
<1>7. CASE s = MaxTime + 1
  <2>1. ~(s <= n)
    BY <1>0, <1>7 DEF Times
  <2> QED BY <1>2, <1>6, <1>7, <2>1
<1>8. CASE s # MaxTime + 1
  <2>1. s \in Times /\ s + 1 \in Marks /\ MaxTime + 1 - (s + 1) \in Nat
        /\ ~(m <= MaxTime + 1 - (s + 1))
    BY <1>0, <1>6, <1>8 DEF Marks, Times
  <2>2. MaxTime + 1 - (s + 1) \notin S
    BY <1>5, <2>1
  <2>3. g[s + 1] = f[s + 1] + (IF s + 1 <= n THEN 1 ELSE 0)
    BY <2>1, <2>2
  <2>4. more[s] = count[s] + (IF s = n THEN 1 ELSE 0) /\ count[s] \in Nat
    BY <2>1
  <2>5. f[s] = count[s] + f[s + 1] /\ g[s] = more[s] + g[s + 1] /\ f[s + 1] \in Nat
    BY <1>2, <1>3, <2>1
  <2>6. s \in Nat /\ n \in Nat
    BY <2>1 DEF Times
  <2>7. g[s] = f[s] + (IF s <= n THEN 1 ELSE 0)
    BY <2>3, <2>4, <2>5, <2>6
  <2> QED BY <1>6, <2>7
<1> QED BY <1>7, <1>8

LEMMA SinceOfAdmissions ==
    /\ AdmittedSince = Since(admissions)
    /\ AdmittedSince' = Since(admissions')
  BY DEF AdmittedSince, Since, OneSum, Marks

\* The stamps in the deque are in order, and each is counted with those behind it: of the
\* calls let through since x, those with a stamp behind i and no others, for x between the
\* stamps at i and at i + 1.
Ledger(f, b) ==
    /\ \A i, j \in 1..Len(b) : i <= j => b[i] <= b[j]
    /\ \A i \in 1..Len(b), x \in Marks :
          /\ x <= b[i] => f[x] >= Len(b) - i + 1
          /\ b[i] < x => f[x] <= Len(b) - i

\* Nothing was let through after the second last, and what was let through since x is in
\* the deque unless it is stale at last.
UpTo(f, b, last) ==
    /\ \A i \in 1..Len(b) : b[i] <= last
    /\ \A x \in Marks : x > last => f[x] = 0
    /\ \A x \in Marks : last <= x + Window => f[x] <= Len(b)

\* Where a thread is tells what it has seen of the deque.
HasSeen(t) ==
    /\ pc[t] \in {"head", "pop"} => bucket # <<>>
    /\ pc[t] = "pop" => Expired(t, bucket[1])
    /\ pc[t] = "count" => bucket = <<>> \/ ~Expired(t, bucket[1])

Judges(t) == now[t] <= clock /\ UpTo(AdmittedSince, bucket, now[t]) /\ HasSeen(t)

SerialInv ==
    /\ OvershootInv
    /\ overlap = 1 =>
          /\ Ledger(AdmittedSince, bucket)
          /\ UpTo(AdmittedSince, bucket, clock)
          /\ \A t \in Threads : pc[t] # "idle" => Judges(t)
          /\ WindowBound

LEMMA LaterUpTo ==
    ASSUME NEW f, NEW b \in Seq(Times), NEW early \in Times, NEW late \in Times, early <= late,
           UpTo(f, b, early)
    PROVE  UpTo(f, b, late)
<1>1. MaxTime \in Nat /\ Window \in Nat
  BY LimiterAssumption
<1>2. ASSUME NEW i \in 1..Len(b) PROVE b[i] <= late
  <2>1. b[i] \in Times /\ b[i] <= early
    BY DEF UpTo
  <2> QED BY <1>1, <2>1 DEF Times
<1>3. ASSUME NEW x \in Marks, x > late PROVE f[x] = 0
  <2>1. x > early
    BY <1>1, <1>3 DEF Times, Marks
  <2> QED BY <2>1 DEF UpTo
<1>4. ASSUME NEW x \in Marks, late <= x + Window PROVE f[x] <= Len(b)
  <2>1. early <= x + Window
    BY <1>1, <1>4 DEF Times, Marks
  <2> QED BY <2>1 DEF UpTo
<1> QED BY <1>2, <1>3, <1>4 DEF UpTo

\* A stale stamp that is dropped was the oldest, and no window that counts begins before it.
LEMMA StaleDropped ==
    ASSUME NEW f, \A x \in Marks : f[x] \in Nat,
           NEW b \in Seq(Times), b # <<>>, Ledger(f, b),
           NEW last \in Times, UpTo(f, b, last), last - b[1] > Window
    PROVE  Ledger(f, Tail(b)) /\ UpTo(f, Tail(b), last)
<1>1. MaxTime \in Nat /\ Window \in Nat
  BY LimiterAssumption
<1>2. PICK c : c = Tail(b)
  OBVIOUS
<1>n. PICK n \in Nat : n = Len(b) - 1
  OBVIOUS
<1>3. /\ c \in Seq(Times) /\ Len(c) = n /\ Len(b) = n + 1
      /\ \A i \in 1..n : c[i] = b[i + 1] /\ i + 1 \in 1..n + 1
  BY <1>2, <1>n
<1>4. ASSUME NEW i \in 1..n, NEW j \in 1..n, i <= j PROVE c[i] <= c[j]
  <2>1. i + 1 <= j + 1 /\ i + 1 \in 1..Len(b) /\ j + 1 \in 1..Len(b)
    BY <1>3, <1>4
  <2>2. b[i + 1] <= b[j + 1]
    BY <2>1 DEF Ledger
  <2> QED BY <1>3, <2>2
<1>5. ASSUME NEW i \in 1..n, NEW x \in Marks
      PROVE  (x <= c[i] => f[x] >= n - i + 1) /\ (c[i] < x => f[x] <= n - i)
  <2>1. i + 1 \in 1..Len(b)
    BY <1>3
  <2>2. /\ x <= b[i + 1] => f[x] >= Len(b) - (i + 1) + 1
        /\ b[i + 1] < x => f[x] <= Len(b) - (i + 1)
    BY <2>1 DEF Ledger
  <2>3. Len(b) - (i + 1) = n - i
    BY <1>3
  <2> QED BY <1>3, <2>2, <2>3
<1>6. Ledger(f, c)
  BY <1>3, <1>4, <1>5 DEF Ledger
<1>7. ASSUME NEW i \in 1..n PROVE c[i] <= last
  BY <1>3 DEF UpTo
<1>8. ASSUME NEW x \in Marks, last <= x + Window PROVE f[x] <= n
  <2>1. 1 \in 1..Len(b) /\ b[1] \in Times
    BY <1>3
  <2>2. b[1] < x
    BY <1>1, <1>8, <2>1 DEF Times, Marks
  <2>3. f[x] <= Len(b) - 1
    BY <2>1, <2>2 DEF Ledger
  <2> QED BY <1>3, <2>3
<1>9. UpTo(f, c, last)
  BY <1>3, <1>7, <1>8 DEF UpTo
<1> QED BY <1>2, <1>6, <1>9

\* A call that is let through puts its stamp behind the others, and is counted from it back.
LEMMA StampAppended ==
    ASSUME NEW f, \A x \in Marks : f[x] \in Nat, NEW g, NEW b \in Seq(Times), NEW last \in Times,
           \A x \in Marks : g[x] = f[x] + (IF x <= last THEN 1 ELSE 0),
           Ledger(f, b), UpTo(f, b, last)
    PROVE  Ledger(g, Append(b, last)) /\ UpTo(g, Append(b, last), last)
<1>1. MaxTime \in Nat /\ Window \in Nat
  BY LimiterAssumption
<1>2. PICK c : c = Append(b, last)
  OBVIOUS
<1>n. PICK n \in Nat : n = Len(b)
  OBVIOUS
<1>3. /\ Len(c) = n + 1 /\ c[n + 1] = last
      /\ \A i \in 1..n : c[i] = b[i] /\ b[i] \in Times /\ b[i] <= last
  <2>1. \A i \in 1..n : b[i] \in Times /\ b[i] <= last
    BY <1>n DEF UpTo
  <2> QED BY <1>2, <1>n, <2>1
<1>4. ASSUME NEW i \in 1..n + 1 PROVE i = n + 1 \/ i \in 1..n
  OBVIOUS
<1>5. ASSUME NEW i \in 1..n + 1 PROVE c[i] \in Times /\ c[i] <= last
  BY <1>1, <1>3, <1>4 DEF Times
<1>6. ASSUME NEW i \in 1..n + 1, NEW j \in 1..n + 1, i <= j PROVE c[i] <= c[j]
  <2>1. CASE j = n + 1
    BY <1>3, <1>5, <2>1
  <2>2. CASE j # n + 1
    <3>1. i \in 1..n /\ j \in 1..n
      BY <1>6, <2>2
    <3>2. b[i] <= b[j]
      BY <1>n, <1>6, <3>1 DEF Ledger
    <3> QED BY <1>3, <3>1, <3>2
  <2> QED BY <2>1, <2>2
<1>7. ASSUME NEW i \in 1..n + 1, NEW x \in Marks, x <= c[i] PROVE g[x] >= n + 1 - i + 1
  <2>1. f[x] \in Nat /\ x \in Nat /\ last \in Nat /\ c[i] \in Nat
    BY <1>1, <1>5 DEF Times, Marks
  <2>2. g[x] = f[x] + 1
    <3>1. x <= last
      BY <1>5, <1>7, <2>1
    <3> QED BY <3>1
  <2>3. CASE i = n + 1
    BY <2>1, <2>2, <2>3
  <2>4. CASE i \in 1..n
    <3>1. f[x] >= n - i + 1
      BY <1>n, <1>3, <1>7, <2>4 DEF Ledger
    <3> QED BY <2>1, <2>2, <3>1
  <2> QED BY <1>4, <2>3, <2>4
<1>8. ASSUME NEW i \in 1..n + 1, NEW x \in Marks, c[i] < x PROVE g[x] <= n + 1 - i
  <2>1. f[x] \in Nat /\ x \in Nat /\ last \in Nat
    BY <1>1 DEF Times, Marks
  <2>2. CASE i = n + 1
    <3>1. x > last
      BY <1>3, <1>8, <2>1, <2>2
    <3>2. f[x] = 0 /\ ~(x <= last)
      BY <2>1, <3>1 DEF UpTo
    <3>3. g[x] = f[x] + (IF x <= last THEN 1 ELSE 0)
      OBVIOUS
    <3>4. g[x] = 0
      BY <3>2, <3>3
    <3> QED BY <2>2, <3>4
  <2>3. CASE i \in 1..n
    <3>1. f[x] <= n - i
      BY <1>n, <1>3, <1>8, <2>3 DEF Ledger
    <3>2. g[x] <= f[x] + 1
      BY <2>1
    <3>3. g[x] \in Nat
      BY <2>1
    <3> QED BY <2>1, <3>1, <3>2, <3>3
  <2> QED BY <1>4, <2>2, <2>3
<1>9. Ledger(g, c)
  BY <1>3, <1>6, <1>7, <1>8 DEF Ledger
<1>10. ASSUME NEW x \in Marks, x > last PROVE g[x] = 0
  <2>1. x \in Nat /\ last \in Nat
    BY <1>1 DEF Times, Marks
  <2>2. f[x] = 0 /\ ~(x <= last)
    BY <1>10, <2>1 DEF UpTo
  <2>3. g[x] = f[x] + (IF x <= last THEN 1 ELSE 0)
    OBVIOUS
  <2> QED BY <2>2, <2>3
<1>11. ASSUME NEW x \in Marks, last <= x + Window PROVE g[x] <= n + 1
  <2>1. f[x] <= n /\ f[x] \in Nat
    BY <1>n, <1>11 DEF UpTo
  <2>2. g[x] <= f[x] + 1 /\ g[x] \in Nat
    BY <2>1
  <2> QED BY <2>1, <2>2
<1>12. UpTo(g, c, last)
  BY <1>3, <1>5, <1>10, <1>11 DEF UpTo
<1> QED BY <1>2, <1>9, <1>12

\* While calls do not overlap, a thread inside is the only one.
LEMMA Alone ==
    ASSUME OvershootInv, overlap = 1, NEW t \in Threads, pc[t] # "idle",
           NEW u \in Threads, u # t
    PROVE  pc[u] = "idle"
<1>1. SUFFICES ASSUME pc[u] # "idle" PROVE FALSE
  OBVIOUS
<1>2. {t, u} \in SUBSET Inside /\ Inside \in SUBSET Threads /\ {t, u} \in SUBSET Threads
  BY <1>1 DEF Inside
<1>3. Cardinality({t, u}) <= Cardinality(Inside)
  BY <1>2, CountSubset
<1>4. Cardinality({t} \cup {u}) = Cardinality({t}) + 1 /\ Cardinality({t}) = 1
  <2>1. {t} \in SUBSET Threads /\ u \notin {t}
    OBVIOUS
  <2>2. Cardinality({t} \cup {u}) = Cardinality({t}) + 1
    BY <2>1, CountAdd
  <2> QED BY <2>2, FS_Singleton
<1>5. {t} \cup {u} = {t, u}
  OBVIOUS
<1>6. Cardinality(Inside) \in Nat /\ Cardinality(Inside) <= 1
  BY <1>2, ThreadSets DEF OvershootInv
<1> QED BY <1>3, <1>4, <1>5, <1>6

\* The first second behind the window that begins at s.
After(s) == IF s + Window > MaxTime THEN MaxTime + 1 ELSE s + Window + 1

InWindows(f) == \A s \in Times : f[s] - f[After(s)] <= MaxRequests

LEMMA WindowsAre == /\ WindowBound <=> InWindows(AdmittedSince)
                    /\ WindowBound' <=> InWindows(AdmittedSince')
  BY DEF WindowBound, AdmittedIn, InWindows, After

\* One admission more, of the latest of all, into a deque that is not full.
LEMMA WindowKept ==
    ASSUME NEW f, \A x \in Marks : f[x] \in Nat, NEW g, NEW b \in Seq(Times), NEW last \in Times,
           \A x \in Marks : g[x] = f[x] + (IF x <= last THEN 1 ELSE 0),
           UpTo(f, b, last), Len(b) <= MaxRequests - 1, InWindows(f)
    PROVE  InWindows(g)
<1>1. MaxTime \in Nat /\ Window \in Nat /\ MaxRequests \in Nat
  BY LimiterAssumption
<1>2. SUFFICES ASSUME NEW s \in Times PROVE g[s] - g[After(s)] <= MaxRequests
  BY DEF InWindows
<1>3. PICK a : a = After(s)
  OBVIOUS
<1>4. /\ s \in Marks /\ a \in Marks /\ s \in Nat /\ a \in Nat /\ last \in Nat /\ s < a
      /\ last < a => last <= s + Window
  BY <1>1, <1>3 DEF After, Marks, Times
<1>5. /\ f[s] \in Nat /\ f[a] \in Nat /\ f[s] - f[a] <= MaxRequests
      /\ g[s] = f[s] + (IF s <= last THEN 1 ELSE 0)
      /\ g[a] = f[a] + (IF a <= last THEN 1 ELSE 0)
  BY <1>3, <1>4 DEF InWindows
<1>6. CASE s <= last /\ last < a
  <2>1. f[s] <= Len(b) /\ Len(b) \in Nat
    BY <1>4, <1>6 DEF UpTo
  <2>2. f[a] = 0
    BY <1>4, <1>6 DEF UpTo
  <2>3. g[s] = f[s] + 1 /\ g[a] = 0
    BY <1>4, <1>5, <1>6, <2>2
  <2>4. g[s] - g[a] <= MaxRequests
    BY <1>1, <1>5, <2>1, <2>3
  <2> QED BY <1>3, <2>4
<1>7. CASE ~(s <= last /\ last < a)
  BY <1>1, <1>3, <1>4, <1>5, <1>7
<1> QED BY <1>6, <1>7

LEMMA AdmittedNat == TypeOK => \A x \in Marks : AdmittedSince[x] \in Nat
  BY SinceNat, SinceOfAdmissions DEF TypeOK

LEMMA SerialInit == Init => SerialInv
<1> SUFFICES ASSUME Init PROVE SerialInv
  OBVIOUS
<1>0. MaxTime \in Nat /\ Window \in Nat /\ MaxRequests \in Nat
  BY LimiterAssumption
<1>1. PICK f : f = AdmittedSince
  OBVIOUS
<1>2. \A x \in Marks : f[x] = 0
  <2>1. f[MaxTime + 1] = 0 /\ \A s \in Times : f[s] = 0 + f[s + 1]
    <3>1. \A s \in Times : admissions[s] = 0
      BY DEF Init
    <3> QED BY <1>1, <3>1, SinceAt, SinceOfAdmissions
  <2>2. \A x \in Marks : f[x] \in Nat
    BY <1>1, AdmittedNat, InitOvershoot DEF OvershootInv
  <2> DEFINE S == {k \in Nat : \E s \in Marks : k = MaxTime + 1 - s /\ f[s] # 0}
  <2>3. SUFFICES ASSUME S # {} PROVE FALSE
    <3>1. \A s \in Marks : MaxTime + 1 - s \in Nat
      BY <1>0 DEF Marks
    <3> QED BY <2>3, <3>1
  <2>4. PICK m \in S : \A j \in S : m <= j
    <3>1. S \subseteq Nat
      OBVIOUS
    <3> QED BY <2>3, <3>1, SmallestNumber
  <2>5. PICK s \in Marks : m = MaxTime + 1 - s /\ f[s] # 0
    BY <2>4
  <2>6. s # MaxTime + 1
    BY <2>1, <2>5
  <2>7. s \in Times /\ s + 1 \in Marks /\ MaxTime + 1 - (s + 1) \in Nat
        /\ ~(m <= MaxTime + 1 - (s + 1))
    BY <1>0, <2>5, <2>6 DEF Marks, Times
  <2>8. MaxTime + 1 - (s + 1) \notin S
    BY <2>4, <2>7
  <2>9. f[s + 1] = 0
    BY <2>7, <2>8
  <2> QED BY <2>1, <2>5, <2>7, <2>9
<1>3. bucket = <<>> /\ Len(bucket) = 0
  BY DEF Init
<1>4. Ledger(f, bucket)
  BY <1>3 DEF Ledger
<1>5. UpTo(f, bucket, clock)
  BY <1>2, <1>3 DEF UpTo
<1>6. InWindows(f)
  <2>1. ASSUME NEW s \in Times PROVE s \in Marks /\ After(s) \in Marks
    BY <1>0 DEF Times, Marks, After
  <2> QED BY <1>0, <1>2, <2>1 DEF InWindows
<1>7. \A t \in Threads : pc[t] = "idle"
  BY DEF Init
<1> QED BY <1>1, <1>4, <1>5, <1>6, <1>7, WindowsAre, InitOvershoot DEF SerialInv

LEMMA SerialNext == SerialInv /\ [Next]_vars => SerialInv'
<1> SUFFICES ASSUME SerialInv, [Next]_vars PROVE SerialInv'
  OBVIOUS
<1> SUFFICES ASSUME overlap' = 1
             PROVE  /\ Ledger(AdmittedSince', bucket')
                    /\ UpTo(AdmittedSince', bucket', clock')
                    /\ \A t \in Threads : pc'[t] # "idle" => Judges(t)'
                    /\ InWindows(AdmittedSince')
  <2>1. OvershootInv'
    BY NextOvershoot DEF SerialInv
  <2> QED BY <2>1, WindowsAre DEF SerialInv
<1>0. OvershootInv /\ TypeOK /\ TypeOK'
  BY NextType DEF SerialInv, OvershootInv
<1>1. overlap = 1
  BY DEF Next, Tick, Continue, Enter, TestNonempty, TestHead, PopLeft, HeadVanished,
         Refuse, HasRoom, Admit, vars
<1>2. /\ Ledger(AdmittedSince, bucket) /\ UpTo(AdmittedSince, bucket, clock)
      /\ \A t \in Threads : pc[t] # "idle" => Judges(t)
      /\ InWindows(AdmittedSince)
  BY <1>1, WindowsAre DEF SerialInv
<1>3. admissions' = admissions => AdmittedSince' = AdmittedSince
  BY SinceOfAdmissions
<1>4. /\ clock \in Times /\ bucket \in Seq(Times) /\ clock \in Nat /\ MaxTime \in Nat
      /\ \A t \in Threads : now[t] \in Times /\ now[t] \in Nat
  BY <1>0, LimiterAssumption DEF TypeOK, Times
<1>5. CASE Tick
  <2>1. /\ AdmittedSince' = AdmittedSince /\ bucket' = bucket /\ pc' = pc /\ now' = now
        /\ clock' \in Times /\ clock <= clock' /\ clock' \in Nat
    BY <1>3, <1>4, <1>5 DEF Tick, Times
  <2>2. UpTo(AdmittedSince, bucket, clock')
    BY <1>2, <1>4, <2>1, LaterUpTo
  <2>3. ASSUME NEW t \in Threads, pc'[t] # "idle" PROVE Judges(t)'
    <3>1. Judges(t)
      BY <1>2, <2>1, <2>3
    <3> QED BY <1>4, <2>1, <3>1 DEF Judges, HasSeen, Expired
  <2> QED BY <1>2, <2>1, <2>2, <2>3
<1>6. ASSUME NEW t \in Threads, Enter(t) \/ TestNonempty(t) \/ TestHead(t) \/ HeadVanished(t)
                                 \/ Refuse(t) \/ HasRoom(t)
      PROVE  /\ Ledger(AdmittedSince', bucket') /\ UpTo(AdmittedSince', bucket', clock')
             /\ \A u \in Threads : pc'[u] # "idle" => Judges(u)'
             /\ InWindows(AdmittedSince')
  <2>1. AdmittedSince' = AdmittedSince /\ bucket' = bucket /\ clock' = clock
    BY <1>3, <1>6 DEF Enter, TestNonempty, TestHead, HeadVanished, Refuse, HasRoom
  <2>2. ASSUME NEW u \in Threads, u # t PROVE pc'[u] = "idle"
    <3>1. pc[u] = "idle"
      <4>1. CASE Enter(t)
        <5>1. Inside \in SUBSET Threads /\ Cardinality(Inside) \in Nat /\ Cardinality(Inside) < 1
          BY <1>1, <4>1, ThreadSets DEF Enter, Inside
        <5>2. Inside = {}
          <6>1. ASSUME NEW v \in Inside PROVE FALSE
            <7>1. Cardinality({v}) <= Cardinality(Inside) /\ Cardinality({v}) = 1
              BY <5>1, CountSubset, FS_Singleton
            <7> QED BY <5>1, <7>1
          <6> QED BY <6>1
        <5> QED BY <5>2 DEF Inside
      <4>2. CASE ~Enter(t)
        <5>1. pc[t] # "idle"
          BY <1>6, <4>2 DEF TestNonempty, TestHead, HeadVanished, Refuse, HasRoom, Answer, Goto
        <5> QED BY <1>0, <1>1, <2>2, <5>1, Alone
      <4> QED BY <4>1, <4>2
    <3> QED BY <1>0, <1>6, <2>2, <3>1 DEF Enter, TestNonempty, TestHead, HeadVanished, Refuse,
                                          HasRoom, Answer, Goto, TypeOK
  <2>3. ASSUME pc'[t] # "idle" PROVE Judges(t)'
    <3>1. CASE Enter(t)
      <4>1. now'[t] = clock /\ pc'[t] = "nonempty"
        BY <1>0, <3>1 DEF Enter, Goto, TypeOK
      <4> QED BY <1>2, <1>4, <2>1, <4>1 DEF Judges, HasSeen
    <3>2. CASE TestNonempty(t)
      <4>1. /\ pc[t] # "idle" /\ now' = now
            /\ pc'[t] = IF bucket = <<>> THEN "count" ELSE "head"
        BY <1>0, <3>2 DEF TestNonempty, Goto, TypeOK
      <4> QED BY <1>2, <2>1, <4>1 DEF Judges, HasSeen
    <3>3. CASE TestHead(t)
      <4>1. /\ pc[t] # "idle" /\ now' = now /\ bucket # <<>>
            /\ pc'[t] = IF Expired(t, bucket[1]) THEN "pop" ELSE "count"
        BY <1>0, <3>3 DEF TestHead, Goto, TypeOK
      <4> QED BY <1>2, <2>1, <4>1 DEF Judges, HasSeen, Expired
    <3>4. CASE HasRoom(t)
      <4>1. pc[t] # "idle" /\ now' = now /\ pc'[t] = "append"
        BY <1>0, <3>4 DEF HasRoom, Goto, TypeOK
      <4> QED BY <1>2, <2>1, <4>1 DEF Judges, HasSeen
    <3>5. CASE HeadVanished(t) \/ Refuse(t)
      BY <1>0, <2>3, <3>5 DEF HeadVanished, Refuse, Answer, Goto, TypeOK
    <3> QED BY <1>6, <3>1, <3>2, <3>3, <3>4, <3>5
  <2> QED BY <1>2, <2>1, <2>2, <2>3
<1>7. ASSUME NEW t \in Threads, PopLeft(t)
      PROVE  /\ Ledger(AdmittedSince', bucket') /\ UpTo(AdmittedSince', bucket', clock')
             /\ \A u \in Threads : pc'[u] # "idle" => Judges(u)'
             /\ InWindows(AdmittedSince')
  <2>1. /\ AdmittedSince' = AdmittedSince /\ bucket' = Tail(bucket) /\ clock' = clock
        /\ now' = now /\ pc[t] = "pop" /\ pc'[t] = "nonempty" /\ bucket # <<>>
        /\ \A u \in Threads : u # t => pc'[u] = pc[u]
    BY <1>0, <1>3, <1>7 DEF PopLeft, Goto, TypeOK
  <2>2. Judges(t)
    BY <1>2, <2>1
  <2>3. now[t] - bucket[1] > Window /\ UpTo(AdmittedSince, bucket, now[t]) /\ now[t] <= clock
    BY <2>1, <2>2 DEF Judges, HasSeen, Expired
  <2>4. Ledger(AdmittedSince, Tail(bucket)) /\ UpTo(AdmittedSince, Tail(bucket), now[t])
    BY <1>0, <1>2, <1>4, <2>1, <2>3, AdmittedNat, StaleDropped
  <2>5. UpTo(AdmittedSince, Tail(bucket), clock)
    <3>1. Tail(bucket) \in Seq(Times)
      BY <1>4, <2>1
    <3> QED BY <1>4, <2>3, <2>4, <3>1, LaterUpTo
  <2>6. ASSUME NEW u \in Threads, pc'[u] # "idle" PROVE Judges(u)'
    <3>1. u = t
      BY <1>0, <1>1, <2>1, <2>6, Alone
    <3> QED BY <2>1, <2>3, <2>4, <3>1 DEF Judges, HasSeen
  <2> QED BY <1>2, <2>1, <2>4, <2>5, <2>6
<1>8. ASSUME NEW t \in Threads, Admit(t)
      PROVE  /\ Ledger(AdmittedSince', bucket') /\ UpTo(AdmittedSince', bucket', clock')
             /\ \A u \in Threads : pc'[u] # "idle" => Judges(u)'
             /\ InWindows(AdmittedSince')
  <2>1. /\ bucket' = Append(bucket, now[t]) /\ clock' = clock /\ pc[t] = "append"
        /\ admissions' = [admissions EXCEPT ![now[t]] = @ + 1]
        /\ pc'[t] = "idle" /\ \A u \in Threads : u # t => pc'[u] = pc[u]
    BY <1>0, <1>8 DEF Admit, Answer, Goto, TypeOK
  <2>2. UpTo(AdmittedSince, bucket, now[t]) /\ now[t] <= clock
    BY <1>2, <2>1 DEF Judges
  <2>3. \A x \in Marks : AdmittedSince[x] \in Nat
    BY <1>0, AdmittedNat
  <2>4. \A x \in Marks : AdmittedSince'[x] = AdmittedSince[x] + (IF x <= now[t] THEN 1 ELSE 0)
    <3>1. admissions \in [Times -> Nat]
      BY <1>0 DEF TypeOK
    <3>2. PICK more : more = admissions'
      OBVIOUS
    <3>3. PICK count : count = admissions
      OBVIOUS
    <3>4. PICK n : n = now[t]
      OBVIOUS
    <3>5. count \in [Times -> Nat] /\ n \in Times /\ more = [count EXCEPT ![n] = count[n] + 1]
      BY <1>4, <2>1, <3>1, <3>2, <3>3, <3>4
    <3>6. OneMore(Since(count), Since(more), n)
      BY <3>5, SinceAdded
    <3>7. AdmittedSince = Since(count) /\ AdmittedSince' = Since(more)
      BY <3>2, <3>3, SinceOfAdmissions
    <3> QED BY <3>4, <3>6, <3>7 DEF OneMore
  <2>5. Ledger(AdmittedSince', bucket') /\ UpTo(AdmittedSince', bucket', now[t])
    BY <1>2, <1>4, <2>1, <2>2, <2>3, <2>4, StampAppended
  <2>6. UpTo(AdmittedSince', bucket', clock')
    <3>1. bucket' \in Seq(Times)
      BY <1>0 DEF TypeOK
    <3> QED BY <1>4, <2>1, <2>2, <2>5, <3>1, LaterUpTo
  <2>7. ASSUME NEW u \in Threads, pc'[u] # "idle" PROVE FALSE
    BY <1>0, <1>1, <2>1, <2>7, Alone
  <2>8. Len(bucket) <= MaxRequests - 1
    <3>1. Appending \in SUBSET Threads /\ {t} \in SUBSET Appending
      BY <2>1 DEF Appending
    <3>2. Cardinality({t}) <= Cardinality(Appending) /\ Cardinality({t}) = 1
      BY <3>1, CountSubset, FS_Singleton
    <3>3. Cardinality(Appending) \in Nat /\ Len(bucket) \in Nat
      BY <1>4, <3>1, ThreadSets
    <3>4. Len(bucket) + Cardinality(Appending) <= MaxRequests + 1 - 1
      BY <1>0, <1>1 DEF OvershootInv
    <3> QED BY <3>2, <3>3, <3>4, LimiterAssumption
  <2>9. InWindows(AdmittedSince')
    BY <1>2, <1>4, <2>2, <2>3, <2>4, <2>8, WindowKept
  <2> QED BY <2>5, <2>6, <2>7, <2>9
<1>9. CASE UNCHANGED vars
  <2>1. /\ AdmittedSince' = AdmittedSince /\ bucket' = bucket /\ pc' = pc /\ now' = now
        /\ clock' = clock
    BY <1>3, <1>9 DEF vars
  <2>2. ASSUME NEW t \in Threads, pc'[t] # "idle" PROVE Judges(t)'
    <3>1. Judges(t)
      BY <1>2, <2>1, <2>2
    <3> QED BY <2>1, <3>1 DEF Judges, HasSeen, Expired
  <2> QED BY <1>2, <2>1, <2>2
<1> QED BY <1>5, <1>6, <1>7, <1>8, <1>9 DEF Next, Continue

\* While the calls of a client do not overlap, no window of RATE_LIMIT_WINDOW_SECONDS holds
\* more than RATE_LIMIT_MAX_REQUESTS calls that were let through, for every window and limit:
\* the deque is the ledger of what is let through, whose stale end alone is dropped
\* (is_rate_limited).
THEOREM SerialCallsKeepTheLimit == Spec => [](overlap = 1 => WindowBound)
<1>1. SerialInv => (overlap = 1 => WindowBound)
  BY DEF SerialInv
<1> QED BY <1>1, SerialInit, SerialNext, PTL DEF Spec

\* And no caller is refused, while calls do not overlap, unless as many calls as the limit
\* were let through in the window that ends with its own (is_rate_limited).
THEOREM RefusedOnlyWhenFull == Spec => RefusedOnlyAtTheLimit
<1>1. ASSUME SerialInv, NEW t \in Threads, overlap = 1, Refuse(t)
      PROVE  AdmittedIn(IF now[t] < Window THEN 0 ELSE now[t] - Window, now[t]) >= MaxRequests
  <2>1. PICK n : n = now[t]
    OBVIOUS
  <2>2. PICK x : x = IF n < Window THEN 0 ELSE n - Window
    OBVIOUS
  <2>3. PICK a : a = IF n > MaxTime THEN MaxTime + 1 ELSE n + 1
    OBVIOUS
  <2>4. TypeOK /\ pc[t] = "count" /\ Full
    BY <1>1 DEF SerialInv, OvershootInv, Refuse, Answer, Goto
  <2>5. /\ n \in Times /\ n \in Nat /\ Window \in Nat /\ MaxRequests \in Nat \ {0}
        /\ MaxTime \in Nat /\ x \in Marks /\ x \in Nat /\ a \in Marks /\ a > n
        /\ bucket \in Seq(Times) /\ Len(bucket) \in Nat
    BY <2>1, <2>2, <2>3, <2>4, LimiterAssumption DEF TypeOK, Times, Marks
  <2>6. /\ Ledger(AdmittedSince, bucket) /\ UpTo(AdmittedSince, bucket, n)
        /\ bucket = <<>> \/ ~Expired(t, bucket[1])
    BY <1>1, <2>1, <2>4 DEF SerialInv, Judges, HasSeen
  <2>7. /\ Len(bucket) >= MaxRequests /\ bucket # <<>> /\ 1 \in 1..Len(bucket)
        /\ bucket[1] \in Times /\ bucket[1] \in Nat
    BY <2>4, <2>5 DEF Full, Times
  <2>8. x <= bucket[1]
    BY <2>1, <2>2, <2>5, <2>6, <2>7 DEF Expired
  <2>9. AdmittedSince[x] >= Len(bucket) - 1 + 1
    BY <2>5, <2>6, <2>7, <2>8 DEF Ledger
  <2>10. AdmittedSince[a] = 0
    BY <2>5, <2>6 DEF UpTo
  <2>11. AdmittedSince[x] \in Nat
    BY <2>4, <2>5, AdmittedNat
  <2>12. AdmittedSince[x] - AdmittedSince[a] >= MaxRequests
    BY <2>5, <2>7, <2>9, <2>10, <2>11
  <2> QED BY <2>1, <2>2, <2>3, <2>12 DEF AdmittedIn
<1>2. SerialInv /\ [Next]_vars
          => [\A t \in Threads : overlap = 1 /\ Refuse(t) =>
                AdmittedIn(IF now[t] < Window THEN 0 ELSE now[t] - Window, now[t]) >= MaxRequests]_vars
  BY <1>1
<1> QED BY <1>2, SerialInit, SerialNext, PTL DEF Spec, RefusedOnlyAtTheLimit
=============================================================================
