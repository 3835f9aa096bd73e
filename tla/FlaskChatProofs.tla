--------------------------- MODULE FlaskChatProofs ---------------------------
(***************************************************************************)
(* The chat histories of app.py, for any requests on any chats.  A message *)
(* is appended once, by its request, to a history in which no history that *)
(* can still be read has it; so all histories are subsequences of the      *)
(* order in which messages were made, however requests overlap, fail or    *)
(* overwrite each other's files.  While those of one chat do not overlap,  *)
(* every chat is the log of ChatLog.                                       *)
(***************************************************************************)
EXTENDS FlaskChat, FiniteSetTheorems, TLAPS

-----------------------------------------------------------------------------
\* Sequences of messages

IsTitle(m) == m.role = "metadata"
Has(h, m) == \E k \in DOMAIN h : h[k] = m
TitleInFront(h) == \A k \in DOMAIN h : IsTitle(h[k]) => k = 1

LEMMA MessageKinds ==
    ASSUME NEW r \in Requests
    PROVE  /\ {User(r), Assistant(r), Title(r)} \subseteq Messages
           /\ ~IsTitle(User(r)) /\ ~IsTitle(Assistant(r)) /\ IsTitle(Title(r))
           /\ \A q \in Requests : /\ User(r) # Assistant(q)
                                  /\ User(r) = User(q) => r = q
                                  /\ Assistant(r) = Assistant(q) => r = q
BY DEF Messages, User, Assistant, Title, IsTitle

\* What appending a message adds to the order of a history.
LEMMA Appended ==
    ASSUME NEW h \in Seq(Messages), NEW m \in Messages
    PROVE  /\ Append(h, m) \in Seq(Messages)
           /\ \A x : Has(Append(h, m), x) <=> Has(h, x) \/ x = m
           /\ \A x, y : Before(Append(h, m), x, y) <=> Before(h, x, y) \/ (Has(h, x) /\ y = m)
           /\ (TitleInFront(h) /\ ~IsTitle(m)) => TitleInFront(Append(h, m))
<1> DEFINE n == Len(h)
           g == Append(h, m)
<1>1. /\ n \in Nat /\ DOMAIN h = 1..n /\ DOMAIN g = 1..(n + 1) /\ g \in Seq(Messages)
      /\ g[n + 1] = m /\ \A k \in 1..n : g[k] = h[k]
    OBVIOUS
<1> HIDE DEF n, g
<1>2. \A x : Has(g, x) <=> Has(h, x) \/ x = m
    BY <1>1 DEF Has
<1>3. ASSUME NEW x, NEW y PROVE Before(g, x, y) <=> Before(h, x, y) \/ (Has(h, x) /\ y = m)
  <2>1. ASSUME Before(g, x, y) PROVE Before(h, x, y) \/ (Has(h, x) /\ y = m)
    <3>1. PICK j \in 1..(n + 1), k \in 1..(n + 1) : j < k /\ g[j] = x /\ g[k] = y
      BY <1>1, <2>1 DEF Before
    <3>2. j \in 1..n /\ h[j] = x
      BY <1>1, <3>1
    <3>3. CASE k = n + 1
      BY <1>1, <3>1, <3>2, <3>3 DEF Has
    <3>4. CASE k \in 1..n
      BY <1>1, <3>1, <3>2, <3>4 DEF Before
    <3> QED BY <1>1, <3>3, <3>4
  <2>2. ASSUME Before(h, x, y) PROVE Before(g, x, y)
    <3>1. PICK j \in 1..n, k \in 1..n : j < k /\ h[j] = x /\ h[k] = y
      BY <1>1, <2>2 DEF Before
    <3> QED BY <1>1, <3>1 DEF Before
  <2>3. ASSUME Has(h, x), y = m PROVE Before(g, x, y)
    <3>1. PICK j \in 1..n : h[j] = x
      BY <1>1, <2>3 DEF Has
    <3>2. n + 1 \in DOMAIN g /\ j \in DOMAIN g /\ j < n + 1
      BY <1>1, <3>1
    <3> QED BY <1>1, <2>3, <3>1, <3>2 DEF Before
  <2> QED BY <2>1, <2>2, <2>3
<1>4. ASSUME TitleInFront(h), ~IsTitle(m) PROVE TitleInFront(g)
    BY <1>1, <1>4 DEF TitleInFront
<1> QED BY <1>1, <1>2, <1>3, <1>4 DEF g

\* A title goes where a title is, or in front, and disturbs no other message.
LEMMA Renamed ==
    ASSUME NEW h \in Seq(Messages), TitleInFront(h), NEW r \in Requests
    PROVE  /\ WithTitle(h, r) \in Seq(Messages)
           /\ TitleInFront(WithTitle(h, r))
           /\ \A x : ~IsTitle(x) => (Has(WithTitle(h, r), x) <=> Has(h, x))
           /\ \A x, y : ~IsTitle(x) /\ ~IsTitle(y) =>
                 (Before(WithTitle(h, r), x, y) <=> Before(h, x, y))
<1> DEFINE n == Len(h)
           g == WithTitle(h, r)
           t == Title(r)
           blocks == {k \in DOMAIN h : h[k].role = "metadata"}
<1>0. n \in Nat /\ DOMAIN h = 1..n /\ IsTitle(t) /\ t \in Messages
    BY MessageKinds
<1>1. CASE blocks = {}
  <2>1. g = <<t>> \o h
    BY <1>1 DEF WithTitle
  <2>2. /\ g \in Seq(Messages) /\ DOMAIN g = 1..(n + 1) /\ g[1] = t
        /\ \A k \in 1..n : g[k + 1] = h[k]
        /\ \A k \in 2..(n + 1) : g[k] = h[k - 1]
    BY <1>0, <2>1
  <2>3. \A k \in 1..n : ~IsTitle(h[k])
    BY <1>0, <1>1 DEF IsTitle
  <2> HIDE DEF g, n, t, blocks
  <2>4. TitleInFront(g)
    <3>1. ASSUME NEW k \in 1..(n + 1), k # 1 PROVE ~IsTitle(g[k])
      BY <1>0, <2>2, <2>3, <3>1
    <3> QED BY <2>2, <3>1 DEF TitleInFront
  <2>5. ASSUME NEW x, ~IsTitle(x) PROVE Has(g, x) <=> Has(h, x)
    <3>1. ASSUME NEW k \in 1..(n + 1), g[k] = x PROVE Has(h, x)
      <4>1. k # 1
        BY <1>0, <2>2, <2>5, <3>1
      <4>2. k - 1 \in 1..n /\ h[k - 1] = x
        BY <1>0, <2>2, <3>1, <4>1
      <4> QED BY <1>0, <4>2 DEF Has
    <3>2. ASSUME NEW k \in 1..n, h[k] = x PROVE Has(g, x)
      <4>1. k + 1 \in 1..(n + 1) /\ g[k + 1] = x
        BY <1>0, <2>2, <3>2
      <4> QED BY <2>2, <4>1 DEF Has
    <3> QED BY <1>0, <2>2, <3>1, <3>2 DEF Has
  <2>6. ASSUME NEW x, NEW y, ~IsTitle(x), ~IsTitle(y) PROVE Before(g, x, y) <=> Before(h, x, y)
    <3>1. ASSUME NEW j \in 1..(n + 1), NEW k \in 1..(n + 1), j < k, g[j] = x, g[k] = y
          PROVE  Before(h, x, y)
      <4>1. j # 1
        BY <1>0, <2>2, <2>6, <3>1
      <4>2. j - 1 \in 1..n /\ k - 1 \in 1..n /\ j - 1 < k - 1 /\ h[j - 1] = x /\ h[k - 1] = y
        BY <1>0, <2>2, <3>1, <4>1
      <4> QED BY <1>0, <4>2 DEF Before
    <3>2. ASSUME NEW j \in 1..n, NEW k \in 1..n, j < k, h[j] = x, h[k] = y
          PROVE  Before(g, x, y)
      <4>1. /\ j + 1 \in 1..(n + 1) /\ k + 1 \in 1..(n + 1) /\ j + 1 < k + 1
            /\ g[j + 1] = x /\ g[k + 1] = y
        BY <1>0, <2>2, <3>2
      <4> QED BY <2>2, <4>1 DEF Before
    <3> QED BY <1>0, <2>2, <3>1, <3>2 DEF Before
  <2> QED BY <2>2, <2>4, <2>5, <2>6 DEF g
<1>2. CASE blocks # {}
  <2>1. blocks = {1} /\ 1 \in 1..n /\ IsTitle(h[1])
    BY <1>0, <1>2 DEF TitleInFront, IsTitle
  <2>2. (CHOOSE k \in blocks : \A j \in blocks : k <= j) = 1
    BY <2>1
  <2>3. g = [h EXCEPT ![1] = t]
    BY <1>2, <2>2 DEF WithTitle
  <2>4. /\ g \in Seq(Messages) /\ DOMAIN g = 1..n /\ g[1] = t
        /\ \A k \in 1..n : k # 1 => g[k] = h[k]
    BY <1>0, <2>1, <2>3
  <2> HIDE DEF g, n, t, blocks
  <2>5. \A x : \A k \in 1..n : ~IsTitle(x) => (g[k] = x <=> h[k] = x)
    BY <1>0, <2>1, <2>4
  <2>6. TitleInFront(g)
    BY <1>0, <2>4 DEF TitleInFront
  <2>7. \A x : ~IsTitle(x) => (Has(g, x) <=> Has(h, x))
    BY <1>0, <2>4, <2>5 DEF Has
  <2>8. \A x, y : ~IsTitle(x) /\ ~IsTitle(y) => (Before(g, x, y) <=> Before(h, x, y))
    BY <1>0, <2>4, <2>5 DEF Before
  <2> QED BY <2>4, <2>6, <2>7, <2>8 DEF g
<1> QED BY <1>1, <1>2

-----------------------------------------------------------------------------
\* Histories that agree on the order of what they have in common
Ordered(H) ==
    /\ H \subseteq Seq(Messages)
    /\ \A g, h \in H : \A x, y :
          ~IsTitle(x) /\ ~IsTitle(y) /\ Before(g, x, y) => ~Before(h, y, x)
    /\ \A h \in H : \A r \in Requests : ~Before(h, Assistant(r), User(r))
    /\ \A h \in H : TitleInFront(h)

Unseen(H, m) == \A h \in H : ~Has(h, m)

LEMMA OrderedSubset ==
    ASSUME NEW H, NEW K \in SUBSET H, Ordered(H)
    PROVE  Ordered(K)
BY DEF Ordered

\* A message that no history has may be appended to any of them, a question only
\* while its reply is unseen as well.
LEMMA OrderedAppend ==
    ASSUME NEW H, Ordered(H), NEW h \in H, NEW r \in Requests, NEW m,
           \/ m = User(r) /\ Unseen(H, Assistant(r))
           \/ m = Assistant(r),
           Unseen(H, m)
    PROVE  Ordered(H \cup {Append(h, m)})
<1> DEFINE new == Append(h, m)
<1>1. m \in Messages /\ ~IsTitle(m) /\ h \in Seq(Messages)
    BY MessageKinds DEF Ordered
<1>2. /\ new \in Seq(Messages) /\ TitleInFront(new)
      /\ \A x, y : Before(new, x, y) <=> Before(h, x, y) \/ (Has(h, x) /\ y = m)
    BY <1>1, Appended DEF Ordered
<1> HIDE DEF new
<1>3. \A g \in H : \A x : ~Before(g, x, m) /\ ~Before(g, m, x)
    BY DEF Unseen, Has, Before
<1>4. \A g \in H : ~Has(g, m)
    BY DEF Unseen
<1>5. ASSUME NEW g \in H \cup {new}, NEW k \in H \cup {new}, NEW x, NEW y,
             ~IsTitle(x), ~IsTitle(y), Before(g, x, y), Before(k, y, x)
      PROVE  FALSE
  <2>1. CASE x = m \/ y = m
    BY <1>2, <1>3, <1>4, <1>5, <2>1
  <2>2. CASE x # m /\ y # m
    <3>1. PICK g1 \in H : Before(g1, x, y)
      BY <1>2, <1>5, <2>2
    <3>2. PICK k1 \in H : Before(k1, y, x)
      BY <1>2, <1>5, <2>2
    <3> QED BY <1>5, <3>1, <3>2 DEF Ordered
  <2> QED BY <2>1, <2>2
<1>6. ASSUME NEW q \in Requests PROVE ~Before(new, Assistant(q), User(q))
  <2>1. ~Before(h, Assistant(q), User(q))
    BY DEF Ordered
  <2>2. CASE User(q) # m
    BY <1>2, <2>1, <2>2
  <2>3. CASE User(q) = m
    <3>1. m = User(r) /\ q = r
      BY <2>3, MessageKinds
    <3> QED BY <1>2, <2>1, <3>1, MessageKinds DEF Unseen
  <2> QED BY <2>2, <2>3
<1> QED BY <1>2, <1>5, <1>6 DEF Ordered, new

LEMMA OrderedRename ==
    ASSUME NEW H, Ordered(H), NEW h \in H, NEW r \in Requests
    PROVE  Ordered(H \cup {WithTitle(h, r)})
<1> DEFINE new == WithTitle(h, r)
<1>1. /\ new \in Seq(Messages) /\ TitleInFront(new)
      /\ \A x, y : ~IsTitle(x) /\ ~IsTitle(y) => (Before(new, x, y) <=> Before(h, x, y))
    BY Renamed DEF Ordered
<1> HIDE DEF new
<1>2. ASSUME NEW g \in H \cup {new}, NEW k \in H \cup {new}, NEW x, NEW y,
             ~IsTitle(x), ~IsTitle(y), Before(g, x, y), Before(k, y, x)
      PROVE  FALSE
  <2>1. PICK g1 \in H : Before(g1, x, y)
    BY <1>1, <1>2
  <2>2. PICK k1 \in H : Before(k1, y, x)
    BY <1>1, <1>2
  <2> QED BY <1>2, <2>1, <2>2 DEF Ordered
<1>3. \A q \in Requests : ~Before(new, Assistant(q), User(q))
    BY <1>1, MessageKinds DEF Ordered
<1> QED BY <1>1, <1>2, <1>3 DEF Ordered, new

-----------------------------------------------------------------------------
\* Files and what is in them

Types ==
    /\ pc \in [Requests -> Labels]
    /\ handle \in [Requests -> Inodes \cup {NoFile}]
    /\ dir \in [Chats -> Inodes \cup {NoFile}]
    /\ inode \in [Inodes -> Seq(Seq(Messages))]
    /\ local \in [Requests -> Seq(Messages)]
    /\ \A r \in Requests : handle[r] # NoFile <=> pc[r] \in DumpLabels

Stored == {inode[i][1] : i \in {j \in Inodes : Len(inode[j]) = 1}}

\* Every history that a reader can find, or a request has in hand.
Texts == {<<>>} \cup Stored \cup {local[r] : r \in Requests}

BeforeReply == {"arrived", "openQuestion", "dumpQuestion", "remember", "prune", "generate",
                "fallback", "apologise", "review", "readAgain"}

\* A request that has not got to it has not said it.
NotSaidYet ==
    \A r \in Requests :
        /\ pc[r] = "arrived" => Unseen(Texts, User(r))
        /\ pc[r] \in BeforeReply => Unseen(Texts, Assistant(r))

InOneOrder == Types /\ Ordered(Texts) /\ NotSaidYet

\* There are enough inodes for every chat and every request that writes.
LEMMA UnusedIsThere ==
    ASSUME Types, NEW c \in Chats, NEW r \in Requests, dir[c] = NoFile, handle[r] = NoFile
    PROVE  Unused \in Inodes /\ Unused \notin InUse
<1> DEFINE D == {dir[d] : d \in Chats \ {c}}
           H == {handle[q] : q \in Requests \ {r}}
           nc == Cardinality(Chats)
           nr == Cardinality(Requests)
<1>1. /\ IsFiniteSet(Chats) /\ IsFiniteSet(Requests) /\ nc \in Nat /\ nr \in Nat
      /\ IsFiniteSet(Chats \ {c}) /\ Cardinality(Chats \ {c}) = nc - 1
      /\ IsFiniteSet(Requests \ {r}) /\ Cardinality(Requests \ {r}) = nr - 1
    BY ChatAssumption, FS_RemoveElement, FS_CardinalityType
<1>2. IsFiniteSet(D) /\ Cardinality(D) <= nc - 1
  <2> DEFINE f == [d \in Chats \ {c} |-> dir[d]]
  <2>1. f \in Surjection(Chats \ {c}, D)
    BY DEF Surjection
  <2> QED BY <1>1, <2>1, FS_Surjection
<1>3. IsFiniteSet(H) /\ Cardinality(H) <= nr - 1
  <2> DEFINE f == [q \in Requests \ {r} |-> handle[q]]
  <2>1. f \in Surjection(Requests \ {r}, H)
    BY DEF Surjection
  <2> QED BY <1>1, <2>1, FS_Surjection
<1>4. IsFiniteSet(D \cup H) /\ Cardinality(D \cup H) <= nc + nr - 2
  <2>1. /\ IsFiniteSet(D \cup H)
        /\ Cardinality(D \cup H) = Cardinality(D) + Cardinality(H) - Cardinality(D \cap H)
    BY <1>2, <1>3, FS_Union
  <2>2. Cardinality(D) \in Nat /\ Cardinality(H) \in Nat /\ Cardinality(D \cap H) \in Nat
    BY <1>2, <1>3, FS_CardinalityType, FS_Intersection
  <2> HIDE DEF D, H, nc, nr
  <2> QED BY <1>1, <1>2, <1>3, <2>1, <2>2
<1>5. Cardinality(Inodes) = nc + nr /\ IsFiniteSet(Inodes)
  <2>1. Inodes = 1..(nc + nr)
    BY DEF Inodes
  <2> HIDE DEF nc, nr
  <2>2. nc + nr \in Nat
    BY <1>1
  <2> QED BY <2>1, <2>2, FS_Interval
<1>6. ~(Inodes \subseteq D \cup H)
  <2> HIDE DEF D, H, nc, nr
  <2>1. SUFFICES ASSUME Inodes \subseteq D \cup H PROVE FALSE
    OBVIOUS
  <2>2. Cardinality(Inodes) <= Cardinality(D \cup H) /\ Cardinality(D \cup H) \in Nat
    BY <1>4, <2>1, FS_Subset, FS_CardinalityType
  <2> QED BY <1>1, <1>4, <1>5, <2>2
<1>7. \A i \in Inodes : i \in InUse => i \in D \cup H
    BY DEF InUse, NoFile, Inodes
<1> QED BY <1>6, <1>7 DEF Unused

\* What is read is stored, or nothing.
LEMMA ReadIsStored ==
    ASSUME Types, NEW c \in Chats
    PROVE  ReadHistory(c) \in {<<>>} \cup Stored /\ ReadHistory(c) \in Texts
BY DEF Types, ReadHistory, Readable, Stored, Texts

\* A step after which no new history is to be found.
LEMMA NothingNew ==
    ASSUME InOneOrder, Types', Texts' \subseteq Texts,
           \A r \in Requests : /\ pc'[r] = "arrived" => pc[r] = "arrived"
                               /\ pc'[r] \in BeforeReply => pc[r] \in BeforeReply
    PROVE  InOneOrder'
<1>1. Ordered(Texts)'
    BY OrderedSubset DEF InOneOrder, Ordered
<1>2. NotSaidYet'
    BY DEF InOneOrder, NotSaidYet, Unseen
<1> QED BY <1>1, <1>2 DEF InOneOrder

\* A step of request r that puts a history in its hand and nothing on disk.
LEMMA NewInHand ==
    ASSUME Types, NEW r \in Requests, NEW h \in Seq(Messages), inode' = inode,
           local' = [local EXCEPT ![r] = h]
    PROVE  Texts' \subseteq Texts \cup {h}
BY DEF Types, Texts, Stored

\* The labels on the way of a request
LEMMA LabelsOfSaves ==
    /\ \A l \in OpenLabels :
          DumpAfter[l] \in DumpLabels /\ DumpAfter[l] \in Labels /\ l \in Labels
    /\ \A l \in DumpLabels : SaveThen[l] \in Labels \ (DumpLabels \cup {"arrived"})
    /\ \A l \in OpenLabels : l \notin DumpLabels /\ l # "arrived"
    /\ \A l \in OpenLabels : l \in BeforeReply <=> DumpAfter[l] \in BeforeReply
    /\ \A l \in DumpLabels : l \in BeforeReply <=> SaveThen[l] \in BeforeReply
BY DEF OpenLabels, DumpLabels, DumpAfter, SaveThen, Labels, BeforeReply

\* The labels that some steps leave, and that none of those steps opens a file.
PlainMove(r, from, to) ==
    /\ from \in Labels \ DumpLabels /\ to \in Labels \ (DumpLabels \cup {"arrived"})
    /\ to \in BeforeReply => from \in BeforeReply
    /\ Goto(r, from, to)

\* A request moves on, and touches neither a history nor a file.
LEMMA PlainStep ==
    ASSUME InOneOrder, NEW r \in Requests, NEW from, NEW to, PlainMove(r, from, to),
           UNCHANGED <<local, handle, inode>>, dir' \in [Chats -> Inodes \cup {NoFile}]
    PROVE  InOneOrder'
<1>1. pc' = [pc EXCEPT ![r] = to] /\ pc[r] = from
    BY DEF PlainMove, Goto
<1>2. Types'
    BY <1>1 DEF PlainMove, InOneOrder, Types
<1>3. Texts' = Texts
    BY DEF Texts, Stored
<1>4. \A q \in Requests : /\ pc'[q] = "arrived" => pc[q] = "arrived"
                          /\ pc'[q] \in BeforeReply => pc[q] \in BeforeReply
    BY <1>1 DEF PlainMove, InOneOrder, Types
<1> QED BY <1>2, <1>3, <1>4, NothingNew

LEMMA PlainSteps ==
    ASSUME InOneOrder, NEW r \in Requests,
           \/ RefuseChat(r) \/ Remember(r) \/ Prune(r) \/ NotRemembered(r) \/ PruneFails(r)
           \/ Generate(r) \/ GenerateFails(r) \/ Apologise(r) \/ Review(r) \/ Disconnect(r)
           \/ RememberReply(r) \/ NewChat(r) \/ TestExists(r) \/ Remove(r) \/ Export(r)
    PROVE  InOneOrder'
<1> USE DEF PlainMove, Labels, DumpLabels, BeforeReply, fileVars
<1>0. dir \in [Chats -> Inodes \cup {NoFile}]
    BY DEF InOneOrder, Types
<1>1. CASE RefuseChat(r)
    BY <1>0, <1>1, PlainStep DEF RefuseChat
<1>2. CASE Remember(r)
    BY <1>0, <1>2, PlainStep DEF Remember
<1>3. CASE Prune(r)
    BY <1>0, <1>3, PlainStep DEF Prune
<1>4. CASE NotRemembered(r)
    BY <1>0, <1>4, PlainStep DEF NotRemembered
<1>5. CASE PruneFails(r)
    BY <1>0, <1>5, PlainStep DEF PruneFails
<1>6. CASE Generate(r)
    BY <1>0, <1>6, PlainStep DEF Generate
<1>7. CASE GenerateFails(r)
    BY <1>0, <1>7, PlainStep DEF GenerateFails
<1>8. CASE Apologise(r)
    BY <1>0, <1>8, PlainStep DEF Apologise
<1>9. CASE Review(r)
    BY <1>0, <1>9, PlainStep DEF Review
<1>10. CASE Disconnect(r)
    BY <1>0, <1>10, PlainStep DEF Disconnect
<1>11. CASE RememberReply(r)
    BY <1>0, <1>11, PlainStep DEF RememberReply
<1>12. CASE NewChat(r)
    BY <1>0, <1>12, PlainStep DEF NewChat
<1>13. CASE TestExists(r)
    BY <1>0, <1>13, PlainStep DEF TestExists
<1>14. CASE Remove(r)
    BY <1>0, <1>14, PlainStep DEF Remove
<1>15. CASE Export(r)
    BY <1>0, <1>15, PlainStep DEF Export
<1> QED
    BY <1>1, <1>2, <1>3, <1>4, <1>5, <1>6, <1>7, <1>8, <1>9, <1>10, <1>11, <1>12, <1>13,
       <1>14, <1>15

-----------------------------------------------------------------------------
\* Steps on files

LEMMA OpenKeeps ==
    ASSUME InOneOrder, NEW r \in Requests, OpenForWrite(r)
    PROVE  InOneOrder'
<1> DEFINE c == ChatOf[r]
           i == IF dir[c] = NoFile THEN Unused ELSE dir[c]
<1>1. /\ pc[r] \in OpenLabels /\ pc' = [pc EXCEPT ![r] = DumpAfter[pc[r]]]
      /\ dir' = [dir EXCEPT ![c] = i] /\ inode' = [inode EXCEPT ![i] = Blank]
      /\ handle' = [handle EXCEPT ![r] = i] /\ local' = local
    BY DEF OpenForWrite
<1>2. c \in Chats /\ handle[r] = NoFile
    BY <1>1, ChatAssumption, LabelsOfSaves DEF InOneOrder, Types
<1>3. i \in Inodes /\ i # NoFile
    BY <1>2, UnusedIsThere DEF InOneOrder, Types, Inodes, NoFile
<1> HIDE DEF i, c
<1>4. Types'
    BY <1>1, <1>2, <1>3, LabelsOfSaves DEF InOneOrder, Types, Blank
<1>5. Texts' \subseteq Texts
  <2>1. Stored' \subseteq Stored
    BY <1>1, <1>3 DEF Stored, Blank, InOneOrder, Types
  <2> QED BY <1>1, <2>1 DEF Texts
<1>6. \A q \in Requests : /\ pc'[q] = "arrived" => pc[q] = "arrived"
                          /\ pc'[q] \in BeforeReply => pc[q] \in BeforeReply
    BY <1>1, LabelsOfSaves DEF InOneOrder, Types, DumpLabels
<1> QED BY <1>4, <1>5, <1>6, NothingNew

\* A save puts on disk what its request has in hand, or nothing that parses.
LEMMA DumpKeeps ==
    ASSUME InOneOrder, NEW r \in Requests, Dump(r)
    PROVE  InOneOrder'
<1>1. PICK text \in Overwrite(inode[handle[r]], local[r]) :
          inode' = [inode EXCEPT ![handle[r]] = text]
    BY DEF Dump
<1>2. /\ pc[r] \in DumpLabels /\ pc' = [pc EXCEPT ![r] = SaveThen[pc[r]]]
      /\ handle' = [handle EXCEPT ![r] = NoFile] /\ local' = [local EXCEPT ![r] = <<>>]
      /\ dir' = dir
    BY DEF Dump
<1>3. handle[r] \in Inodes /\ local[r] \in Seq(Messages)
    BY <1>2 DEF InOneOrder, Types
<1>4. /\ text \in Seq(Seq(Messages))
      /\ Len(text) = 1 => text[1] = local[r]
  <2>1. text = <<local[r]>> \/ text = <<<<>>, <<>>>>
    BY <1>1 DEF Overwrite, Clean, Garbage
  <2>2. <<<<>>, <<>>>> \in Seq(Seq(Messages)) /\ Len(<<<<>>, <<>>>>) = 2
    <3>1. <<>> \in Seq(Messages)
      OBVIOUS
    <3> QED BY <3>1
  <2>3. ASSUME NEW h \in Seq(Messages) PROVE <<h>> \in Seq(Seq(Messages)) /\ <<h>>[1] = h
    OBVIOUS
  <2>4. CASE text = <<local[r]>>
    BY <1>3, <2>3, <2>4
  <2>5. CASE text = <<<<>>, <<>>>>
    BY <2>2, <2>5
  <2> QED BY <2>1, <2>4, <2>5
<1>5. Types'
    BY <1>1, <1>2, <1>3, <1>4, LabelsOfSaves DEF InOneOrder, Types
<1>6. Texts' \subseteq Texts
  <2>1. Stored' \subseteq Stored \cup {local[r]}
    BY <1>1, <1>3, <1>4 DEF Stored, InOneOrder, Types
  <2> QED BY <1>2, <2>1 DEF Texts, InOneOrder, Types
<1>7. \A q \in Requests : /\ pc'[q] = "arrived" => pc[q] = "arrived"
                          /\ pc'[q] \in BeforeReply => pc[q] \in BeforeReply
    BY <1>2, LabelsOfSaves DEF InOneOrder, Types
<1> QED BY <1>5, <1>6, <1>7, NothingNew

LEMMA SaveFailsKeeps ==
    ASSUME InOneOrder, NEW r \in Requests, SaveFails(r)
    PROVE  InOneOrder'
<1>1. /\ handle' = [handle EXCEPT ![r] = NoFile] /\ local' = [local EXCEPT ![r] = <<>>]
      /\ UNCHANGED <<dir, inode>>
    BY DEF SaveFails, fileVars
<1>2. PICK l \in Labels \ (DumpLabels \cup {"arrived"}) :
          pc' = [pc EXCEPT ![r] = l] /\ (l \in BeforeReply => pc[r] \in BeforeReply)
    BY LabelsOfSaves DEF SaveFails
<1>3. Types'
    BY <1>1, <1>2 DEF InOneOrder, Types
<1>4. Texts' \subseteq Texts
    BY <1>1 DEF Texts, Stored, InOneOrder, Types
<1>5. \A q \in Requests : /\ pc'[q] = "arrived" => pc[q] = "arrived"
                          /\ pc'[q] \in BeforeReply => pc[q] \in BeforeReply
    BY <1>2 DEF InOneOrder, Types
<1> QED BY <1>3, <1>4, <1>5, NothingNew

LEMMA CrashKeeps ==
    ASSUME InOneOrder, Crash
    PROVE  InOneOrder'
<1>1. /\ pc' = [r \in Requests |-> IF pc[r] \in Ended THEN pc[r] ELSE "gone"]
      /\ handle' = [r \in Requests |-> NoFile] /\ local' = [r \in Requests |-> <<>>]
      /\ UNCHANGED <<dir, inode>>
    BY DEF Crash, fileVars
<1>2. Types'
    BY <1>1 DEF InOneOrder, Types, Ended, Labels, DumpLabels
<1>3. Texts' \subseteq Texts
    BY <1>1 DEF Texts, Stored
<1>4. \A q \in Requests : /\ pc'[q] = "arrived" => pc[q] = "arrived"
                          /\ pc'[q] \in BeforeReply => pc[q] \in BeforeReply
    BY <1>1 DEF Ended, BeforeReply
<1> QED BY <1>2, <1>3, <1>4, NothingNew

-----------------------------------------------------------------------------
\* Steps that make a history

LEMMA QuestionKeeps ==
    ASSUME InOneOrder, NEW r \in Requests, ReadForQuestion(r)
    PROVE  InOneOrder'
<1> DEFINE old == ReadHistory(ChatOf[r])
           new == Append(old, User(r))
<1>1. /\ pc[r] = "arrived" /\ pc' = [pc EXCEPT ![r] = "openQuestion"]
      /\ local' = [local EXCEPT ![r] = new] /\ UNCHANGED <<handle, dir, inode>>
    BY DEF ReadForQuestion, Goto, fileVars
<1>2. old \in Texts /\ old \in Seq(Messages)
    BY ReadIsStored, ChatAssumption DEF InOneOrder, Ordered
<1>3. Unseen(Texts, User(r)) /\ Unseen(Texts, Assistant(r))
    BY <1>1 DEF InOneOrder, NotSaidYet, BeforeReply
<1>4. /\ new \in Seq(Messages) /\ \A x : Has(new, x) <=> Has(old, x) \/ x = User(r)
    BY <1>2, Appended, MessageKinds
<1>5. Ordered(Texts \cup {new})
    BY <1>2, <1>3, OrderedAppend DEF InOneOrder
<1> HIDE DEF old, new
<1>6. Texts' \subseteq Texts \cup {new}
    BY <1>1, <1>4, NewInHand DEF InOneOrder
<1>7. Types'
    BY <1>1, <1>4 DEF InOneOrder, Types, Labels, DumpLabels
<1>8. NotSaidYet'
  <2>1. SUFFICES ASSUME NEW q \in Requests
                 PROVE  /\ pc'[q] = "arrived" => Unseen(Texts', User(q))
                        /\ pc'[q] \in BeforeReply => Unseen(Texts', Assistant(q))
    BY DEF NotSaidYet
  <2>2. /\ pc'[q] = "arrived" => q # r /\ Unseen(Texts, User(q))
        /\ pc'[q] \in BeforeReply => Unseen(Texts, Assistant(q))
    BY <1>1, <1>3 DEF InOneOrder, NotSaidYet, Types
  <2>3. \A h \in Texts' : h \in Texts \/ h = new
    BY <1>6
  <2> QED BY <1>2, <1>4, <2>2, <2>3, MessageKinds DEF Unseen
<1> QED BY <1>5, <1>6, <1>7, <1>8, OrderedSubset DEF InOneOrder

LEMMA ReplyKeeps ==
    ASSUME InOneOrder, NEW r \in Requests, ReadForReply(r)
    PROVE  InOneOrder'
<1> DEFINE old == ReadHistory(ChatOf[r])
           new == Append(old, Assistant(r))
<1>1. /\ pc[r] = "readAgain" /\ pc' = [pc EXCEPT ![r] = "openReply"]
      /\ local' = [local EXCEPT ![r] = new] /\ UNCHANGED <<handle, dir, inode>>
    BY DEF ReadForReply, Goto, fileVars
<1>2. old \in Texts /\ old \in Seq(Messages)
    BY ReadIsStored, ChatAssumption DEF InOneOrder, Ordered
<1>3. Unseen(Texts, Assistant(r))
    BY <1>1 DEF InOneOrder, NotSaidYet, BeforeReply
<1>4. /\ new \in Seq(Messages) /\ \A x : Has(new, x) <=> Has(old, x) \/ x = Assistant(r)
    BY <1>2, Appended, MessageKinds
<1>5. Ordered(Texts \cup {new})
    BY <1>2, <1>3, OrderedAppend DEF InOneOrder
<1> HIDE DEF old, new
<1>6. Texts' \subseteq Texts \cup {new}
    BY <1>1, <1>4, NewInHand DEF InOneOrder
<1>7. Types'
    BY <1>1, <1>4 DEF InOneOrder, Types, Labels, DumpLabels
<1>8. NotSaidYet'
  <2>1. SUFFICES ASSUME NEW q \in Requests
                 PROVE  /\ pc'[q] = "arrived" => Unseen(Texts', User(q))
                        /\ pc'[q] \in BeforeReply => Unseen(Texts', Assistant(q))
    BY DEF NotSaidYet
  <2>2. /\ pc'[q] = "arrived" => Unseen(Texts, User(q))
        /\ pc'[q] \in BeforeReply => q # r /\ Unseen(Texts, Assistant(q))
    BY <1>1 DEF InOneOrder, NotSaidYet, Types, BeforeReply
  <2>3. \A h \in Texts' : h \in Texts \/ h = new
    BY <1>6
  <2> QED BY <1>2, <1>4, <2>2, <2>3, MessageKinds DEF Unseen
<1> QED BY <1>5, <1>6, <1>7, <1>8, OrderedSubset DEF InOneOrder

LEMMA RenameKeeps ==
    ASSUME InOneOrder, NEW r \in Requests, ReadForRename(r)
    PROVE  InOneOrder'
<1> DEFINE old == ReadHistory(ChatOf[r])
           new == WithTitle(old, r)
<1>1. /\ pc[r] = "arrived" /\ pc' = [pc EXCEPT ![r] = "openOnly"]
      /\ local' = [local EXCEPT ![r] = new] /\ UNCHANGED <<handle, dir, inode>>
    BY DEF ReadForRename, Goto, fileVars
<1>2. old \in Texts /\ old \in Seq(Messages) /\ TitleInFront(old)
    BY ReadIsStored, ChatAssumption DEF InOneOrder, Ordered
<1>3. new \in Seq(Messages) /\ \A x : ~IsTitle(x) => (Has(new, x) <=> Has(old, x))
    BY <1>2, Renamed
<1>4. Ordered(Texts \cup {new})
    BY <1>2, OrderedRename DEF InOneOrder
<1> HIDE DEF old, new
<1>5. Texts' \subseteq Texts \cup {new}
    BY <1>1, <1>3, NewInHand DEF InOneOrder
<1>6. Types'
    BY <1>1, <1>3 DEF InOneOrder, Types, Labels, DumpLabels
<1>7. NotSaidYet'
  <2>1. SUFFICES ASSUME NEW q \in Requests
                 PROVE  /\ pc'[q] = "arrived" => Unseen(Texts', User(q))
                        /\ pc'[q] \in BeforeReply => Unseen(Texts', Assistant(q))
    BY DEF NotSaidYet
  <2>2. /\ pc'[q] = "arrived" => Unseen(Texts, User(q))
        /\ pc'[q] \in BeforeReply => Unseen(Texts, Assistant(q))
    BY <1>1 DEF InOneOrder, NotSaidYet, Types, BeforeReply
  <2>3. \A h \in Texts' : h \in Texts \/ h = new
    BY <1>5
  <2> QED BY <1>2, <1>3, <2>2, <2>3, MessageKinds DEF Unseen
<1> QED BY <1>4, <1>5, <1>6, <1>7, OrderedSubset DEF InOneOrder

-----------------------------------------------------------------------------
LEMMA StartInOrder ==
    ASSUME NEW arriving, NEW quiet, NEW at, Start(arriving, quiet, at)
    PROVE  InOneOrder
<1>1. /\ pc = [r \in Requests |-> IF r \in arriving THEN "arrived" ELSE "done"]
      /\ local = [r \in Requests |-> <<>>] /\ handle = [r \in Requests |-> NoFile]
      /\ dir = [c \in Chats |-> NoFile] /\ inode = [i \in Inodes |-> Blank]
    BY DEF Start
<1>2. Types
    BY <1>1 DEF Types, Labels, DumpLabels, Blank
<1>3. Texts = {<<>>}
    BY <1>1 DEF Texts, Stored, Blank
<1>4. Ordered(Texts) /\ NotSaidYet
    BY <1>3 DEF Ordered, NotSaidYet, Unseen, Has, Before, TitleInFront
<1> QED BY <1>2, <1>4 DEF InOneOrder

LEMMA NextInOrder ==
    ASSUME InOneOrder, [Next]_vars
    PROVE  InOneOrder'
<1>1. CASE UNCHANGED vars \/ NewSecond
  <2>1. UNCHANGED <<pc, local, handle, dir, inode>>
    BY <1>1 DEF vars, NewSecond, fileVars
  <2>2. Types' /\ Texts' = Texts
    BY <2>1 DEF InOneOrder, Types, Texts, Stored
  <2> QED BY <2>1, <2>2, NothingNew
<1> QED
    BY <1>1, CrashKeeps, OpenKeeps, DumpKeeps, SaveFailsKeeps, PlainSteps, QuestionKeeps,
       ReplyKeeps, RenameKeeps
    DEF Next, Arrive, Proceed, Fail

\* app.py, /chat, /api/chats/rename, /new and /delete: read_chat_history and
\* save_chat_history without a lock lose updates, but two histories never order two
\* messages differently, no reply comes before its question, no message is there
\* twice and the title block stays in front.
THEOREM HistoriesAreOrdered == Spec => []HistoriesStayOrdered
<1>1. InOneOrder => HistoriesStayOrdered
  <2>1. SUFFICES ASSUME InOneOrder PROVE HistoriesStayOrdered
    OBVIOUS
  <2>2. Histories \subseteq Texts
    BY <2>1, ReadIsStored DEF Histories, Texts, InOneOrder
  <2>3. Ordered(Histories)
    BY <2>1, <2>2, OrderedSubset DEF InOneOrder
  <2>4. \A h \in Histories : \A m \in Said(h) : ~IsTitle(m)
    BY DEF Said, IsTitle
  <2> QED
    BY <2>3, <2>4
    DEF HistoriesStayOrdered, OrderNeverFlips, RepliesFollowQuestions, OneTitleInFront, Ordered,
        TitleInFront, IsTitle
<1>2. Init => InOneOrder
    BY StartInOrder DEF Init
<1>3. InOneOrder /\ [Next]_vars => InOneOrder'
    BY NextInOrder
<1> QED BY <1>1, <1>2, <1>3, PTL DEF Spec

-----------------------------------------------------------------------------
\* The refinement of ChatLog.  On a calm day a chat has one request at a time, which
\* finds on disk what the one before it has left there.

EndsWith(h, m) == h # <<>> /\ h[Len(h)] = m

Answering == {"remember", "prune", "generate", "fallback", "apologise", "review", "readAgain",
              "openReply"}

\* Where a request is, what it has in hand, and what its chat has on disk.
OnTrack(r) ==
    LET disk == ReadHistory(ChatOf[r]) IN
    /\ pc[r] = "arrived" => local[r] = <<>>
    /\ pc[r] = "openQuestion" => local[r] = Append(disk, User(r))
    /\ pc[r] = "dumpQuestion" => EndsWith(local[r], User(r))
    /\ pc[r] \in Answering => EndsWith(disk, User(r))
    /\ pc[r] = "openReply" => local[r] = Append(disk, Assistant(r))
    /\ pc[r] = "openOnly" => local[r] \in {<<>>, WithTitle(disk, r)}
    /\ pc[r] \in DumpLabels => handle[r] = dir[ChatOf[r]] /\ inode[handle[r]] = Blank

OneAtATime ==
    \A r, q \in Requests :
        pc[r] \notin Ended /\ pc[q] \notin Ended /\ ChatOf[r] = ChatOf[q] => r = q

FilesAreDistinct ==
    \A c, d \in Chats : dir[c] # NoFile /\ dir[c] = dir[d] => c = d

CalmDay == OneAtATime /\ FilesAreDistinct /\ \A r \in Requests : OnTrack(r)

\* A step of request r, which is or becomes the only one of its chat: the others
\* and the files of other chats are left alone.
StepOf(r) ==
    /\ \A q \in Requests \ {r} : /\ pc'[q] = pc[q] /\ local'[q] = local[q]
                                 /\ handle'[q] = handle[q]
                                 /\ ChatOf[q] = ChatOf[r] => pc[q] \in Ended
    /\ \A d \in Chats \ {ChatOf[r]} :
          dir'[d] = dir[d] /\ (dir[d] # NoFile => inode'[dir[d]] = inode[dir[d]])

LEMMA OthersStay ==
    ASSUME Types, Types', CalmDay, NEW r \in Requests, StepOf(r)
    PROVE  /\ OneAtATime'
           /\ \A q \in Requests \ {r} : OnTrack(q)'
           /\ \A d \in Chats \ {ChatOf[r]} : Log(d)' = Log(d)
<1>1. \A q \in Requests : ChatOf[q] \in Chats
    BY ChatAssumption
<1>2. OneAtATime'
    BY <1>1 DEF StepOf, CalmDay, OneAtATime
<1>3. \A d \in Chats \ {ChatOf[r]} : ReadHistory(d)' = ReadHistory(d)
    BY DEF StepOf, ReadHistory, Readable
<1>4. ASSUME NEW q \in Requests \ {r} PROVE OnTrack(q)'
  <2>1. CASE ChatOf[q] = ChatOf[r]
    BY <2>1 DEF StepOf, CalmDay, OnTrack, Ended, DumpLabels, Answering
  <2>2. CASE ChatOf[q] # ChatOf[r]
    <3>1. /\ pc'[q] = pc[q] /\ local'[q] = local[q] /\ handle'[q] = handle[q]
          /\ dir'[ChatOf[q]] = dir[ChatOf[q]]
          /\ dir[ChatOf[q]] # NoFile => inode'[dir[ChatOf[q]]] = inode[dir[ChatOf[q]]]
          /\ ReadHistory(ChatOf[q])' = ReadHistory(ChatOf[q])
      BY <1>1, <1>3, <2>2 DEF StepOf
    <3>2. OnTrack(q) /\ (pc[q] \in DumpLabels => handle[q] # NoFile)
      BY DEF CalmDay, Types
    <3> QED BY <3>1, <3>2 DEF OnTrack
  <2> QED BY <2>1, <2>2
<1>5. ASSUME NEW d \in Chats \ {ChatOf[r]} PROVE Log(d)' = Log(d)
  <2> DEFINE W == {q \in Busy(d) : pc[q] \in DumpLabels}
  <2>1. W' = W /\ \A q \in W : local'[q] = local[q]
    BY <1>5 DEF Busy, StepOf
  <2>2. W # {} => (CHOOSE q \in W : TRUE) \in W
    OBVIOUS
  <2>3. ReadHistory(d)' = ReadHistory(d)
    BY <1>3
  <2>4. Log(d) = IF W # {} THEN local[CHOOSE q \in W : TRUE] ELSE ReadHistory(d)
    BY DEF Log
  <2>5. Log(d)' = IF W' # {} THEN local'[CHOOSE q \in W' : TRUE] ELSE ReadHistory(d)'
    BY DEF Log
  <2> DEFINE w == CHOOSE q \in W : TRUE
  <2>6. Log(d)' = IF W # {} THEN local'[w] ELSE ReadHistory(d)'
    <3> HIDE DEF W
    <3> QED BY <2>1, <2>5, Zenon
  <2>7. W # {} => local'[w] = local[w]
    BY <2>1, <2>2
  <2> HIDE DEF W, w
  <2> QED BY <2>3, <2>4, <2>6, <2>7 DEF w
<1> QED BY <1>2, <1>4, <1>5

\* The log of a chat is what its writer has in hand, or else what is on disk.
LEMMA LogOfWriter ==
    ASSUME OneAtATime, NEW r \in Requests, pc[r] \in DumpLabels
    PROVE  Log(ChatOf[r]) = local[r]
<1> DEFINE W == {q \in Busy(ChatOf[r]) : pc[q] \in DumpLabels}
<1>1. r \in W /\ \A q \in W : q = r
    BY DEF OneAtATime, Busy, DumpLabels, Ended
<1>2. (CHOOSE q \in W : TRUE) = r
    BY <1>1
<1> QED BY <1>1, <1>2 DEF Log

LEMMA LogOnDisk ==
    ASSUME NEW c \in Chats, \A q \in Requests : ChatOf[q] = c => pc[q] \notin DumpLabels
    PROVE  Log(c) = ReadHistory(c)
BY DEF Log, Busy

\* While request r is not in a save, its chat has its log on disk.
LEMMA LogOfBusy ==
    ASSUME NEW r \in Requests, pc[r] \notin DumpLabels,
           \A q \in Requests \ {r} : ChatOf[q] = ChatOf[r] => pc[q] \in Ended
    PROVE  Log(ChatOf[r]) = ReadHistory(ChatOf[r])
<1>1. ChatOf[r] \in Chats
    BY ChatAssumption
<1>2. \A q \in Requests : ChatOf[q] = ChatOf[r] => pc[q] \notin DumpLabels
    BY DEF Ended, DumpLabels
<1> QED BY <1>1, <1>2, LogOnDisk

\* A request that is let in finds no other at work on its chat.
LEMMA AdmittedAlone ==
    ASSUME calm, NEW r \in Requests, Admit(r)
    PROVE  \A q \in Requests : ChatOf[q] = ChatOf[r] => pc[q] \in Ended
<1>1. Busy(ChatOf[r]) \subseteq Requests /\ IsFiniteSet(Busy(ChatOf[r]))
    BY ChatAssumption, FS_Subset DEF Busy
<1>2. Cardinality(Busy(ChatOf[r])) \in Nat /\ Cardinality(Busy(ChatOf[r])) < 1
    BY <1>1, FS_CardinalityType DEF Admit
<1>3. Busy(ChatOf[r]) = {}
    BY <1>1, <1>2, FS_EmptySet
<1> QED BY <1>3 DEF Busy

\* Only the log of this request's chat changes, if at all.
LEMMA LogsAfter ==
    ASSUME NEW r \in Requests, \A d \in Chats \ {ChatOf[r]} : Log(d)' = Log(d)
    PROVE  logs' = [logs EXCEPT ![ChatOf[r]] = Log(ChatOf[r])'] /\ ChatOf[r] \in Chats
<1>1. ChatOf[r] \in Chats
    BY ChatAssumption
<1>2. logs = [c \in Chats |-> Log(c)] /\ logs' = [c \in Chats |-> Log(c)']
    BY DEF logs
<1> QED BY <1>1, <1>2

\* What a step of request r has to show, for the next calm day and the promise.
Lawful(r) == CalmDay' /\ (logs' = logs \/ Promise!Next)

LEMMA Silent ==
    ASSUME Types, Types', CalmDay, NEW r \in Requests, StepOf(r), OnTrack(r)', FilesAreDistinct',
           Log(ChatOf[r])' = Log(ChatOf[r])
    PROVE  Lawful(r)
<1>1. CalmDay'
    BY OthersStay DEF CalmDay
<1>2. logs' = logs
    BY OthersStay DEF logs
<1> QED BY <1>1, <1>2 DEF Lawful

LEMMA OthersHaveEnded ==
    ASSUME CalmDay, NEW r \in Requests, pc[r] \notin Ended
    PROVE  \A q \in Requests \ {r} : ChatOf[q] = ChatOf[r] => pc[q] \in Ended
BY DEF CalmDay, OneAtATime

\* A request ends, or is refused, and leaves everything as it is.
LEMMA CalmEnd ==
    ASSUME Types, CalmDay, NEW r \in Requests, NEW to \in {"done", "gone"},
           pc' = [pc EXCEPT ![r] = to], pc[r] \notin DumpLabels,
           UNCHANGED <<local, handle, dir, inode>>
    PROVE  Lawful(r)
<1>1. OneAtATime' /\ FilesAreDistinct'
    BY DEF CalmDay, OneAtATime, FilesAreDistinct, Types, Ended
<1>2. \A c \in Chats : ReadHistory(c)' = ReadHistory(c)
    BY DEF ReadHistory, Readable
<1>3. ASSUME NEW q \in Requests PROVE OnTrack(q)'
  <2>1. CASE q = r
    BY <2>1 DEF Types, OnTrack, Answering, DumpLabels
  <2>2. CASE q # r
    <3>1. pc'[q] = pc[q] /\ ReadHistory(ChatOf[q])' = ReadHistory(ChatOf[q])
      BY <1>2, <2>2, ChatAssumption DEF Types
    <3> QED BY <3>1 DEF CalmDay, OnTrack
  <2> QED BY <2>1, <2>2
<1>4. logs' = logs
  <2>1. SUFFICES ASSUME NEW c \in Chats PROVE Log(c)' = Log(c)
    BY DEF logs
  <2> DEFINE W == {q \in Busy(c) : pc[q] \in DumpLabels}
  <2>2. W' = W
    BY DEF Busy, Types, DumpLabels, Ended
  <2>3. Log(c) = IF W # {} THEN local[CHOOSE q \in W : TRUE] ELSE ReadHistory(c)
    BY DEF Log
  <2>4. Log(c)' = IF W' # {} THEN local'[CHOOSE q \in W' : TRUE] ELSE ReadHistory(c)'
    BY DEF Log
  <2> DEFINE w == CHOOSE q \in W : TRUE
  <2>5. Log(c)' = IF W # {} THEN local'[w] ELSE ReadHistory(c)'
    <3> HIDE DEF W
    <3> QED BY <2>2, <2>4, Zenon
  <2> HIDE DEF W, w
  <2> QED BY <1>2, <2>3, <2>5 DEF w
<1> QED BY <1>1, <1>3, <1>4 DEF Lawful, CalmDay

\* A request goes on by itself, and touches no file.
LEMMA CalmMove ==
    ASSUME Types, Types', CalmDay, NEW r \in Requests, NEW to,
           pc' = [pc EXCEPT ![r] = to], pc[r] \notin DumpLabels, to \notin DumpLabels,
           \A q \in Requests \ {r} : ChatOf[q] = ChatOf[r] => pc[q] \in Ended,
           \A q \in Requests \ {r} : local'[q] = local[q],
           UNCHANGED <<handle, dir, inode>>,
           ReadHistory(ChatOf[r])' = ReadHistory(ChatOf[r]) => OnTrack(r)'
    PROVE  Lawful(r)
<1>1. \A c \in Chats : ReadHistory(c)' = ReadHistory(c)
    BY DEF ReadHistory, Readable
<1>2. StepOf(r) /\ FilesAreDistinct' /\ OnTrack(r)'
    BY <1>1, ChatAssumption DEF StepOf, Types, CalmDay, FilesAreDistinct
<1>3. Log(ChatOf[r]) = ReadHistory(ChatOf[r])
    BY LogOfBusy
<1>4. Log(ChatOf[r])' = ReadHistory(ChatOf[r])'
  <2>1. \A q \in Requests : ChatOf[q] = ChatOf[r] => pc'[q] \notin DumpLabels
    BY DEF Types, Ended, DumpLabels
  <2> QED BY <2>1 DEF Log, Busy
<1> QED BY <1>1, <1>2, <1>3, <1>4, Silent, ChatAssumption

\* From a question on disk to its reply.
LEMMA CalmAnswering ==
    ASSUME Types, Types', CalmDay, NEW r \in Requests, NEW to \in Answering \ {"openReply"},
           pc[r] \in Answering, pc' = [pc EXCEPT ![r] = to],
           UNCHANGED <<local, handle, dir, inode>>
    PROVE  Lawful(r)
<1>1. pc[r] \notin Ended /\ pc[r] \notin DumpLabels /\ to \notin DumpLabels
    BY DEF Answering, Ended, DumpLabels
<1>2. ReadHistory(ChatOf[r])' = ReadHistory(ChatOf[r]) => OnTrack(r)'
    BY DEF CalmDay, OnTrack, Types, Answering, DumpLabels
<1> QED BY <1>1, <1>2, OthersHaveEnded, CalmMove

LEMMA CalmPlainSteps ==
    ASSUME Types, Types', CalmDay, calm, NEW r \in Requests,
           \/ RefuseChat(r) \/ Remember(r) \/ Prune(r) \/ NotRemembered(r)
           \/ Generate(r) \/ GenerateFails(r) \/ Apologise(r) \/ Review(r) \/ Disconnect(r)
           \/ RememberReply(r) \/ NewChat(r) \/ TestExists(r) \/ Export(r)
    PROVE  Lawful(r)
<1>1. CASE RefuseChat(r) \/ Disconnect(r) \/ RememberReply(r) \/ Export(r)
  <2>1. PICK to \in {"done", "gone"} : pc' = [pc EXCEPT ![r] = to]
    BY <1>1 DEF RefuseChat, Disconnect, RememberReply, Export, Goto
  <2>2. pc[r] \notin DumpLabels /\ UNCHANGED <<local, handle, dir, inode>>
    BY <1>1 DEF RefuseChat, Disconnect, RememberReply, Export, Goto, DumpLabels, fileVars
  <2> QED BY <2>1, <2>2, CalmEnd
<1>2. CASE Remember(r) \/ Prune(r) \/ Generate(r) \/ GenerateFails(r) \/ Apologise(r) \/ Review(r)
  <2>1. PICK to \in Answering \ {"openReply"} : pc' = [pc EXCEPT ![r] = to]
    BY <1>2 DEF Remember, Prune, Generate, GenerateFails, Apologise, Review, Goto, Answering
  <2>2. pc[r] \in Answering /\ UNCHANGED <<local, handle, dir, inode>>
    BY <1>2 DEF Remember, Prune, Generate, GenerateFails, Apologise, Review, Goto, Answering,
           fileVars
  <2> QED BY <2>1, <2>2, CalmAnswering
<1>3. CASE NotRemembered(r)
  <2>1. UNCHANGED <<local, handle, dir, inode>>
    BY <1>3 DEF NotRemembered, fileVars
  <2>2. CASE Goto(r, "remember", "prune")
    BY <2>1, <2>2, CalmAnswering DEF Goto, Answering
  <2>3. CASE Goto(r, "rememberReply", "done")
    BY <2>1, <2>3, CalmEnd DEF Goto, DumpLabels
  <2> QED BY <1>3, <2>2, <2>3 DEF NotRemembered
<1>4. CASE NewChat(r)
  <2>1. /\ pc[r] = "arrived" /\ pc' = [pc EXCEPT ![r] = "openOnly"] /\ Admit(r)
        /\ UNCHANGED <<local, handle, dir, inode>>
    BY <1>4 DEF NewChat, Goto, fileVars
  <2>2. ReadHistory(ChatOf[r])' = ReadHistory(ChatOf[r]) => OnTrack(r)'
    BY <2>1 DEF CalmDay, OnTrack, Types, Answering, DumpLabels
  <2> QED BY <2>1, <2>2, AdmittedAlone, CalmMove DEF DumpLabels
<1>5. CASE TestExists(r)
  <2>1. /\ pc[r] = "arrived" /\ Admit(r) /\ UNCHANGED <<local, handle, dir, inode>>
        /\ pc' = [pc EXCEPT ![r] = "remove"] \/ pc' = [pc EXCEPT ![r] = "done"]
    BY <1>5 DEF TestExists, Goto, fileVars
  <2>2. CASE pc' = [pc EXCEPT ![r] = "done"]
    BY <2>1, <2>2, CalmEnd DEF DumpLabels
  <2>3. CASE pc' = [pc EXCEPT ![r] = "remove"]
    <3>1. OnTrack(r)'
      BY <2>3 DEF OnTrack, Types, Answering, DumpLabels
    <3> QED BY <2>1, <2>3, <3>1, AdmittedAlone, CalmMove DEF DumpLabels
  <2> QED BY <2>1, <2>2, <2>3
<1> QED BY <1>1, <1>2, <1>3, <1>4, <1>5

LEMMA CalmReads ==
    ASSUME Types, Types', CalmDay, calm, NEW r \in Requests,
           ReadForQuestion(r) \/ ReadForReply(r) \/ ReadForRename(r)
    PROVE  Lawful(r)
<1>1. UNCHANGED <<handle, dir, inode>> /\ \A q \in Requests \ {r} : local'[q] = local[q]
    BY DEF ReadForQuestion, ReadForReply, ReadForRename, fileVars, Types
<1>2. CASE ReadForQuestion(r)
  <2>1. /\ pc[r] = "arrived" /\ pc' = [pc EXCEPT ![r] = "openQuestion"] /\ Admit(r)
        /\ local'[r] = Append(ReadHistory(ChatOf[r]), User(r))
    BY <1>2 DEF ReadForQuestion, Goto, Types
  <2>2. ReadHistory(ChatOf[r])' = ReadHistory(ChatOf[r]) => OnTrack(r)'
    BY <2>1 DEF OnTrack, Types, Answering, DumpLabels
  <2> QED BY <1>1, <2>1, <2>2, AdmittedAlone, CalmMove DEF DumpLabels
<1>3. CASE ReadForReply(r)
  <2>1. /\ pc[r] = "readAgain" /\ pc' = [pc EXCEPT ![r] = "openReply"]
        /\ local'[r] = Append(ReadHistory(ChatOf[r]), Assistant(r))
    BY <1>3 DEF ReadForReply, Goto, Types
  <2>2. ReadHistory(ChatOf[r])' = ReadHistory(ChatOf[r]) => OnTrack(r)'
    BY <2>1 DEF CalmDay, OnTrack, Types, Answering, DumpLabels
  <2> QED BY <1>1, <2>1, <2>2, OthersHaveEnded, CalmMove DEF DumpLabels, Ended
<1>4. CASE ReadForRename(r)
  <2>1. /\ pc[r] = "arrived" /\ pc' = [pc EXCEPT ![r] = "openOnly"] /\ Admit(r)
        /\ local'[r] = WithTitle(ReadHistory(ChatOf[r]), r)
    BY <1>4 DEF ReadForRename, Goto, Types
  <2>2. ReadHistory(ChatOf[r])' = ReadHistory(ChatOf[r]) => OnTrack(r)'
    BY <2>1 DEF OnTrack, Types, Answering, DumpLabels
  <2> QED BY <1>1, <2>1, <2>2, AdmittedAlone, CalmMove DEF DumpLabels
<1> QED BY <1>2, <1>3, <1>4

\* Two ways to write the same: the code puts a title where one is, the promise in
\* front of the rest.
LEMMA TitleOfPromise ==
    ASSUME NEW h \in Seq(Messages), TitleInFront(h), NEW r \in Requests
    PROVE  Promise!WithTitle(h, r) = WithTitle(h, r)
<1> DEFINE n == Len(h)
           t == Title(r)
           blocks == {k \in DOMAIN h : h[k].role = "metadata"}
<1>0. n \in Nat /\ DOMAIN h = 1..n /\ Promise!Title(r) = t
    BY DEF Promise!Title, Title
<1>1. CASE blocks = {}
  <2>1. ~Promise!Titled(h)
    BY <1>0, <1>1 DEF Promise!Titled
  <2> QED BY <1>0, <1>1, <2>1 DEF Promise!WithTitle, WithTitle
<1>2. CASE blocks # {}
  <2>1. blocks = {1} /\ 1 \in 1..n
    BY <1>0, <1>2 DEF TitleInFront, IsTitle
  <2>2. (CHOOSE k \in blocks : \A j \in blocks : k <= j) = 1
    BY <2>1
  <2>3. WithTitle(h, r) = [h EXCEPT ![1] = t]
    BY <1>2, <2>2 DEF WithTitle
  <2>4. Promise!Titled(h)
    BY <1>0, <2>1 DEF Promise!Titled
  <2>5. Promise!WithTitle(h, r) = <<t>> \o Tail(h)
    BY <1>0, <2>4 DEF Promise!WithTitle
  <2>6. t \in Messages
    BY MessageKinds
  <2>7. Tail(h) \in Seq(Messages) /\ Len(Tail(h)) = n - 1 /\ \A k \in 1..(n - 1) : Tail(h)[k] = h[k + 1]
    BY <1>0, <2>1
  <2> DEFINE g == <<t>> \o Tail(h)
             e == [h EXCEPT ![1] = t]
  <2>8. DOMAIN g = 1..n /\ DOMAIN e = 1..n /\ g \in Seq(Messages) /\ e \in Seq(Messages)
    BY <1>0, <2>1, <2>6, <2>7
  <2>9. \A k \in 1..n : g[k] = e[k]
    <3>1. SUFFICES ASSUME NEW k \in 1..n PROVE g[k] = e[k]
      OBVIOUS
    <3>2. CASE k = 1
      BY <1>0, <2>6, <2>7, <3>2
    <3>3. CASE k # 1
      <4>1. k - 1 \in 1..(n - 1) /\ g[k] = Tail(h)[k - 1]
        BY <1>0, <2>6, <2>7, <3>3
      <4> QED BY <1>0, <2>7, <3>3, <4>1
    <3> QED BY <3>2, <3>3
  <2> HIDE DEF g, e
  <2>10. g = e
    BY <2>8, <2>9
  <2> QED BY <2>3, <2>5, <2>10 DEF g, e
<1> QED BY <1>1, <1>2

\* A request opens the file of its chat, which nobody else has open, to write the
\* next history of the chat.
LEMMA CalmOpen ==
    ASSUME InOneOrder, Types', CalmDay, NEW r \in Requests, OpenForWrite(r)
    PROVE  Lawful(r)
<1> DEFINE c == ChatOf[r]
           i == IF dir[c] = NoFile THEN Unused ELSE dir[c]
           disk == ReadHistory(c)
<1>1. /\ pc[r] \in OpenLabels /\ pc' = [pc EXCEPT ![r] = DumpAfter[pc[r]]]
      /\ dir' = [dir EXCEPT ![c] = i] /\ inode' = [inode EXCEPT ![i] = Blank]
      /\ handle' = [handle EXCEPT ![r] = i] /\ local' = local
    BY DEF OpenForWrite
<1>2. Types /\ c \in Chats /\ handle[r] = NoFile
    BY <1>1, ChatAssumption, LabelsOfSaves DEF InOneOrder, Types
<1>3. i \in Inodes /\ i # NoFile /\ \A d \in Chats \ {c} : dir[d] # i
  <2>1. CASE dir[c] = NoFile
    BY <1>2, <2>1, UnusedIsThere DEF Inodes, NoFile, InUse
  <2>2. CASE dir[c] # NoFile
    BY <1>2, <2>2 DEF Types, CalmDay, FilesAreDistinct
  <2> QED BY <2>1, <2>2
<1>4. /\ pc'[r] \in DumpLabels /\ pc[r] \notin DumpLabels /\ pc[r] \notin Ended
      /\ pc'[r] = DumpAfter[pc[r]] /\ handle'[r] = i /\ dir'[c] = i /\ inode'[i] = Blank
    BY <1>1, <1>2, <1>3, LabelsOfSaves DEF Types, OpenLabels, Ended
<1>5. \A q \in Requests \ {r} : ChatOf[q] = c => pc[q] \in Ended
    BY <1>4, OthersHaveEnded
<1>6. Log(c) = disk
    BY <1>4, <1>5, LogOfBusy
<1> HIDE DEF i, disk
<1>7. StepOf(r) /\ FilesAreDistinct'
  <2>1. \A q \in Requests \ {r} : /\ pc'[q] = pc[q] /\ local'[q] = local[q]
                                   /\ handle'[q] = handle[q]
    BY <1>1, <1>2 DEF Types
  <2>2. \A d \in Chats \ {c} :
            dir'[d] = dir[d] /\ (dir[d] # NoFile => inode'[dir[d]] = inode[dir[d]])
    BY <1>1, <1>2, <1>3 DEF Types
  <2>3. FilesAreDistinct'
    BY <1>2, <1>3, <1>4, <2>2 DEF FilesAreDistinct, CalmDay
  <2> QED BY <1>5, <2>1, <2>2, <2>3 DEF StepOf
<1>8. OnTrack(r)
    BY DEF CalmDay
<1>9. disk \in Seq(Messages) /\ TitleInFront(disk)
    BY <1>2, ReadIsStored DEF InOneOrder, Ordered, disk
<1>10. OnTrack(r)'
  <2>1. pc'[r] = "dumpQuestion" => EndsWith(local'[r], User(r))
    <3>1. SUFFICES ASSUME pc'[r] = "dumpQuestion" PROVE EndsWith(local[r], User(r))
      BY <1>1
    <3>2. pc[r] = "openQuestion"
      BY <1>1, <1>4, <3>1 DEF OpenLabels, DumpAfter
    <3>3. local[r] = Append(disk, User(r)) /\ User(r) \in Messages
      BY <1>8, <3>2, MessageKinds DEF OnTrack, disk
    <3> QED BY <1>9, <3>3 DEF EndsWith
  <2> QED BY <1>4, <2>1 DEF OnTrack, DumpLabels, Answering
<1>11. CalmDay' /\ \A d \in Chats \ {c} : Log(d)' = Log(d)
    BY <1>2, <1>7, <1>10, OthersStay DEF CalmDay
<1>12. Log(c)' = local[r]
  <2> DEFINE W == {q \in Busy(c) : pc[q] \in DumpLabels}
  <2>1. r \in W' /\ \A q \in W' : q = r
    BY <1>4, <1>11 DEF CalmDay, OneAtATime, Busy, DumpLabels, Ended
  <2>2. (CHOOSE q \in W' : TRUE) = r
    <3> HIDE DEF W
    <3> QED BY <2>1
  <2>3. Log(c)' = IF W' # {} THEN local'[CHOOSE q \in W' : TRUE] ELSE ReadHistory(c)'
    BY DEF Log
  <2> HIDE DEF W
  <2> QED BY <1>1, <2>1, <2>2, <2>3
<1>13. logs' = [logs EXCEPT ![c] = local[r]] /\ logs[c] = disk
    BY <1>2, <1>6, <1>11, <1>12, LogsAfter DEF logs
<1>14. Promise!Next
  <2>1. CASE pc[r] = "openQuestion"
    <3>1. local[r] = Append(disk, User(r))
      BY <1>8, <2>1 DEF OnTrack, disk
    <3>2. Promise!Ask(c, r)
      BY <1>13, <3>1 DEF Promise!Ask, Promise!User, User
    <3> QED BY <1>2, <3>2 DEF Promise!Next
  <2>2. CASE pc[r] = "openReply"
    <3>1. local[r] = Append(disk, Assistant(r)) /\ EndsWith(disk, User(r))
      BY <1>8, <2>2 DEF OnTrack, disk, Answering
    <3>2. Promise!Reply(c, r)
      BY <1>13, <3>1
      DEF Promise!Reply, Promise!Assistant, Promise!User, User, Assistant, EndsWith
    <3> QED BY <1>2, <3>2 DEF Promise!Next
  <2>3. CASE pc[r] = "openOnly"
    <3>1. local[r] \in {<<>>, WithTitle(disk, r)}
      BY <1>8, <2>3 DEF OnTrack, disk
    <3>2. Promise!Delete(c) \/ Promise!Rename(c, r)
      BY <1>9, <1>13, <3>1, TitleOfPromise DEF Promise!Delete, Promise!Rename
    <3> QED BY <1>2, <3>2 DEF Promise!Next
  <2> QED BY <1>1, <2>1, <2>2, <2>3 DEF OpenLabels
<1> QED BY <1>11, <1>14 DEF Lawful

\* What a request has in hand gets to the file it opened, which is still empty.
LEMMA CalmDump ==
    ASSUME Types, Types', CalmDay, NEW r \in Requests, Dump(r)
    PROVE  Lawful(r)
<1> DEFINE c == ChatOf[r]
           i == handle[r]
<1>1. /\ pc[r] \in DumpLabels /\ pc' = [pc EXCEPT ![r] = SaveThen[pc[r]]]
      /\ handle' = [handle EXCEPT ![r] = NoFile] /\ local' = [local EXCEPT ![r] = <<>>]
      /\ dir' = dir
    BY DEF Dump
<1>2. c \in Chats /\ OnTrack(r) /\ i \in Inodes /\ i # NoFile
    BY <1>1, ChatAssumption DEF CalmDay, Types
<1>3. i = dir[c] /\ inode[i] = Blank
    BY <1>1, <1>2 DEF OnTrack
<1>4. inode' = [inode EXCEPT ![i] = <<local[r]>>]
    BY <1>3 DEF Dump, Overwrite, Clean
<1>5. pc'[r] = SaveThen[pc[r]] /\ pc'[r] \notin DumpLabels /\ pc[r] \notin Ended
    BY <1>1, LabelsOfSaves DEF Types, DumpLabels, Ended
<1>6. \A q \in Requests \ {r} : ChatOf[q] = c => pc[q] \in Ended
    BY <1>5, OthersHaveEnded
<1>7. StepOf(r) /\ FilesAreDistinct'
  <2>1. \A q \in Requests \ {r} : /\ pc'[q] = pc[q] /\ local'[q] = local[q]
                                   /\ handle'[q] = handle[q]
    BY <1>1 DEF Types
  <2>2. \A d \in Chats \ {c} :
            dir'[d] = dir[d] /\ (dir[d] # NoFile => inode'[dir[d]] = inode[dir[d]])
    BY <1>1, <1>2, <1>3, <1>4 DEF Types, CalmDay, FilesAreDistinct
  <2>3. FilesAreDistinct'
    BY <1>1 DEF FilesAreDistinct, CalmDay
  <2> QED BY <1>6, <2>1, <2>2, <2>3 DEF StepOf
<1>8. ReadHistory(c)' = local[r]
  <2>1. inode'[dir'[c]] = <<local[r]>>
    BY <1>1, <1>2, <1>3, <1>4 DEF Types
  <2> QED BY <1>1, <1>2, <1>3, <2>1 DEF ReadHistory, Readable
<1>9. Log(c) = local[r]
    BY <1>1, LogOfWriter DEF CalmDay
<1>10. Log(c)' = ReadHistory(c)'
  <2>1. \A q \in Requests : ChatOf[q] = c => pc'[q] \notin DumpLabels
    BY <1>1, <1>5, <1>6 DEF Types, Ended, DumpLabels
  <2> QED BY <2>1 DEF Log, Busy
<1>11. OnTrack(r)'
  <2>1. CASE pc[r] = "dumpQuestion"
    <3>1. pc'[r] = "remember" /\ EndsWith(ReadHistory(c)', User(r))
      BY <1>2, <1>5, <1>8, <2>1 DEF OnTrack, SaveThen
    <3> QED BY <3>1 DEF OnTrack, DumpLabels
  <2>2. CASE pc[r] # "dumpQuestion"
    <3>1. pc'[r] \in {"rememberReply", "done"}
      BY <1>1, <1>5, <2>2 DEF SaveThen, DumpLabels
    <3> QED BY <3>1 DEF OnTrack, DumpLabels, Answering
  <2> QED BY <2>1, <2>2
<1> QED BY <1>7, <1>8, <1>9, <1>10, <1>11, Silent

\* os.remove takes the whole history.
LEMMA CalmRemove ==
    ASSUME Types, Types', CalmDay, NEW r \in Requests, Remove(r)
    PROVE  Lawful(r)
<1> DEFINE c == ChatOf[r]
<1>1. /\ pc[r] = "remove" /\ pc' = [pc EXCEPT ![r] = "done"]
      /\ dir' = [dir EXCEPT ![c] = NoFile] /\ UNCHANGED <<local, handle, inode>>
    BY DEF Remove, Goto
<1>2. c \in Chats
    BY ChatAssumption
<1>3. \A q \in Requests \ {r} : ChatOf[q] = c => pc[q] \in Ended
    BY <1>1, OthersHaveEnded DEF Ended
<1>4. StepOf(r) /\ FilesAreDistinct' /\ OnTrack(r)'
    BY <1>1, <1>2, <1>3
    DEF StepOf, FilesAreDistinct, CalmDay, OnTrack, Types, DumpLabels, Answering
<1>5. CalmDay' /\ \A d \in Chats \ {c} : Log(d)' = Log(d)
    BY <1>4, OthersStay DEF CalmDay
<1>6. Log(c)' = <<>>
  <2>1. \A q \in Requests : ChatOf[q] = c => pc'[q] \notin DumpLabels
    BY <1>1, <1>3 DEF Types, Ended, DumpLabels
  <2>2. Log(c)' = ReadHistory(c)'
    BY <2>1 DEF Log, Busy
  <2> QED BY <1>1, <1>2, <2>2 DEF ReadHistory, Readable, Types
<1>7. Promise!Delete(c)
    BY <1>5, <1>6, LogsAfter DEF Promise!Delete
<1> QED BY <1>2, <1>5, <1>7 DEF Lawful, Promise!Next

LEMMA CalmStep ==
    ASSUME InOneOrder, InOneOrder', calm => CalmDay, [Next]_vars
    PROVE  /\ calm' => CalmDay'
           /\ calm => logs' = logs \/ Promise!Next
<1>1. calm' = calm
    BY DEF Next, vars, Crash, NewSecond, Arrive, Proceed, Fail, boundVars, DiskError,
           RefuseChat, ReadForQuestion, ReadForRename, NewChat, TestExists, Export, OpenForWrite,
           Dump, Remember, Prune, NotRemembered, Generate, GenerateFails, Apologise, Review,
           ReadForReply, RememberReply, Remove, SaveFails, PruneFails, Disconnect
<1>2. SUFFICES ASSUME calm PROVE CalmDay' /\ (logs' = logs \/ Promise!Next)
    BY <1>1
<1>3. CalmDay /\ Types /\ Types'
    BY <1>2 DEF InOneOrder
<1>4. CASE UNCHANGED vars \/ NewSecond
  <2>1. UNCHANGED <<pc, local, handle, dir, inode>>
    BY <1>4 DEF vars, NewSecond, fileVars
  <2>2. \A c \in Chats : ReadHistory(c)' = ReadHistory(c) /\ Log(c)' = Log(c)
    BY <2>1 DEF ReadHistory, Readable, Log, Busy
  <2>3. \A r \in Requests : OnTrack(r)'
    BY <1>3, <2>1, <2>2, ChatAssumption DEF CalmDay, OnTrack
  <2>4. CalmDay'
    BY <1>3, <2>1, <2>3 DEF CalmDay, OneAtATime, FilesAreDistinct
  <2> QED BY <2>2, <2>4 DEF logs
<1>5. ASSUME NEW r \in Requests, Arrive(r) \/ Proceed(r) \/ Fail(r) PROVE Lawful(r)
    BY <1>2, <1>3, <1>5, CalmPlainSteps, CalmReads, CalmOpen, CalmDump, CalmRemove
    DEF Arrive, Proceed, Fail, SaveFails, PruneFails, DiskError
<1>6. ~Crash
    BY <1>2 DEF Crash
<1> QED BY <1>4, <1>5, <1>6 DEF Next, Lawful

\* app.py: when the requests of one chat do not overlap and nothing fails, every
\* chat is the log that ChatLog promises, however the requests of different chats
\* interleave: each question at the end, its reply directly behind it, one title in
\* front, and nothing lost unless the chat is deleted.
THEOREM ChatsKeepTheirLog == Spec => ImplementsChatLog
<1>1. Init => InOneOrder /\ (calm => CalmDay) /\ Promise!Init
  <2>1. SUFFICES ASSUME NEW quiet \in BOOLEAN, Start(Requests, quiet, 0)
                 PROVE  InOneOrder /\ CalmDay /\ Promise!Init
    BY DEF Init
  <2>2. /\ pc = [r \in Requests |-> "arrived"] /\ local = [r \in Requests |-> <<>>]
        /\ dir = [c \in Chats |-> NoFile]
    BY <2>1 DEF Start
  <2>3. CalmDay
    BY <2>2, ChatAssumption
    DEF CalmDay, OneAtATime, FilesAreDistinct, OnTrack, Ended, DumpLabels, Answering
  <2>4. \A c \in Chats : Log(c) = <<>>
    BY <2>2 DEF Log, Busy, Ended, ReadHistory, Readable
  <2>5. Promise!Init
    BY <2>4 DEF Promise!Init, logs
  <2> QED BY <2>1, <2>3, <2>5, StartInOrder
<1>2. InOneOrder /\ (calm => CalmDay) /\ [Next]_vars
        => InOneOrder' /\ (calm => CalmDay)' /\ [calm => Promise!Next]_logs
    BY NextInOrder, CalmStep
<1> QED BY <1>1, <1>2, PTL DEF Spec, ImplementsChatLog
=============================================================================
