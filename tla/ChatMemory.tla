----------------------------- MODULE ChatMemory -----------------------------
(***************************************************************************)
(* app.py: the SQLite table of remembered messages, with save_to_memory,   *)
(* prune_old_memory and get_memory_context.  Each of the three opens its   *)
(* own connection and runs one statement, so each is one atomic step.      *)
(*                                                                         *)
(* A row's timestamp is CURRENT_TIMESTAMP, which has a resolution of one   *)
(* second, and both queries order by it alone: among rows of one second    *)
(* any order is a correct answer of the database.                          *)
(***************************************************************************)
EXTENDS Integers, FiniteSets, Sequences

CONSTANTS
    Chats,        \* values of the column user_id, which holds a chat id
    Texts,        \* what a row may remember
    KeepLast,     \* prune_old_memory(keep_last)
    RecallLimit,  \* MEMORY_RECALL_LIMIT: 10, of the 500 that are kept
    MaxRows,      \* bound: how many rows are ever inserted
    MaxSeconds    \* bound: the clock stops here

ASSUME MemoryAssumption ==
    /\ KeepLast \in Nat /\ RecallLimit \in 0..KeepLast
    /\ MaxRows \in Nat /\ MaxSeconds \in Nat

VARIABLES
    second,    \* CURRENT_TIMESTAMP
    memory,    \* the rows of the table messages
    nextId,    \* AUTOINCREMENT never gives an id twice
    recalled   \* what the last get_memory_context returned

memoryVars == <<second, memory, nextId, recalled>>

Rows == [id : 1..MaxRows, chat : Chats, text : Texts, at : 0..MaxSeconds]

MemoryTypeOK ==
    /\ second \in 0..MaxSeconds
    /\ memory \subseteq Rows
    /\ nextId \in 1..(MaxRows + 1)
    /\ recalled \in Seq(Rows) /\ Len(recalled) <= RecallLimit

MemoryInit ==
    /\ second = 0
    /\ memory = {}
    /\ nextId = 1
    /\ recalled = <<>>

RowsOf(chat) == {row \in memory : row.chat = chat}

\* ORDER BY timestamp DESC LIMIT limit: the sets of rows the query may return.
Newest(rows, limit) ==
    {kept \in SUBSET rows :
        /\ Cardinality(kept) = IF limit < Cardinality(rows) THEN limit ELSE Cardinality(rows)
        /\ \A in \in kept, out \in rows \ kept : in.at >= out.at}

\* rows.reverse(): the newest row last, rows of one second in any order.
InOrder(rows) ==
    {s \in [1..Cardinality(rows) -> rows] :
        \A i, j \in 1..Cardinality(rows) : i < j => s[i] # s[j] /\ s[i].at <= s[j].at}

NewSecond ==
    /\ second < MaxSeconds
    /\ second' = second + 1
    /\ UNCHANGED <<memory, nextId, recalled>>

\* save_to_memory
Insert(chat, text) ==
    /\ nextId <= MaxRows
    /\ memory' = memory \cup {[id |-> nextId, chat |-> chat, text |-> text, at |-> second]}
    /\ nextId' = nextId + 1
    /\ UNCHANGED <<second, recalled>>

\* mutant: the sub-select ranks the rows of every chat, and rows of other chats
\* are deleted with those of this one.
PruneAllChats(chat) ==
    /\ \E kept \in Newest(memory, KeepLast) : memory' = kept
    /\ UNCHANGED <<second, nextId, recalled>>

\* prune_old_memory
Prune(chat) ==
    /\ \E kept \in Newest(RowsOf(chat), KeepLast) :
          memory' = (memory \ RowsOf(chat)) \cup kept
    /\ UNCHANGED <<second, nextId, recalled>>

\* get_memory_context
Recall(chat) ==
    /\ \E kept \in Newest(RowsOf(chat), RecallLimit) : recalled' \in InOrder(kept)
    /\ UNCHANGED <<second, memory, nextId>>

MemoryNext ==
    \/ NewSecond
    \/ \E chat \in Chats :
          \/ \E text \in Texts : Insert(chat, text)
          \/ Prune(chat)
          \/ Recall(chat)

MemorySpec == MemoryInit /\ [][MemoryNext]_memoryVars

-----------------------------------------------------------------------------

\* What the next recall of a chat may show.
Recallable(chat) == UNION {InOrder(kept) : kept \in Newest(RowsOf(chat), RecallLimit)}

RecallRunsForward ==
    \A i, j \in DOMAIN recalled :
        i < j /\ recalled[i].at # recalled[j].at => recalled[i].id < recalled[j].id

\* Pruning never takes from a conversation what the model would be reminded of
\* next: keep_last = 500 is ordered the same way as the recall and larger, and
\* the rows of other chats do not compete for it.
PruneKeepsRecall ==
    [][\A pruned \in Chats : Prune(pruned) =>
         \A chat \in Chats : Recallable(chat)' \subseteq Recallable(chat)]_memoryVars

\* What get_memory_context recalls never runs backwards over a change of second: a
\* line is not followed by one that was inserted before it in an earlier second;
\* and pruning leaves it what it recalls.
RecallHolds == []RecallRunsForward /\ PruneKeepsRecall
=============================================================================
