----------------------------- MODULE FlaskChat ------------------------------
(***************************************************************************)
(* app.py: the chat history files and the requests that work on them.      *)
(*                                                                         *)
(* Flask serves every request on a thread of its own and nothing is        *)
(* locked, so a request is a sequence of steps, one for each time it       *)
(* touches a file, the memory table or the AI service.  A save is two      *)
(* steps: open(path, "w") empties the file, and the text reaches it when   *)
(* the file is closed (a history is assumed to fit the write buffer).  A   *)
(* file that was deleted while a request holds it open still takes the     *)
(* text, but no reader finds it: hence directory entries and inodes.       *)
(*                                                                         *)
(* A message is its role and the request that made it; the wording, the    *)
(* image, Wolfram's result and the settings only shape the wording.        *)
(***************************************************************************)
EXTENDS Integers, Sequences, FiniteSets

CONSTANTS
    Requests,       \* HTTP requests, each handled once
    Chats,          \* chat files: a device and a chat id
    Kind,           \* [Requests -> Kinds]
    ChatOf,         \* [Requests -> Chats]
    MaxOverlap,     \* bound: how many requests of one chat are handled at once
    MaxCrashes,     \* bound: how often the server process dies
    MaxDiskErrors,  \* bound: how many file or database calls fail
    MaxSeconds,     \* bound: seconds the memory table can tell apart
    KeepLast        \* prune_old_memory(keep_last)

Kinds == {"text", "image", "rename", "new", "delete", "export"}

ASSUME ChatAssumption ==
    /\ IsFiniteSet(Requests) /\ IsFiniteSet(Chats)
    /\ Kind \in [Requests -> Kinds] /\ ChatOf \in [Requests -> Chats]
    /\ MaxOverlap \in Nat \ {0} /\ KeepLast \in Nat \ {0}
    /\ {MaxCrashes, MaxDiskErrors, MaxSeconds} \subseteq Nat

VARIABLES
    pc,          \* where each request is
    local,       \* the history a request has in memory (history, fresh_history)
    handle,      \* the inode a request has open for writing
    reply,       \* what generate_tokens has streamed: "", "answer" or "failed"
    dir,         \* the directory: the inode of each chat file
    inode,       \* the text of each inode
    second,      \* see ChatMemory
    memory,
    nextId,
    calm,        \* whether the requests of a chat come one after the other
                 \* and nothing fails
    crashes,     \* counts against the bounds
    diskErrors

fileVars == <<dir, inode>>
tableVars == <<second, memory, nextId>>
boundVars == <<calm, crashes, diskErrors>>
vars == <<pc, local, handle, reply, fileVars, tableVars, boundVars>>

User(r) == [role |-> "user", req |-> r]
Assistant(r) == [role |-> "assistant", req |-> r]
Title(r) == [role |-> "metadata", req |-> r]
Messages == UNION {{User(r), Assistant(r), Title(r)} : r \in Requests}

\* The table of remembered messages; nothing here recalls from it, so the
\* recalled rows are not part of the state.
Table == INSTANCE ChatMemory WITH
    Texts <- Messages, RecallLimit <- 1, MaxRows <- 2 * Cardinality(Requests),
    recalled <- <<>>

NoFile == 0
Inodes == 1..(Cardinality(Chats) + Cardinality(Requests))

\* The text of a file is the histories found in it.  It parses only if there is
\* exactly one: there is none after open(path, "w"), and when a shorter save runs
\* over a longer one the end of the longer one stays behind the whole shorter one.
Blank == <<>>
Clean(history) == <<history>>
Garbage == <<<<>>, <<>>>>

Labels == {"arrived", "read", "openQuestion", "dumpQuestion", "remember", "prune",
           "generate", "fallback", "apologise", "review", "readAgain",
           "openReply", "dumpReply", "rememberReply", "openOnly", "dumpOnly",
           "remove", "done", "gone"}

TypeOK ==
    /\ pc \in [Requests -> Labels]
    /\ \A r \in Requests : local[r] \in Seq(Messages)
    /\ handle \in [Requests -> Inodes \cup {NoFile}]
    /\ reply \in [Requests -> {"", "answer", "failed"}]
    /\ dir \in [Chats -> Inodes \cup {NoFile}]
    /\ DOMAIN inode = Inodes
    /\ \A i \in Inodes : inode[i] \in Seq(Seq(Messages)) /\ Len(inode[i]) <= 2
    /\ memory \subseteq Table!Rows
    /\ crashes \in 0..MaxCrashes /\ diskErrors \in 0..MaxDiskErrors

\* The start of an execution in which the requests in `arriving` come in, on a
\* quiet day or not.
Start(arriving, quiet, at) ==
    /\ pc = [r \in Requests |-> IF r \in arriving THEN "arrived" ELSE "done"]
    /\ local = [r \in Requests |-> <<>>]
    /\ handle = [r \in Requests |-> NoFile]
    /\ reply = [r \in Requests |-> ""]
    /\ dir = [c \in Chats |-> NoFile]
    /\ inode = [i \in Inodes |-> Blank]
    /\ second = at /\ memory = {} /\ nextId = 1
    /\ calm = quiet /\ crashes = 0 /\ diskErrors = 0

Init == \E quiet \in BOOLEAN : Start(Requests, quiet, 0)

-----------------------------------------------------------------------------
\* Files

Ended == {"arrived", "done", "gone"}

\* The requests of a chat that are being handled.
Busy(c) == {r \in Requests : ChatOf[r] = c /\ pc[r] \notin Ended}

Readable(i) == i # NoFile /\ Len(inode[i]) = 1

\* The questions and replies of a history.
Said(history) == {history[k] : k \in {j \in DOMAIN history : history[j].role # "metadata"}}

\* read_chat_history: a missing file and one that does not parse both read as [].
ReadHistory(c) == IF Readable(dir[c]) THEN inode[dir[c]][1] ELSE <<>>

InUse == {dir[c] : c \in Chats} \cup {handle[r] : r \in Requests}

Unused == CHOOSE i \in Inodes : i \notin InUse

\* Text written from the start of a file that is not empty any more replaces
\* what is there, unless the old text was longer and its end stays behind.
Overwrite(old, text) ==
    IF old = Blank THEN {Clean(text)} ELSE {Clean(text), Garbage}

Goto(r, from, to) == pc' = [pc EXCEPT ![r] = to] /\ pc[r] = from

OpenLabels == {"openQuestion", "openReply", "openOnly"}
DumpLabels == {"dumpQuestion", "dumpReply", "dumpOnly"}

DumpAfter == [openQuestion |-> "dumpQuestion", openReply |-> "dumpReply", openOnly |-> "dumpOnly"]

\* What follows a save.
SaveThen == [dumpQuestion |-> "remember", dumpReply |-> "rememberReply", dumpOnly |-> "done"]

\* open(path, "w"): the file is there, and empty.
OpenForWrite(r) ==
    /\ pc[r] \in OpenLabels
    /\ pc' = [pc EXCEPT ![r] = DumpAfter[@]]
    /\ LET c == ChatOf[r]
           i == IF dir[c] = NoFile THEN Unused ELSE dir[c]
       IN /\ dir' = [dir EXCEPT ![c] = i]
          /\ inode' = [inode EXCEPT ![i] = Blank]
          /\ handle' = [handle EXCEPT ![r] = i]
    /\ UNCHANGED <<local, reply, tableVars, boundVars>>

\* json.dump and the close that flushes it: save_chat_history returns, and the
\* saved history is not used again.
Dump(r) ==
    /\ pc[r] \in DumpLabels
    /\ pc' = [pc EXCEPT ![r] = SaveThen[@]]
    /\ \E text \in Overwrite(inode[handle[r]], local[r]) :
          inode' = [inode EXCEPT ![handle[r]] = text]
    /\ handle' = [handle EXCEPT ![r] = NoFile]
    /\ local' = [local EXCEPT ![r] = <<>>]
    /\ UNCHANGED <<reply, dir, tableVars, boundVars>>

DiskError ==
    /\ ~calm /\ diskErrors < MaxDiskErrors
    /\ diskErrors' = diskErrors + 1
    /\ UNCHANGED <<calm, crashes>>

\* save_chat_history swallows the exception of an open or a write that fails;
\* after a failed write the file stays as open(path, "w") left it.
SaveFails(r) ==
    /\ \/ pc[r] \in OpenLabels /\ pc' = [pc EXCEPT ![r] = SaveThen[DumpAfter[@]]]
       \/ pc[r] \in DumpLabels /\ pc' = [pc EXCEPT ![r] = SaveThen[@]]
    /\ handle' = [handle EXCEPT ![r] = NoFile]
    /\ local' = [local EXCEPT ![r] = <<>>]
    /\ DiskError
    /\ UNCHANGED <<reply, fileVars, tableVars>>

-----------------------------------------------------------------------------
\* POST /chat

IsChat(r) == Kind[r] \in {"text", "image"}

\* A chat that /api/chats/new creates has a fresh id, which nobody can name
\* before that request has answered.
Known(c) == \A r \in Requests : Kind[r] = "new" /\ ChatOf[r] = c => pc[r] \in {"done", "gone"}

Admit(r) ==
    /\ Cardinality(Busy(ChatOf[r])) < IF calm THEN 1 ELSE MaxOverlap
    /\ Kind[r] = "new" \/ Known(ChatOf[r])

\* 429, 400 or 503: the request is refused before it touches anything.
RefuseChat(r) ==
    /\ IsChat(r)
    /\ Goto(r, "arrived", "done")
    /\ UNCHANGED <<local, handle, reply, fileVars, tableVars, boundVars>>

\* mutant: the history on disk is not read first.
ReadForQuestionForgets(r) ==
    /\ IsChat(r) /\ Admit(r)
    /\ Goto(r, "arrived", "openQuestion")
    /\ local' = [local EXCEPT ![r] = <<User(r)>>]
    /\ UNCHANGED <<handle, reply, fileVars, tableVars, boundVars>>

\* history = read_chat_history(...); history.append({"role": "user", ...})
ReadForQuestion(r) ==
    /\ IsChat(r) /\ Admit(r)
    /\ Goto(r, "arrived", "openQuestion")
    /\ local' = [local EXCEPT ![r] = Append(ReadHistory(ChatOf[r]), User(r))]
    /\ UNCHANGED <<handle, reply, fileVars, tableVars, boundVars>>

\* save_to_memory(chat_id, "user", user_prompt)
Remember(r) ==
    /\ Goto(r, "remember", "prune")
    /\ Table!Insert(ChatOf[r], User(r))
    /\ UNCHANGED <<local, handle, reply, fileVars, boundVars>>

\* prune_old_memory(chat_id)
Prune(r) ==
    /\ Goto(r, "prune", "generate")
    /\ Table!Prune(ChatOf[r])
    /\ UNCHANGED <<local, handle, reply, fileVars, boundVars>>

\* A message of 5000 characters or more is not remembered, and the exceptions
\* of the database are swallowed.
NotRemembered(r) ==
    /\ \/ Goto(r, "remember", "prune")
       \/ Goto(r, "rememberReply", "done")
    /\ UNCHANGED <<local, handle, reply, fileVars, tableVars, boundVars>>

PruneFails(r) ==
    /\ Goto(r, "prune", "generate")
    /\ DiskError
    /\ UNCHANGED <<local, handle, reply, fileVars, tableVars>>

\* The stream of the chosen model ends normally.
Generate(r) ==
    /\ \E from \in {"generate", "fallback"} : Goto(r, from, "review")
    /\ reply' = [reply EXCEPT ![r] = "answer"]
    /\ UNCHANGED <<local, handle, fileVars, tableVars, boundVars>>

\* mutant: a failed fallback tries the first model again.
GenerateRetries(r) ==
    /\ \/ Goto(r, "generate", "fallback")
       \/ Goto(r, "fallback", "generate")
    /\ UNCHANGED <<local, handle, reply, fileVars, tableVars, boundVars>>

\* The AI service raises; only a text request has a fallback model.
GenerateFails(r) ==
    /\ \/ Goto(r, "generate", IF Kind[r] = "text" THEN "fallback" ELSE "apologise")
       \/ Goto(r, "fallback", "apologise")
    /\ UNCHANGED <<local, handle, reply, fileVars, tableVars, boundVars>>

\* yield error_msg; ai_response_accumulator += error_msg
Apologise(r) ==
    /\ Goto(r, "apologise", "readAgain")
    /\ reply' = [reply EXCEPT ![r] = "failed"]
    /\ UNCHANGED <<local, handle, fileVars, tableVars, boundVars>>

\* The self-review pass, with or without a caveat at its end.
Review(r) ==
    /\ Goto(r, "review", "readAgain")
    /\ UNCHANGED <<local, handle, reply, fileVars, tableVars, boundVars>>

\* The client is gone: the server closes the generator, which ends at the yield
\* it stands at, and nothing after it runs.
Disconnect(r) ==
    /\ \E from \in {"generate", "fallback", "apologise", "review"} : Goto(r, from, "gone")
    /\ UNCHANGED <<local, handle, reply, fileVars, tableVars, boundVars>>

\* mutant: the history is reversed, as that of get_memory_context is.
ReadForReplyReversed(r) ==
    /\ Goto(r, "readAgain", "openReply")
    /\ LET current == ReadHistory(ChatOf[r])
       IN  local' = [local EXCEPT ![r] =
               Append([k \in DOMAIN current |-> current[Len(current) + 1 - k]], Assistant(r))]
    /\ UNCHANGED <<handle, reply, fileVars, tableVars, boundVars>>

\* fresh_history = read_chat_history(...); fresh_history.append(...)
ReadForReply(r) ==
    /\ Goto(r, "readAgain", "openReply")
    /\ local' = [local EXCEPT ![r] = Append(ReadHistory(ChatOf[r]), Assistant(r))]
    /\ UNCHANGED <<handle, reply, fileVars, tableVars, boundVars>>

\* if not stream_failed: save_to_memory(chat_id, "assistant", ...)
RememberReply(r) ==
    /\ reply[r] # "failed"
    /\ Goto(r, "rememberReply", "done")
    /\ Table!Insert(ChatOf[r], Assistant(r))
    /\ UNCHANGED <<local, handle, reply, fileVars, boundVars>>

-----------------------------------------------------------------------------
\* The other routes

\* The history with the title block replaced, or a new block in front.
WithTitle(history, r) ==
    LET blocks == {k \in DOMAIN history : history[k].role = "metadata"}
    IN  IF blocks = {} THEN <<Title(r)>> \o history
        ELSE [history EXCEPT ![CHOOSE k \in blocks : \A j \in blocks : k <= j] = Title(r)]

\* /api/chats/rename
ReadForRename(r) ==
    /\ Kind[r] = "rename" /\ Admit(r)
    /\ Goto(r, "arrived", "openOnly")
    /\ local' = [local EXCEPT ![r] = WithTitle(ReadHistory(ChatOf[r]), r)]
    /\ UNCHANGED <<handle, reply, fileVars, tableVars, boundVars>>

\* /api/chats/new: an empty history under a fresh chat id.
NewChat(r) ==
    /\ Kind[r] = "new" /\ Admit(r)
    /\ Goto(r, "arrived", "openOnly")
    /\ UNCHANGED <<local, handle, reply, fileVars, tableVars, boundVars>>

\* /api/chats/delete: os.path.exists, ...
TestExists(r) ==
    /\ Kind[r] = "delete" /\ Admit(r)
    /\ Goto(r, "arrived", IF dir[ChatOf[r]] = NoFile THEN "done" ELSE "remove")
    /\ UNCHANGED <<local, handle, reply, fileVars, tableVars, boundVars>>

\* ... then os.remove, which raises (a 500) if the file is gone meanwhile.
Remove(r) ==
    /\ Goto(r, "remove", "done")
    /\ dir' = [dir EXCEPT ![ChatOf[r]] = NoFile]
    /\ UNCHANGED <<local, handle, reply, inode, tableVars, boundVars>>

\* /api/chats/export and /api/chats/load answer with ReadHistory(ChatOf[r]).
Export(r) ==
    /\ Kind[r] = "export" /\ Admit(r)
    /\ Goto(r, "arrived", "done")
    /\ UNCHANGED <<local, handle, reply, fileVars, tableVars, boundVars>>

-----------------------------------------------------------------------------

\* The process dies and is started again: what was open is closed as it is.
Crash ==
    /\ ~calm /\ crashes < MaxCrashes
    /\ crashes' = crashes + 1
    /\ pc' = [r \in Requests |-> IF pc[r] \in Ended THEN pc[r] ELSE "gone"]
    /\ handle' = [r \in Requests |-> NoFile]
    /\ local' = [r \in Requests |-> <<>>]
    /\ UNCHANGED <<reply, fileVars, tableVars, calm, diskErrors>>

NewSecond ==
    /\ Table!NewSecond
    /\ UNCHANGED <<pc, local, handle, reply, fileVars, boundVars>>

Arrive(r) ==
    RefuseChat(r) \/ ReadForQuestion(r) \/ ReadForRename(r) \/ NewChat(r) \/ TestExists(r)
        \/ Export(r)

Proceed(r) ==
    \/ OpenForWrite(r) \/ Dump(r)
    \/ Remember(r) \/ Prune(r) \/ NotRemembered(r)
    \/ Generate(r) \/ GenerateFails(r) \/ Apologise(r) \/ Review(r)
    \/ ReadForReply(r) \/ RememberReply(r)
    \/ Remove(r)

Fail(r) == SaveFails(r) \/ PruneFails(r) \/ Disconnect(r)

Next ==
    \/ Crash \/ NewSecond
    \/ \E r \in Requests : Arrive(r) \/ Proceed(r) \/ Fail(r)

Fairness == \A r \in Requests : WF_vars(Proceed(r))

\* A thread keeps running, and the AI service answers or fails (its client has
\* a timeout); clients need not send anything.
Spec == Init /\ [][Next]_vars /\ Fairness

-----------------------------------------------------------------------------
\* What holds however the requests overlap, crash or fail

\* Every history a reader or a later save can meet.
Histories ==
    {ReadHistory(c) : c \in Chats}
        \cup {local[r] : r \in Requests}

Before(history, m, n) ==
    \E j, k \in DOMAIN history : j < k /\ history[j] = m /\ history[k] = n

OrderNeverFlips ==
    \A g, h \in Histories : \A m, n \in Said(g) \cap Said(h) :
        Before(g, m, n) => ~Before(h, n, m)

RepliesFollowQuestions ==
    \A h \in Histories :
        /\ \A r \in Requests : ~Before(h, Assistant(r), User(r))
        /\ \A m \in Said(h) : ~Before(h, m, m)

OneTitleInFront ==
    \A h \in Histories : \A k \in DOMAIN h : h[k].role = "metadata" => k = 1

\* Lost updates drop messages, but two histories never disagree on the order of
\* two messages they both hold; a reply is never in front of its question, and
\* no message is there twice: the second save reads the file afresh instead of
\* reusing the first history.  The block that /api/chats takes the title from is
\* one, and stays in front.
HistoriesStayOrdered == OrderNeverFlips /\ RepliesFollowQuestions /\ OneTitleInFront

\* A thread that got hold of a request lets go of it: as each request comes once,
\* there is always a time again when none is being handled.
EveryRequestEnds == []<>(\A r \in Requests : pc[r] \in Ended)

-----------------------------------------------------------------------------
\* What holds when the requests of one chat do not overlap and nothing fails

\* The history a chat has for its user: a save counts from its first step.
Log(c) ==
    LET writers == {r \in Busy(c) : pc[r] \in DumpLabels}
    IN  IF writers # {} THEN local[CHOOSE r \in writers : TRUE] ELSE ReadHistory(c)

logs == [c \in Chats |-> Log(c)]
Promise == INSTANCE ChatLog WITH log <- logs

\* Requests on different chats overlap freely and every chat is still the log
\* that ChatLog promises.
ImplementsChatLog == Promise!Init /\ [][calm => Promise!Next]_logs
=============================================================================
