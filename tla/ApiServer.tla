------------------------------ MODULE ApiServer ------------------------------
(***************************************************************************)
(* artifacts/api-server: the requests that change chats and settings, over *)
(* tables in Postgres.  A handler awaits one statement after the other and *)
(* no transaction joins them, so each awaited statement that writes, or    *)
(* whose result is written later, is a step.  The requests of one device   *)
(* are modelled.                                                           *)
(***************************************************************************)
EXTENDS Naturals, Sequences, SequencesExt, FiniteSets

CONSTANTS
    Chats,     \* the ids randomUUID may give
    Requests,  \* each is one HTTP request
    Null       \* the value of no chat

Kinds == {"new", "chat", "rename", "auto-title", "pin", "delete", "import", "save", "reset"}
Titles == {"New Chat", "first message", "by user", "generated"}

\* Whoever gives a title may give the one of a chat without any.
Given(title) == {title, "New Chat"}

VARIABLES
    session,   \* chat_sessions: title and pinned of each row, or Null
    messages,  \* chat_messages: the rows of each chat, by created_at
    settings,  \* whether the settings row exists
    apiPc,        \* the statement each request runs next
    kind,      \* its route
    chatId,    \* its chat
    read,      \* what it selected before it writes: a Boolean
    serial,    \* whether this client waits for a request on a chat before the next
    raced      \* history: requests that met a deletion of their chat

apiVars == <<session, messages, settings, apiPc, kind, chatId, read, serial, raced>>

Row == [title : Titles, pinned : BOOLEAN]
Message == [role : {"user", "assistant"}, req : Requests]

ASSUME NullAssumption == Null \notin Row \cup Chats

ApiTypeOK ==
    /\ session \in [Chats -> Row \cup {Null}]
    /\ messages \in [Chats -> Seq(Message)]
    /\ settings \in BOOLEAN
    /\ kind \in [Requests -> Kinds \cup {Null}]
    /\ chatId \in [Requests -> Chats \cup {Null}]
    /\ read \in [Requests -> BOOLEAN]
    /\ raced \subseteq Requests

ApiInit ==
    /\ session = [c \in Chats |-> Null]
    /\ messages = [c \in Chats |-> <<>>]
    /\ settings = FALSE
    /\ apiPc = [r \in Requests |-> "unsent"]
    /\ kind = [r \in Requests |-> Null]
    /\ chatId = [r \in Requests |-> Null]
    /\ read = [r \in Requests |-> FALSE]
    /\ serial \in BOOLEAN
    /\ raced = {}

Active(r) == apiPc[r] \notin {"unsent", "done", "failed"}
Deleting(c) == \E r \in Requests : chatId[r] = c /\ apiPc[r] = "delete session"
Used == {c \in Chats : session[c] # Null} \cup {chatId[r] : r \in Requests}

\* Where a route begins; /new and /import, and /chat without a chatId, with createChat.
First(k, c) ==
    CASE k \in {"new", "chat", "import"} /\ c = Null -> "create"
      [] k = "chat" /\ c # Null -> "insert question"
      [] k = "rename" -> "rename"
      [] k = "auto-title" -> "generate"
      [] k = "pin" -> "select pinned"
      [] k = "delete" -> "delete messages"
      [] k = "save" -> "select settings"
      [] k = "reset" -> "delete settings"

\* A request comes in for a chat this device has seen, which may be deleted since,
\* for a new chat, or for the settings.
Arrive(r, k, c) ==
    /\ apiPc[r] = "unsent"
    /\ k \in {"new", "import", "save", "reset"} => c = Null
    /\ k \notin {"new", "chat", "import", "save", "reset"} => c # Null
    /\ c # Null => c \in Used
    /\ serial /\ c # Null => \A other \in Requests : Active(other) => chatId[other] # c
    /\ apiPc' = [apiPc EXCEPT ![r] = First(k, c)]
    /\ kind' = [kind EXCEPT ![r] = k]
    /\ chatId' = [chatId EXCEPT ![r] = c]
    /\ raced' = IF c # Null /\ (session[c] = Null \/ Deleting(c)) THEN raced \cup {r} ELSE raced
    /\ UNCHANGED <<session, messages, settings, read, serial>>

Goto(r, from, to) == apiPc[r] = from /\ apiPc' = [apiPc EXCEPT ![r] = to]

\* createChat; importChat gives it the title of the file, whatever it is.
CreateChat(r, c) ==
    /\ c \notin Used
    /\ Goto(r, "create", IF kind[r] = "new" THEN "done" ELSE "insert question")
    /\ \E title \in IF kind[r] = "import" THEN Given("by user") ELSE {"New Chat"} :
          session' = [session EXCEPT ![c] = [title |-> title, pinned |-> FALSE]]
    /\ chatId' = [chatId EXCEPT ![r] = c]
    /\ UNCHANGED <<messages, settings, kind, read, serial, raced>>

Insert(r, role) ==
    messages' = [messages EXCEPT ![chatId[r]] = Append(@, [role |-> role, req |-> r])]

\* appendMessage's insert for the user.  An imported chat here has two messages.
InsertQuestion(r) ==
    /\ Goto(r, "insert question", IF kind[r] = "chat" THEN "select title" ELSE "insert reply")
    /\ Insert(r, "user")
    /\ UNCHANGED <<session, settings, kind, chatId, read, serial, raced>>

\* appendMessage's select: is the chat still called "New Chat"?
SelectTitle(r) ==
    /\ Goto(r, "select title", "set title")
    /\ read' = [read EXCEPT ![r] = session[chatId[r]] # Null
                                    /\ session[chatId[r]].title = "New Chat"]
    /\ UNCHANGED <<session, messages, settings, kind, chatId, serial, raced>>

\* An UPDATE of a row that is gone changes nothing.
Update(c, row) == session' = IF session[c] = Null THEN session ELSE [session EXCEPT ![c] = row]

SetTitle(c, title) == Update(c, [session[c] EXCEPT !.title = title])

\* appendMessage's update: the automatic title, or the time of the last change.
WriteTitle(r) ==
    /\ Goto(r, "set title", "stream")
    /\ IF read[r] THEN \E title \in Given("first message") : SetTitle(chatId[r], title)
       ELSE UNCHANGED session
    /\ UNCHANGED <<messages, settings, kind, chatId, read, serial, raced>>

\* streamGroqResponse: an answer, or its text for an error, is sent and res.end()
\* called ...
StreamEnds(r) ==
    /\ Goto(r, "stream", "insert reply")
    /\ UNCHANGED <<session, messages, settings, kind, chatId, read, serial, raced>>

\* ... or the stream breaks off, which rejects the handler.
StreamFails(r) ==
    /\ Goto(r, "stream", "failed")
    /\ UNCHANGED <<session, messages, settings, kind, chatId, read, serial, raced>>

\* mutant: the reply replaces the row before it.
InsertReplyOver(r) ==
    /\ Goto(r, "insert reply", "done")
    /\ messages' = [messages EXCEPT ![chatId[r]] =
                      Append(IF @ = <<>> THEN @ ELSE Front(@), [role |-> "assistant", req |-> r])]
    /\ UNCHANGED <<session, settings, kind, chatId, read, serial, raced>>

\* appendMessage for the assistant, and the last message of an import.
InsertReply(r) ==
    /\ Goto(r, "insert reply", "done")
    /\ Insert(r, "assistant")
    /\ UNCHANGED <<session, settings, kind, chatId, read, serial, raced>>

\* renameChat: any title, also "New Chat"
RenameChat(r) ==
    /\ Goto(r, "rename", "done")
    /\ \E title \in Given("by user") : SetTitle(chatId[r], title)
    /\ UNCHANGED <<messages, settings, kind, chatId, read, serial, raced>>

\* generateTitle: a call of the model, during which other requests run.
GenerateTitle(r) ==
    /\ Goto(r, "generate", "update title")
    /\ UNCHANGED <<session, messages, settings, kind, chatId, read, serial, raced>>

\* updateTitle, which replaces whatever title the chat has by now
UpdateTitle(r) ==
    /\ Goto(r, "update title", "done")
    /\ \E title \in Given("generated") : SetTitle(chatId[r], title)
    /\ UNCHANGED <<messages, settings, kind, chatId, read, serial, raced>>

\* pinChat's select; without a row it answers false.
SelectPinned(r) ==
    LET row == session[chatId[r]] IN
    /\ Goto(r, "select pinned", IF row = Null THEN "done" ELSE "update pinned")
    /\ read' = [read EXCEPT ![r] = row # Null /\ row.pinned]
    /\ UNCHANGED <<session, messages, settings, kind, chatId, serial, raced>>

\* pinChat's update: the negation of what it read.
UpdatePinned(r) ==
    /\ Goto(r, "update pinned", "done")
    /\ Update(chatId[r], [session[chatId[r]] EXCEPT !.pinned = ~read[r]])
    /\ UNCHANGED <<messages, settings, kind, chatId, read, serial, raced>>

OnSameChat(r) == {other \in Requests \ {r} : Active(other) /\ chatId[other] = chatId[r]}

\* mutant: the messages are left to the database, which has no foreign key.
DeleteMessagesOmitted(r) ==
    /\ Goto(r, "delete messages", "delete session")
    /\ raced' = raced \cup OnSameChat(r)
    /\ UNCHANGED <<session, messages, settings, kind, chatId, read, serial>>

\* deleteChat's first statement
DeleteMessages(r) ==
    /\ Goto(r, "delete messages", "delete session")
    /\ messages' = [messages EXCEPT ![chatId[r]] = <<>>]
    /\ raced' = raced \cup OnSameChat(r)
    /\ UNCHANGED <<session, settings, kind, chatId, read, serial>>

\* deleteChat's second statement
DeleteSession(r) ==
    /\ Goto(r, "delete session", "done")
    /\ session' = [session EXCEPT ![chatId[r]] = Null]
    /\ UNCHANGED <<messages, settings, kind, chatId, read, serial, raced>>

\* saveSettings' select
SelectSettings(r) ==
    /\ Goto(r, "select settings", "write settings")
    /\ read' = [read EXCEPT ![r] = settings]
    /\ UNCHANGED <<session, messages, settings, kind, chatId, serial, raced>>

\* saveSettings' update, which may find no row any more, or its insert, which the
\* unique key refuses when another request has inserted the row meanwhile.
WriteSettings(r) ==
    /\ Goto(r, "write settings", IF ~read[r] /\ settings THEN "failed" ELSE "done")
    /\ settings' = (settings \/ ~read[r])
    /\ UNCHANGED <<session, messages, kind, chatId, read, serial, raced>>

\* resetSettings
DeleteSettings(r) ==
    /\ Goto(r, "delete settings", "done")
    /\ settings' = FALSE
    /\ UNCHANGED <<session, messages, kind, chatId, read, serial, raced>>

ApiNext == \E r \in Requests :
    \/ \E k \in Kinds, c \in Chats \cup {Null} : Arrive(r, k, c)
    \/ \E c \in Chats : CreateChat(r, c)
    \/ InsertQuestion(r) \/ SelectTitle(r) \/ WriteTitle(r)
    \/ StreamEnds(r) \/ StreamFails(r) \/ InsertReply(r)
    \/ RenameChat(r) \/ GenerateTitle(r) \/ UpdateTitle(r)
    \/ SelectPinned(r) \/ UpdatePinned(r)
    \/ DeleteMessages(r) \/ DeleteSession(r)
    \/ SelectSettings(r) \/ WriteSettings(r) \/ DeleteSettings(r)

ApiSpec == ApiInit /\ [][ApiNext]_apiVars

-----------------------------------------------------------------------------

Promise == INSTANCE ChatLog WITH log <- messages

\* A deletion leaves nothing that was there when it began: the messages of a chat
\* without a session come from requests that were running during its deletion, or
\* were sent after it with the old id.
OrphansWereRaced ==
    \A c \in Chats : session[c] = Null => \A i \in DOMAIN messages[c] : messages[c][i].req \in raced

\* While requests on a chat do not overlap, its rows are the log that ChatLog
\* promises.  When they do, a reply may follow another question than its own, and
\* still no insert loses a row: a history only grows, or is deleted.
KeepsChatLog ==
    /\ Promise!Init
    /\ [][IF serial THEN Promise!Next
          ELSE \A c \in Chats : messages'[c] = <<>> \/ IsPrefix(messages[c], messages'[c])]_messages

\* A title other than "New Chat", whoever gave it, is replaced only by a request
\* that is for a title, unless requests overlap: then appendMessage may write over
\* it what it decided before (chat-store.ts, appendMessage).
AskingForATitle(c) ==
    \E r \in Requests : chatId[r] = c /\ apiPc[r] \in {"rename", "update title"}
OnlyNewChatIsTitled ==
    [][\A c \in Chats :
         serial /\ session[c] # Null /\ session'[c] # Null /\ session'[c].title # session[c].title
            => session[c].title = "New Chat" \/ AskingForATitle(c)]_apiVars

\* What is stored of a chat stands: its messages, and a title until another is
\* asked for.
HistoriesStand == KeepsChatLog /\ OnlyNewChatIsTitled
=============================================================================
