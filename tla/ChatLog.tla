------------------------------- MODULE ChatLog -------------------------------
(***************************************************************************)
(* What a chat promises its user: one ordered log per chat.  A question is *)
(* put at the end of the log, the reply to it directly after it, a title   *)
(* sits in front of everything, and nothing is ever taken out of a log     *)
(* except by deleting the whole chat.                                      *)
(***************************************************************************)
EXTENDS Naturals, Sequences

CONSTANTS Chats, Requests

VARIABLE log   \* the history of each chat; <<>> for a chat nobody wrote to

User(r) == [role |-> "user", req |-> r]
Assistant(r) == [role |-> "assistant", req |-> r]
Title(r) == [role |-> "metadata", req |-> r]

Messages == {User(r) : r \in Requests} \cup {Assistant(r) : r \in Requests}
                \cup {Title(r) : r \in Requests}

Init == log = [c \in Chats |-> <<>>]

Titled(history) == history # <<>> /\ history[1].role = "metadata"

\* A history with the title that request r gives it.
WithTitle(history, r) ==
    IF Titled(history) THEN <<Title(r)>> \o Tail(history) ELSE <<Title(r)>> \o history

Ask(c, r) == log' = [log EXCEPT ![c] = Append(@, User(r))]

\* The reply directly follows its question.
Reply(c, r) ==
    /\ log[c] # <<>> /\ log[c][Len(log[c])] = User(r)
    /\ log' = [log EXCEPT ![c] = Append(@, Assistant(r))]

Rename(c, r) == log' = [log EXCEPT ![c] = WithTitle(@, r)]

Delete(c) == log' = [log EXCEPT ![c] = <<>>]

Next == \E c \in Chats :
    \/ Delete(c)
    \/ \E r \in Requests : Ask(c, r) \/ Reply(c, r) \/ Rename(c, r)

Spec == Init /\ [][Next]_log
==============================================================================
