---------------------------- MODULE MCFlaskChat -----------------------------
(***************************************************************************)
(* Instances of FlaskChat: which requests arrive, and on which chats.      *)
(***************************************************************************)
EXTENDS FlaskChat, TLC

CONSTANTS ask, ask2, photo, photo2, rename, rename2, fresh, erase, export, c1, c2

MCRequests == {ask, ask2, photo, photo2, rename, rename2, fresh, erase, export}
MCKind == [r \in Requests |->
    CASE r \in {ask, ask2} -> "text" [] r \in {photo, photo2} -> "image"
      [] r \in {rename, rename2} -> "rename"
      [] r = fresh -> "new" [] r = erase -> "delete" [] r = export -> "export"]

\* Two chats: one that is asked, renamed, deleted and exported, and one that is
\* created, asked and renamed.
MCChats == {c1, c2}
MCChatOf == [r \in Requests |-> IF r \in {photo2, fresh, rename2} THEN c2 ELSE c1]

\* Calm: requests on both chats, or three questions and an export of one chat, or
\* two questions and a deletion while the clock ticks.  Else, on one chat: a
\* question, a title and a deletion, or a question and a photo, with a crash and a
\* disk error.
MCInit ==
    \/ Start({ask, photo2, rename2, fresh, erase, export}, TRUE, MaxSeconds)
    \/ Start({ask, ask2, photo, export}, TRUE, MaxSeconds)
    \/ Start({ask, photo, erase}, TRUE, 0)
    \/ Start({ask, rename, erase}, FALSE, MaxSeconds)
    \/ Start({ask, photo}, FALSE, MaxSeconds)
MCSpec == MCInit /\ [][Next]_vars /\ Fairness
=============================================================================
