--------------------------- MODULE MCFlaskLimits ---------------------------
(***************************************************************************)
(* Two parts of app.py that share no state, each checked by itself: the    *)
(* rate limiter, with two threads of which one or two may be inside, and   *)
(* the memory table with two chats.  A behaviour runs one of them.         *)
(***************************************************************************)
EXTENDS RateLimiter, ChatMemory, TLC

CONSTANTS t1, t2, c1, c2, question

VARIABLE part

MCThreads == {t1, t2}
\* Serial calls, and two at once.
SerialOrTwo == {1, 2}
MCChats == {c1, c2}
MCTexts == {question}

MCInit == part \in {"limiter", "memory"} /\ Init /\ MemoryInit

LimiterStep == part = "limiter" /\ Next /\ UNCHANGED <<part, memoryVars>>
MemoryStep == part = "memory" /\ MemoryNext /\ UNCHANGED <<part, vars>>

MCNext == LimiterStep \/ MemoryStep

\* A thread that is inside the limiter keeps being scheduled.
MCSpec ==
    /\ MCInit /\ [][MCNext]_<<part, vars, memoryVars>>
    /\ \A t \in Threads : WF_vars(part = "limiter" /\ Continue(t))
=============================================================================
