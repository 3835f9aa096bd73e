---------------------------- MODULE RateLimiter ----------------------------
(***************************************************************************)
(* app.py: is_rate_limited, the sliding-window limiter every POST /chat    *)
(* goes through.  Flask serves each request on a thread of its own and the *)
(* bucket of a client is a plain deque that no lock protects, so every     *)
(* deque operation is a step of its own: a thread may lose the processor   *)
(* between any two of them.  One bucket is modelled; the buckets of two    *)
(* clients share nothing.                                                  *)
(***************************************************************************)
EXTENDS Integers, Sequences, FiniteSets

CONSTANTS
    Threads,      \* the server's threads that serve this client
    Window,       \* RATE_LIMIT_WINDOW_SECONDS
    MaxRequests,  \* RATE_LIMIT_MAX_REQUESTS
    MaxTime,      \* bound: the clock stops here
    Overlaps      \* how many requests of the client may be inside at once

ASSUME LimiterAssumption ==
    /\ IsFiniteSet(Threads) /\ Threads # {}
    /\ Window \in Nat /\ MaxRequests \in Nat \ {0}
    /\ MaxTime \in Nat /\ Overlaps \subseteq Nat \ {0}

VARIABLES
    clock,      \* time.time(), in seconds
    bucket,     \* the deque of timestamps
    pc,         \* where each thread is in is_rate_limited
    now,        \* each thread's local `now`
    outcome,    \* the answer of each thread's last call
    admissions, \* history: how many calls made at each second were let through
    overlap     \* one of Overlaps; it never changes

vars == <<clock, bucket, pc, now, outcome, admissions, overlap>>

Times == 0..MaxTime
Labels == {"idle", "nonempty", "head", "pop", "count", "append"}
Outcomes == {"none", "admitted", "limited", "IndexError"}

TypeOK ==
    /\ clock \in Times
    /\ bucket \in Seq(Times)
    /\ pc \in [Threads -> Labels]
    /\ now \in [Threads -> Times]
    /\ outcome \in [Threads -> Outcomes]
    /\ admissions \in [Times -> Nat]
    /\ overlap \in Overlaps

Init ==
    /\ clock = 0
    /\ bucket = <<>>
    /\ pc = [t \in Threads |-> "idle"]
    /\ now = [t \in Threads |-> 0]
    /\ outcome = [t \in Threads |-> "none"]
    /\ admissions = [s \in Times |-> 0]
    /\ overlap \in Overlaps

Inside == {t \in Threads : pc[t] # "idle"}

Goto(t, from, to) == pc[t] = from /\ pc' = [pc EXCEPT ![t] = to]

Answer(t, from, answer) ==
    /\ Goto(t, from, "idle")
    /\ outcome' = [outcome EXCEPT ![t] = answer]

Tick ==
    /\ clock < MaxTime
    /\ clock' = clock + 1
    /\ UNCHANGED <<overlap, bucket, pc, now, outcome, admissions>>

\* now = time.time()
Enter(t) ==
    /\ Cardinality(Inside) < overlap
    /\ Goto(t, "idle", "nonempty")
    /\ now' = [now EXCEPT ![t] = clock]
    /\ outcome' = [outcome EXCEPT ![t] = "none"]
    /\ UNCHANGED <<overlap, clock, bucket, admissions>>

\* while bucket and ...
TestNonempty(t) ==
    /\ Goto(t, "nonempty", IF bucket = <<>> THEN "count" ELSE "head")
    /\ UNCHANGED <<overlap, clock, bucket, now, outcome, admissions>>

Expired(t, stamp) == now[t] - stamp > Window

\* ... and now - bucket[0] > RATE_LIMIT_WINDOW_SECONDS
TestHead(t) ==
    /\ bucket # <<>>
    /\ Goto(t, "head", IF Expired(t, Head(bucket)) THEN "pop" ELSE "count")
    /\ UNCHANGED <<overlap, clock, bucket, now, outcome, admissions>>

\* mutant: the head is read and not removed.
PopLeftKeepsHead(t) ==
    /\ bucket # <<>>
    /\ Goto(t, "pop", "nonempty")
    /\ UNCHANGED <<overlap, clock, bucket, now, outcome, admissions>>

\* bucket.popleft()
PopLeft(t) ==
    /\ bucket # <<>>
    /\ Goto(t, "pop", "nonempty")
    /\ bucket' = Tail(bucket)
    /\ UNCHANGED <<overlap, clock, now, outcome, admissions>>

\* bucket[0] or popleft() on a deque another thread has emptied meanwhile: the
\* request ends in an IndexError, which Flask answers with a 500.
HeadVanished(t) ==
    /\ bucket = <<>>
    /\ \E from \in {"head", "pop"} : Answer(t, from, "IndexError")
    /\ UNCHANGED <<overlap, clock, bucket, now, admissions>>

\* mutant: > where the code has >=.
FullOffByOne == Len(bucket) > MaxRequests

\* if len(bucket) >= RATE_LIMIT_MAX_REQUESTS: return True
Full == Len(bucket) >= MaxRequests

Refuse(t) ==
    /\ Full
    /\ Answer(t, "count", "limited")
    /\ UNCHANGED <<overlap, clock, bucket, now, admissions>>

HasRoom(t) ==
    /\ ~Full
    /\ Goto(t, "count", "append")
    /\ UNCHANGED <<overlap, clock, bucket, now, outcome, admissions>>

\* bucket.append(now); return False
Admit(t) ==
    /\ Answer(t, "append", "admitted")
    /\ bucket' = Append(bucket, now[t])
    /\ admissions' = [admissions EXCEPT ![now[t]] = @ + 1]
    /\ UNCHANGED <<overlap, clock, now>>

Continue(t) ==
    \/ TestNonempty(t) \/ TestHead(t) \/ PopLeft(t) \/ HeadVanished(t)
    \/ Refuse(t) \/ HasRoom(t) \/ Admit(t)

Next == Tick \/ \E t \in Threads : Enter(t) \/ Continue(t)

\* A thread that is inside the limiter keeps being scheduled.
Spec == Init /\ [][Next]_vars /\ \A t \in Threads : WF_vars(Continue(t))

-----------------------------------------------------------------------------

\* The calls made at second s or later that were let through.
AdmittedSince[s \in 0..(MaxTime + 1)] ==
    IF s > MaxTime THEN 0 ELSE admissions[s] + AdmittedSince[s + 1]

\* Overlapping calls may each pass the length test before any of them appends;
\* the overshoot of the deque is still at most one stamp per other call inside.
Overshoot == Len(bucket) <= MaxRequests + overlap - 1

AdmittedIn(first, last) ==
    AdmittedSince[first] - AdmittedSince[IF last > MaxTime THEN MaxTime + 1 ELSE last + 1]

WindowBound == \A s \in Times : AdmittedIn(s, s + Window) <= MaxRequests

RefusedOnlyAtTheLimit ==
    [][\A t \in Threads : overlap = 1 /\ Refuse(t) =>
         AdmittedIn(IF now[t] < Window THEN 0 ELSE now[t] - Window, now[t]) >= MaxRequests]_vars

\* Every call ends, whatever the other calls do to the deque it loops over.
EveryCallAnswered == \A t \in Threads : pc[t] # "idle" ~> pc[t] = "idle"

\* is_rate_limited's promise.  While calls do not overlap: whatever 60-second window
\* one looks at, no more than MaxRequests calls made in it were let through; and a
\* caller is refused only when so many were let through in the window that ends
\* now, since stale stamps are dropped first.  However they overlap, each ends.
CallsAreJudgedRightly ==
    [](overlap = 1 => WindowBound) /\ RefusedOnlyAtTheLimit /\ EveryCallAnswered
=============================================================================
