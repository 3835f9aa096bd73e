-------------------------- MODULE SessionsV3Proofs --------------------------
(***************************************************************************)
(* The map and the limiter of the session manager, and the connection that *)
(* a session which migrates sends to, for any number of registration       *)
(* datagrams, request ids and connections.                                 *)
(***************************************************************************)
EXTENDS SessionsV3, FiniteSetTheorems, TLAPS

\* What the proof needs of the variables' types.
MapTypes ==
    /\ pc \in [Handlers -> Labels]
    /\ sessions \in [Ids -> Handlers \cup {None}]

MapInv == MapTypes /\ MapHoldsLiveSessions

\* Only the registration of a session and its end change the map, and they
\* change it with the program counter of the session.
LEMMA MapStep ==
    ASSUME MapInv, [Next]_vars
    PROVE  MapInv'
<1> USE SessionsAssumption
<1> USE DEF MapInv, MapTypes, MapHoldsLiveSessions, Existing, Owns, Goto, Labels
<1>1. CASE UNCHANGED vars
    BY <1>1 DEF vars
<1>2. CASE \E c \in Conns : ConnectionUp(c) \/ ConnectionLost(c)
    BY <1>2 DEF ConnectionUp, ConnectionLost
<1>3. CASE SetLimit
    BY <1>3 DEF SetLimit
<1>4. ASSUME NEW h \in Handlers, Register(h)
      PROVE  MapInv'
  <2>1. /\ pc[h] = "register" /\ pc' = [pc EXCEPT ![h] = "respond"]
        /\ sessions[IdOf[h]] = None /\ sessions' = [sessions EXCEPT ![IdOf[h]] = h]
        /\ IdOf[h] \in Ids /\ None # h
    BY <1>4 DEF Register
  <2>2. MapTypes'
    BY <2>1
  <2>3. ASSUME NEW g \in Handlers
        PROVE  (Owns(g) <=> Existing(g) = g)'
    <3>1. CASE g = h
        BY <2>1, <3>1
    <3>2. CASE g # h /\ IdOf[g] = IdOf[h]
        BY <2>1, <3>2
    <3>3. CASE g # h /\ IdOf[g] # IdOf[h]
        BY <2>1, <3>3
    <3> QED BY <3>1, <3>2, <3>3
  <2> QED BY <2>2, <2>3
<1>5. ASSUME NEW h \in Handlers, Unregister(h)
      PROVE  MapInv'
  <2>1. /\ pc[h] = "unregister" /\ pc' = [pc EXCEPT ![h] = "done"]
        /\ sessions[IdOf[h]] = h /\ sessions' = [sessions EXCEPT ![IdOf[h]] = None]
        /\ IdOf[h] \in Ids /\ None # h
    BY <1>5 DEF Unregister
  <2>2. MapTypes'
    BY <2>1
  <2>3. ASSUME NEW g \in Handlers
        PROVE  (Owns(g) <=> Existing(g) = g)'
    <3>1. CASE g = h
        BY <2>1, <3>1
    <3>2. CASE g # h /\ IdOf[g] = IdOf[h]
        BY <2>1, <3>2
    <3>3. CASE g # h /\ IdOf[g] # IdOf[h]
        BY <2>1, <3>3
    <3> QED BY <3>1, <3>2, <3>3
  <2> QED BY <2>2, <2>3
<1>6. ASSUME NEW h \in Handlers, NEW from \in Labels, NEW to \in Labels,
             Goto(h, from, to), UNCHANGED sessions,
             from \in {"respond", "serve", "unregister"} <=> to \in {"respond", "serve", "unregister"}
      PROVE  MapInv'
    BY <1>6
<1>7. ASSUME NEW h \in Handlers,
             \/ Receive(h) \/ AlreadyRegistered(h) \/ RateLimited(h) \/ DialFails(h)
             \/ Respond(h) \/ RespondFails(h) \/ EndByContext(h) \/ End(h) \/ Resend(h)
             \/ GetSession(h) \/ LoadEyeball(h) \/ StoreEyeball(h) \/ PushContext(h)
             \/ RespondMigrated(h)
      PROVE  MapInv'
  <2>1. CASE Receive(h)
    BY <1>6, <2>1 DEF Receive
  <2>2. CASE AlreadyRegistered(h)
    BY <1>6, <2>2 DEF AlreadyRegistered
  <2>3. CASE RateLimited(h)
    BY <1>6, <2>3 DEF RateLimited
  <2>4. CASE DialFails(h)
    BY <1>6, <2>4 DEF DialFails
  <2>5. CASE Respond(h)
    BY <1>6, <2>5 DEF Respond
  <2>6. CASE RespondFails(h)
    BY <1>6, <2>6 DEF RespondFails
  <2>7. CASE EndByContext(h)
    BY <1>6, <2>7 DEF EndByContext
  <2>8. CASE End(h)
    BY <1>6, <2>8 DEF End
  <2>9. CASE Resend(h)
    BY <1>6, <2>9 DEF Resend
  <2>10. CASE GetSession(h)
    BY <1>6, <2>10 DEF GetSession
  <2>11. CASE LoadEyeball(h)
    BY <1>6, <2>11 DEF LoadEyeball
  <2>12. CASE StoreEyeball(h)
    BY <1>6, <2>12 DEF StoreEyeball
  <2>13. CASE PushContext(h)
    BY <1>6, <2>13 DEF PushContext
  <2>14. CASE RespondMigrated(h)
    BY <1>6, <2>14 DEF RespondMigrated
  <2> QED BY <1>7, <2>1, <2>2, <2>3, <2>4, <2>5, <2>6, <2>7, <2>8, <2>9, <2>10, <2>11,
             <2>12, <2>13, <2>14
<1> QED BY <1>1, <1>2, <1>3, <1>4, <1>5, <1>7 DEF Next, Handle

\* The session manager's map holds exactly the sessions between registration and
\* end: an unregistration by id never removes a newer session.
THEOREM MapIsOfLiveSessions == Spec => []MapHoldsLiveSessions
<1>1. Init => MapInv
    BY SessionsAssumption
    DEF Init, MapInv, MapTypes, MapHoldsLiveSessions, Existing, Owns, Labels
<1>2. MapInv /\ [Next]_vars => MapInv'
    BY MapStep
<1>3. MapInv => MapHoldsLiveSessions
    BY DEF MapInv
<1> QED BY <1>1, <1>2, <1>3, PTL DEF Spec

-----------------------------------------------------------------------------

SlotsInv ==
    /\ MapInv
    /\ active \in Nat /\ unbound \in Nat
    /\ SlotsMatchSessions

\* A registration takes a slot with its place in the map, a failed dial takes one
\* with its count, and an end finds the slot it gives back.
LEMMA SlotsStep ==
    ASSUME IsFiniteSet(Ids), SlotsInv, [Next]_vars
    PROVE  SlotsInv'
<1> USE SessionsAssumption
<1>1. /\ MapInv /\ MapInv' /\ active \in Nat /\ unbound \in Nat
      /\ active = Cardinality(Registered) + unbound
    BY MapStep DEF SlotsInv, SlotsMatchSessions
<1>2. IsFiniteSet(Registered) /\ Cardinality(Registered) \in Nat
    BY FS_Subset, FS_CardinalityType DEF Registered
<1>3. ASSUME UNCHANGED <<sessions, active, unbound>>
      PROVE  SlotsInv'
    BY <1>1, <1>3 DEF SlotsInv, SlotsMatchSessions, Registered
<1>4. ASSUME NEW h \in Handlers, Register(h)
      PROVE  SlotsInv'
  <2>1. Registered' = Registered \cup {IdOf[h]} /\ IdOf[h] \notin Registered
    BY <1>1, <1>4 DEF Register, Registered, Existing, MapInv, MapTypes
  <2>2. Cardinality(Registered') = Cardinality(Registered) + 1
    BY <1>2, <2>1, FS_AddElement
  <2>3. active' = active + 1 /\ unbound' = unbound
    BY <1>4 DEF Register
  <2> QED BY <1>1, <1>2, <2>2, <2>3 DEF SlotsInv, SlotsMatchSessions
<1>5. ASSUME NEW h \in Handlers, DialFails(h)
      PROVE  SlotsInv'
  <2>1. Registered' = Registered /\ active' = active + 1 /\ unbound' = unbound + 1
    BY <1>5 DEF DialFails, Registered
  <2> QED BY <1>1, <1>2, <2>1 DEF SlotsInv, SlotsMatchSessions
<1>6. ASSUME NEW h \in Handlers, Unregister(h)
      PROVE  SlotsInv'
  <2>1. sessions[IdOf[h]] = h /\ h # None /\ IdOf[h] \in Ids
    BY <1>1, <1>6 DEF Unregister, Goto, MapInv, MapHoldsLiveSessions, Owns, Existing
  <2>2. Registered' = Registered \ {IdOf[h]} /\ IdOf[h] \in Registered
    BY <1>1, <1>6, <2>1 DEF Unregister, Registered, MapInv, MapTypes
  <2>3. Cardinality(Registered') = Cardinality(Registered) - 1
    BY <1>2, <2>2, FS_RemoveElement
  <2>4. Cardinality(Registered) # 0
    BY <1>2, <2>2, FS_EmptySet
  <2>5. active' = active - 1 /\ active' \in Nat /\ unbound' = unbound
    BY <1>1, <1>2, <1>6, <2>4 DEF Unregister
  <2> QED BY <1>1, <1>2, <2>3, <2>5 DEF SlotsInv, SlotsMatchSessions
<1> QED
    BY <1>3, <1>4, <1>5, <1>6
    DEF Next, Handle, vars, sessionVars, limiterVars, ConnectionUp, ConnectionLost, SetLimit,
        Receive, AlreadyRegistered, RateLimited, Respond, RespondFails,
        EndByContext, End, Resend, GetSession, LoadEyeball, StoreEyeball, PushContext,
        RespondMigrated

\* No end of a session, no retry and no migration leaks a slot of the limiter or
\* gives one back twice; a socket that cannot be bound keeps one.
THEOREM SlotsAreHeldBySessions ==
    ASSUME IsFiniteSet(Ids)
    PROVE  Spec => []SlotsAreOfSessions
<1>1. Init => SlotsInv
  <2> SUFFICES ASSUME Init PROVE SlotsInv
    OBVIOUS
  <2>1. MapInv
    BY SessionsAssumption
    DEF Init, MapInv, MapTypes, MapHoldsLiveSessions, Existing, Owns, Labels
  <2>2. Registered = {} /\ active = 0 /\ unbound = 0
    BY DEF Init, Registered
  <2> QED BY <2>1, <2>2, FS_EmptySet DEF SlotsInv, SlotsMatchSessions
<1>2. SlotsInv /\ [Next]_vars => SlotsInv'
    BY SlotsStep
<1>3. SlotsInv => SlotsAreOfSessions
    BY DEF SlotsInv, MapInv, SlotsAreOfSessions
<1> QED BY <1>1, <1>2, <1>3, PTL DEF Spec

-----------------------------------------------------------------------------
\* Where a session sends to, and whose end ends it.

Alone(s) == \A g, h \in Migrations(s) : g = h
OnItsWay(s) == \E h \in Migrations(s) : pc[h] = "push"
HasTarget == {"load", "store", "push", "respondMigrated", "done"}

\* A goroutine has a target from GetSession on, and it is a session that was registered.
TargetsAreSessions ==
    \A h \in Handlers : target[h] # None =>
        pc[h] \in HasTarget /\ pc[target[h]] \notin {"datagram", "register"}

\* What one migration at most does to a session, from its registration on.
Follows(s) ==
    /\ pc[s] = "respond" /\ ~OnItsWay(s) => eyeball[s] = ConnOf[s]
    /\ pc[s] = "serve" /\ ~OnItsWay(s) => eyeball[s] = bound[s]
    /\ \A h \in Migrations(s) : pc[h] = "push" => eyeball[s] = ConnOf[h]

\* A session is in the map under its own id.
OwnIds == \A id \in Ids : sessions[id] # None => IdOf[sessions[id]] = id

EyeballInv ==
    /\ MapInv /\ OwnIds
    /\ target \in [Handlers -> Handlers \cup {None}]
    /\ DOMAIN eyeball = Handlers /\ DOMAIN bound = Handlers
    /\ TargetsAreSessions
    /\ \A s \in Handlers : IsFiniteSet(Migrations(s)) /\ (Alone(s) => Follows(s))

LEMMA OwnIdsStep ==
    ASSUME MapInv, OwnIds, [Next]_vars
    PROVE  OwnIds'
<1>1. /\ sessions \in [Ids -> Handlers \cup {None}]
      /\ IdOf \in [Handlers -> Ids] /\ None \notin Handlers
    BY SessionsAssumption DEF MapInv, MapTypes
<1>2. ASSUME UNCHANGED sessions PROVE OwnIds'
    BY <1>2 DEF OwnIds
<1>3. ASSUME NEW h \in Handlers, Register(h) PROVE OwnIds'
  <2>1. sessions' = [sessions EXCEPT ![IdOf[h]] = h]
      BY <1>3 DEF Register
  <2> QED
      BY <1>1, <2>1 DEF OwnIds
<1>4. ASSUME NEW h \in Handlers, Unregister(h) PROVE OwnIds'
  <2>1. sessions' = [sessions EXCEPT ![IdOf[h]] = None]
      BY <1>4 DEF Unregister
  <2> QED
      BY <1>1, <2>1 DEF OwnIds
<1>5. ASSUME NEW h \in Handlers,
             \/ Receive(h) \/ AlreadyRegistered(h) \/ RateLimited(h) \/ DialFails(h)
             \/ Respond(h) \/ RespondFails(h) \/ EndByContext(h) \/ End(h) \/ Resend(h)
             \/ GetSession(h) \/ LoadEyeball(h) \/ StoreEyeball(h) \/ PushContext(h)
             \/ RespondMigrated(h)
      PROVE  UNCHANGED sessions
    BY <1>5 DEF Receive, AlreadyRegistered, RateLimited, DialFails, Respond, RespondFails,
                EndByContext, End, Resend, GetSession, LoadEyeball, StoreEyeball, PushContext,
                RespondMigrated
<1>6. CASE SetLimit \/ (\E c \in Conns : ConnectionUp(c) \/ ConnectionLost(c)) \/ UNCHANGED vars
    BY <1>2, <1>6 DEF SetLimit, ConnectionUp, ConnectionLost, vars
<1> QED
    BY <1>2, <1>3, <1>4, <1>5, <1>6 DEF Next, Handle

\* A step of a goroutine that leaves the map, the targets and the connections of the
\* sessions alone, and neither begins nor ends what Follows is about.
LEMMA EyeballStays ==
    ASSUME EyeballInv, MapInv', OwnIds', NEW h \in Handlers, NEW from \in Labels, NEW to \in Labels,
           Goto(h, from, to), UNCHANGED <<eyeball, bound, target>>,
           from \notin {"push"}, to \notin {"push", "respond", "serve", "datagram", "register"}
                                     \/ (from = "datagram" /\ to = "register"),
           from \in HasTarget => to \in HasTarget
    PROVE  EyeballInv'
<1>1. pc \in [Handlers -> Labels] /\ pc' = [pc EXCEPT ![h] = to] /\ pc[h] = from
    BY DEF EyeballInv, MapInv, MapTypes, Goto
<1>2. \A s \in Handlers : Migrations(s)' = Migrations(s)
    BY DEF Migrations
<1>3. TargetsAreSessions'
    BY <1>1, SessionsAssumption DEF EyeballInv, TargetsAreSessions, HasTarget
<1>4. ASSUME NEW s \in Handlers, Alone(s)' PROVE Follows(s)'
  <2>1. Follows(s) /\ Migrations(s)' = Migrations(s) /\ Migrations(s) \subseteq Handlers
      BY <1>2, <1>4 DEF EyeballInv, Alone, Migrations
  <2>2. \A g \in Handlers : pc'[g] = "push" <=> pc[g] = "push"
      BY <1>1
  <2>3. OnItsWay(s)' <=> OnItsWay(s)
      BY <2>1, <2>2 DEF OnItsWay
  <2>4. (pc'[s] = "respond" => pc[s] = "respond") /\ (pc'[s] = "serve" => pc[s] = "serve")
      BY <1>1
  <2> QED
      BY <2>1, <2>2, <2>3, <2>4 DEF Follows
<1> QED
    BY <1>2, <1>3, <1>4 DEF EyeballInv

LEMMA EyeballStep ==
    ASSUME EyeballInv, [Next]_vars
    PROVE  EyeballInv'
<1>1. MapInv /\ MapInv' /\ OwnIds /\ OwnIds'
    BY MapStep, OwnIdsStep DEF EyeballInv
<1>2. /\ pc \in [Handlers -> Labels] /\ sessions \in [Ids -> Handlers \cup {None}]
      /\ target \in [Handlers -> Handlers \cup {None}] /\ None \notin Handlers
      /\ IdOf \in [Handlers -> Ids]
    BY <1>1, SessionsAssumption DEF MapInv, MapTypes, EyeballInv
<1>3. ASSUME UNCHANGED <<pc, eyeball, bound, target>> PROVE EyeballInv'
  <2>1. \A s \in Handlers : Migrations(s)' = Migrations(s)
      BY <1>3 DEF Migrations
  <2>2. \A s \in Handlers : (Alone(s)' <=> Alone(s)) /\ (Follows(s)' <=> Follows(s))
      BY <1>3, <2>1 DEF Alone, Follows, OnItsWay
  <2>3. TargetsAreSessions'
      BY <1>3 DEF EyeballInv, TargetsAreSessions
  <2> QED
      BY <1>1, <1>3, <2>1, <2>2, <2>3 DEF EyeballInv
<1>4. ASSUME NEW h \in Handlers, Register(h) PROVE EyeballInv'
  <2>1. /\ pc[h] = "register" /\ pc' = [pc EXCEPT ![h] = "respond"]
        /\ eyeball' = [eyeball EXCEPT ![h] = ConnOf[h]] /\ bound' = bound /\ target' = target
      BY <1>4 DEF Register, Goto
  <2>2. \A s \in Handlers : Migrations(s)' = Migrations(s)
      BY <2>1 DEF Migrations
  <2>3. TargetsAreSessions'
      BY <1>2, <2>1 DEF EyeballInv, TargetsAreSessions, HasTarget
  <2>4. Migrations(h) = {}
      BY <1>2, <2>1 DEF Migrations, EyeballInv, TargetsAreSessions
  <2>5. ASSUME NEW s \in Handlers, Alone(s)' PROVE Follows(s)'
    <3>1. CASE s = h
      <4>1. eyeball'[h] = ConnOf[h] /\ pc'[h] = "respond"
          BY <1>2, <2>1 DEF EyeballInv
      <4> QED
          BY <2>2, <2>4, <3>1, <4>1 DEF Follows
    <3>2. CASE s # h
      <4>1. pc'[s] = pc[s] /\ eyeball'[s] = eyeball[s] /\ bound'[s] = bound[s]
          BY <1>2, <2>1, <3>2 DEF EyeballInv
      <4>2. \A g \in Handlers : pc'[g] = "push" <=> pc[g] = "push"
          BY <1>2, <2>1
      <4>3. Follows(s) /\ Migrations(s) \subseteq Handlers
          BY <2>2, <2>5 DEF EyeballInv, Alone, Migrations
      <4> QED
          BY <2>2, <4>1, <4>2, <4>3 DEF Follows, OnItsWay
    <3> QED
        BY <3>1, <3>2
  <2> QED
      BY <1>1, <2>1, <2>2, <2>3, <2>5 DEF EyeballInv
<1>5. ASSUME NEW h \in Handlers, Respond(h) PROVE EyeballInv'
  <2>1. /\ pc[h] = "respond" /\ pc' = [pc EXCEPT ![h] = "serve"]
        /\ bound' = [bound EXCEPT ![h] = ConnOf[h]] /\ eyeball' = eyeball /\ target' = target
      BY <1>5 DEF Respond, Goto
  <2>2. \A s \in Handlers : Migrations(s)' = Migrations(s)
      BY <2>1 DEF Migrations
  <2>3. TargetsAreSessions'
      BY <1>2, <2>1 DEF EyeballInv, TargetsAreSessions, HasTarget
  <2>4. ASSUME NEW s \in Handlers, Alone(s)' PROVE Follows(s)'
    <3>1. Follows(s) /\ Migrations(s) \subseteq Handlers
        BY <2>2, <2>4 DEF EyeballInv, Alone, Migrations
    <3>2. \A g \in Handlers : pc'[g] = "push" <=> pc[g] = "push"
        BY <1>2, <2>1
    <3>3. OnItsWay(s)' <=> OnItsWay(s)
        BY <2>2, <3>1, <3>2 DEF OnItsWay
    <3>4. CASE s = h
      <4>1. bound'[h] = ConnOf[h] /\ pc'[h] = "serve" /\ eyeball'[h] = eyeball[h]
          BY <1>2, <2>1 DEF EyeballInv
      <4> QED
          BY <2>1, <2>2, <3>1, <3>2, <3>3, <3>4, <4>1 DEF Follows
    <3>5. CASE s # h
      <4>1. pc'[s] = pc[s] /\ eyeball'[s] = eyeball[s] /\ bound'[s] = bound[s]
          BY <1>2, <2>1, <3>5 DEF EyeballInv
      <4> QED
          BY <2>2, <3>1, <3>2, <3>3, <4>1 DEF Follows
    <3> QED
        BY <3>4, <3>5
  <2> QED
      BY <1>1, <2>1, <2>2, <2>3, <2>4 DEF EyeballInv
<1>6. ASSUME NEW h \in Handlers, GetSession(h) PROVE EyeballInv'
  <2>1. PICK s : s = Existing(h)
      OBVIOUS
  <2>2. /\ pc[h] = "get" /\ pc' = [pc EXCEPT ![h] = IF s = None THEN "done" ELSE "load"]
        /\ target' = [target EXCEPT ![h] = s] /\ eyeball' = eyeball /\ bound' = bound
      BY <1>6, <2>1 DEF GetSession, Goto, sessionVars
  <2>3. s \in Handlers \cup {None} /\ target[h] = None
      BY <1>2, <2>1, <2>2 DEF Existing, EyeballInv, TargetsAreSessions, HasTarget
  <2>4. s # None => pc[s] \in {"respond", "serve", "unregister"}
    <3>1. ASSUME s # None PROVE IdOf[s] = IdOf[h]
      <4>1. sessions[IdOf[h]] = s /\ s \in Handlers
          BY <2>1, <2>3, <3>1 DEF Existing
      <4> QED
          BY <1>1, <1>2, <3>1, <4>1 DEF OwnIds
    <3> QED
        BY <1>1, <1>2, <2>1, <2>3, <3>1 DEF MapInv, MapHoldsLiveSessions, Existing, Owns
  <2>5. \A t \in Handlers : Migrations(t)' = IF t = s THEN Migrations(t) \cup {h} ELSE Migrations(t)
      BY <1>2, <2>2, <2>3 DEF Migrations
  <2>6. TargetsAreSessions'
    <3>1. ASSUME NEW g \in Handlers, target'[g] # None
          PROVE  pc'[g] \in HasTarget /\ pc'[target'[g]] \notin {"datagram", "register"}
      <4>1. CASE g = h
          BY <1>2, <2>2, <2>3, <2>4, <3>1, <4>1 DEF HasTarget
      <4>2. CASE g # h
          BY <1>2, <2>2, <3>1, <4>2 DEF EyeballInv, TargetsAreSessions
      <4> QED
          BY <4>1, <4>2
    <3> QED
        BY <3>1 DEF TargetsAreSessions
  <2>7. ASSUME NEW t \in Handlers PROVE IsFiniteSet(Migrations(t)')
    <3>1. IsFiniteSet(Migrations(t))
        BY DEF EyeballInv
    <3>2. IsFiniteSet(Migrations(t) \cup {h})
        BY <3>1, FS_AddElement
    <3> QED
        BY <2>5, <3>1, <3>2
  <2>8. ASSUME NEW t \in Handlers, Alone(t)' PROVE Follows(t)'
    <3>1. Migrations(t) \subseteq Migrations(t)' /\ Migrations(t) \subseteq Handlers
        BY <2>5 DEF Migrations
    <3>2. Follows(t)
        BY <2>8, <3>1 DEF EyeballInv, Alone
    <3>3. \A g \in Handlers : pc'[g] = "push" <=> pc[g] = "push"
        BY <1>2, <2>2
    <3>4. pc'[h] # "push" /\ pc[h] # "push"
        BY <1>2, <2>2
    <3>5. OnItsWay(t)' <=> OnItsWay(t)
        BY <2>5, <3>1, <3>3, <3>4 DEF OnItsWay
    <3>6. (pc'[t] = "respond" <=> pc[t] = "respond") /\ (pc'[t] = "serve" <=> pc[t] = "serve")
        BY <1>2, <2>2
    <3>7. \A g \in Migrations(t)' : pc'[g] = "push" => g \in Migrations(t) /\ pc[g] = "push"
        BY <2>5, <3>1, <3>3, <3>4
    <3> QED
        BY <2>2, <3>2, <3>5, <3>6, <3>7 DEF Follows
  <2>9. target' \in [Handlers -> Handlers \cup {None}]
      BY <1>2, <2>2, <2>3
  <2> QED
      BY <1>1, <2>2, <2>6, <2>7, <2>8, <2>9 DEF EyeballInv
<1>7. ASSUME NEW h \in Handlers, StoreEyeball(h) PROVE EyeballInv'
  <2>1. PICK s : s = target[h]
      OBVIOUS
  <2>2. /\ pc[h] = "store" /\ pc' = [pc EXCEPT ![h] = "push"]
        /\ eyeball' = [eyeball EXCEPT ![s] = ConnOf[h]] /\ bound' = bound /\ target' = target
      BY <1>7, <2>1 DEF StoreEyeball, Goto
  <2>3. \A t \in Handlers : Migrations(t)' = Migrations(t)
      BY <2>2 DEF Migrations
  <2>4. TargetsAreSessions'
      BY <1>2, <2>2 DEF EyeballInv, TargetsAreSessions, HasTarget
  <2>5. ASSUME NEW t \in Handlers, Alone(t)' PROVE Follows(t)'
    <3>1. Follows(t) /\ Alone(t) /\ Migrations(t) \subseteq Handlers
        BY <2>3, <2>5 DEF EyeballInv, Alone, Migrations
    <3>2. CASE t = s
      <4>1. h \in Migrations(t)' /\ pc'[h] = "push" /\ eyeball'[t] = ConnOf[h]
          BY <1>2, <2>1, <2>2, <2>3, <3>2 DEF Migrations, EyeballInv
      <4>2. \A g \in Migrations(t)' : g = h
          BY <2>5, <4>1 DEF Alone
      <4> QED
          BY <4>1, <4>2 DEF Follows, OnItsWay
    <3>3. CASE t # s
      <4>1. h \notin Migrations(t)
          BY <2>1, <3>3 DEF Migrations
      <4>2. \A g \in Migrations(t) : pc'[g] = pc[g]
          BY <1>2, <2>2, <3>1, <4>1
      <4>3. eyeball'[t] = eyeball[t] /\ bound'[t] = bound[t]
          BY <2>2, <3>3 DEF EyeballInv
      <4>4. (pc'[t] = "respond" <=> pc[t] = "respond") /\ (pc'[t] = "serve" <=> pc[t] = "serve")
          BY <1>2, <2>2
      <4>5. OnItsWay(t)' <=> OnItsWay(t)
          BY <2>3, <4>2 DEF OnItsWay
      <4> QED
          BY <2>3, <3>1, <4>2, <4>3, <4>4, <4>5 DEF Follows
    <3> QED
        BY <3>2, <3>3
  <2>6. DOMAIN eyeball' = Handlers
      BY <2>2 DEF EyeballInv
  <2> QED
      BY <1>1, <2>2, <2>3, <2>4, <2>5, <2>6 DEF EyeballInv
<1>8. ASSUME NEW h \in Handlers, PushContext(h) PROVE EyeballInv'
  <2>1. PICK s : s = target[h]
      OBVIOUS
  <2>2. /\ pc[h] = "push" /\ pc' = [pc EXCEPT ![h] = "respondMigrated"] /\ pc[s] = "serve"
        /\ bound' = [bound EXCEPT ![s] = ConnOf[h]] /\ eyeball' = eyeball /\ target' = target
      BY <1>8, <2>1 DEF PushContext, Goto
  <2>3. \A t \in Handlers : Migrations(t)' = Migrations(t)
      BY <2>2 DEF Migrations
  <2>4. TargetsAreSessions'
      BY <1>2, <2>2 DEF EyeballInv, TargetsAreSessions, HasTarget
  <2>5. ASSUME NEW t \in Handlers, Alone(t)' PROVE Follows(t)'
    <3>1. Follows(t) /\ Alone(t) /\ Migrations(t) \subseteq Handlers
        BY <2>3, <2>5 DEF EyeballInv, Alone, Migrations
    <3>2. CASE t = s
      <4>1. h \in Migrations(t)
          BY <2>1, <3>2 DEF Migrations
      <4>2. eyeball'[t] = ConnOf[h] /\ bound'[t] = ConnOf[h]
          BY <2>2, <3>1, <3>2, <4>1 DEF Follows, EyeballInv
      <4>3. \A g \in Migrations(t) : g = h
          BY <3>1, <4>1 DEF Alone
      <4>4. pc'[h] = "respondMigrated" /\ pc'[t] # "respond"
          BY <1>2, <2>2, <3>2
      <4> QED
          BY <2>3, <4>2, <4>3, <4>4 DEF Follows
    <3>3. CASE t # s
      <4>1. h \notin Migrations(t)
          BY <2>1, <3>3 DEF Migrations
      <4>2. \A g \in Migrations(t) : pc'[g] = pc[g]
          BY <1>2, <2>2, <3>1, <4>1
      <4>3. eyeball'[t] = eyeball[t] /\ bound'[t] = bound[t]
          BY <2>2, <3>3 DEF EyeballInv
      <4>4. (pc'[t] = "respond" <=> pc[t] = "respond") /\ (pc'[t] = "serve" <=> pc[t] = "serve")
          BY <1>2, <2>2
      <4>5. OnItsWay(t)' <=> OnItsWay(t)
          BY <2>3, <4>2 DEF OnItsWay
      <4> QED
          BY <2>3, <3>1, <4>2, <4>3, <4>4, <4>5 DEF Follows
    <3> QED
        BY <3>2, <3>3
  <2>6. DOMAIN bound' = Handlers
      BY <2>2 DEF EyeballInv
  <2> QED
      BY <1>1, <2>2, <2>3, <2>4, <2>5, <2>6 DEF EyeballInv
<1>9. ASSUME NEW h \in Handlers,
             \/ Receive(h) \/ AlreadyRegistered(h) \/ RateLimited(h) \/ DialFails(h)
             \/ RespondFails(h) \/ EndByContext(h) \/ End(h) \/ Unregister(h) \/ Resend(h)
             \/ LoadEyeball(h) \/ RespondMigrated(h)
      PROVE  EyeballInv'
  <2>1. PICK from \in Labels, to \in Labels :
            /\ Goto(h, from, to) /\ from # "push"
            /\ to \notin {"push", "respond", "serve", "datagram", "register"}
                   \/ (from = "datagram" /\ to = "register")
            /\ from \in HasTarget => to \in HasTarget
    <3> USE DEF Labels, HasTarget
    <3>1. CASE Receive(h)
        BY <3>1 DEF Receive
    <3>2. CASE AlreadyRegistered(h)
        BY <3>2 DEF AlreadyRegistered
    <3>3. CASE RateLimited(h) \/ DialFails(h)
        BY <3>3 DEF RateLimited, DialFails
    <3>4. CASE RespondFails(h) \/ EndByContext(h) \/ End(h)
        BY <3>4 DEF RespondFails, EndByContext, End
    <3>5. CASE Unregister(h) \/ Resend(h) \/ RespondMigrated(h)
        BY <3>5 DEF Unregister, Resend, RespondMigrated
    <3>6. CASE LoadEyeball(h)
        BY <3>6 DEF LoadEyeball
    <3> QED
        BY <1>9, <3>1, <3>2, <3>3, <3>4, <3>5, <3>6
  <2>2. UNCHANGED <<eyeball, bound, target>>
      BY <1>9 DEF Receive, AlreadyRegistered, RateLimited, DialFails, RespondFails, EndByContext,
                  End, Unregister, Resend, LoadEyeball, RespondMigrated, sessionVars
  <2>3. from \notin {"push"}
      BY <2>1
  <2> QED
      BY <1>1, <2>1, <2>2, <2>3, EyeballStays
<1>10. CASE UNCHANGED vars
    BY <1>3, <1>10 DEF vars, sessionVars
<1>11. CASE SetLimit \/ \E c \in Conns : ConnectionUp(c) \/ ConnectionLost(c)
    BY <1>3, <1>11 DEF SetLimit, ConnectionUp, ConnectionLost, sessionVars
<1> QED
    BY <1>4, <1>5, <1>6, <1>7, <1>8, <1>9, <1>10, <1>11 DEF Next, Handle

\* A session that one goroutine migrates, whenever the migration falls (before the session is
\* served, while it is, or as it ends), sends to the connection whose context ends it, except
\* while the migration is on its way; for any number of datagrams, ids and connections
\* (Migrate, serve).
THEOREM MigratedSessionsFollow == Spec => []EyeballFollowsContext
<1>1. Init => EyeballInv
  <2> SUFFICES ASSUME Init PROVE EyeballInv
      OBVIOUS
  <2>1. MapInv
      BY SessionsAssumption
      DEF Init, MapInv, MapTypes, MapHoldsLiveSessions, Existing, Owns, Labels
  <2>2. /\ pc = [h \in Handlers |-> "datagram"] /\ target = [h \in Handlers |-> None]
        /\ sessions = [id \in Ids |-> None]
        /\ DOMAIN eyeball = Handlers /\ DOMAIN bound = Handlers /\ None \notin Handlers
      BY SessionsAssumption DEF Init
  <2>3. \A s \in Handlers : Migrations(s) = {}
      BY <2>2 DEF Migrations
  <2>4. \A s \in Handlers : IsFiniteSet(Migrations(s)) /\ Follows(s)
      BY <2>2, <2>3, FS_EmptySet DEF Follows
  <2> QED
      BY <2>1, <2>2, <2>4 DEF EyeballInv, TargetsAreSessions, OwnIds
<1>2. EyeballInv /\ [Next]_vars => EyeballInv'
    BY EyeballStep
<1>3. EyeballInv => EyeballFollowsContext
  <2> SUFFICES ASSUME EyeballInv, NEW s \in Handlers, pc[s] = "serve",
                      Cardinality(Migrations(s)) <= 1, \A h \in Migrations(s) : pc[h] # "push"
               PROVE  eyeball[s] = bound[s]
      BY DEF EyeballFollowsContext
  <2>1. IsFiniteSet(Migrations(s))
      BY DEF EyeballInv
  <2>2. ASSUME NEW g \in Migrations(s), NEW h \in Migrations(s), g # h PROVE FALSE
    <3>1. Cardinality({g, h}) = 2
      <4>1. IsFiniteSet({g}) /\ Cardinality({g}) = 1
          BY FS_Singleton
      <4>2. h \notin {g} /\ {g, h} = {g} \cup {h}
          BY <2>2
      <4>3. Cardinality({g} \cup {h}) = Cardinality({g}) + 1
          BY <4>1, <4>2, FS_AddElement
      <4> QED
          BY <4>1, <4>2, <4>3
    <3>2. Cardinality({g, h}) <= Cardinality(Migrations(s))
        BY <2>1, FS_Subset
    <3>3. Cardinality(Migrations(s)) \in Nat
        BY <2>1, FS_CardinalityType
    <3> QED
        BY <3>1, <3>2, <3>3
  <2>3. Follows(s)
      BY <2>2 DEF EyeballInv, Alone
  <2> QED
      BY <2>3 DEF Follows, OnItsWay
<1> QED
    BY <1>1, <1>2, <1>3, PTL DEF Spec
=============================================================================
