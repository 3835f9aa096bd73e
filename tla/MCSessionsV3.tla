---------------------------- MODULE MCSessionsV3 ----------------------------
(***************************************************************************)
(* Instances of SessionsV3: which datagrams arrive on which connections.   *)
(***************************************************************************)
EXTENDS SessionsV3

CONSTANTS h1, h2, h3, h4, a, b, c1, c2, again

\* c1 is lost and replaced by the connection `again` of the same index.
MCIndexOf == [c \in Conns |-> IF c = c2 THEN 2 ELSE 1]
MCIds == {a, b}
MCIdOf == [h \in Handlers |-> IF h = h3 THEN b ELSE a]

\* A session, a retry of it after a reconnection, another session, a migration.
MixedHandlers == {h1, h2, h3, h4}
MixedConns == {c1, again, c2}
MixedConnOf == [h \in Handlers |-> CASE h = h1 -> c1 [] h = h2 -> again [] h \in {h3, h4} -> c2]

\* One session beside another one whose socket may fail to be bound.
TwoSessions == {h1, h3}
TwoConns == {c1, c2}
TwoSessionsConnOf == [h \in Handlers |-> c1]

MCLimits == 0..2
OneLimit == {1}
=============================================================================
