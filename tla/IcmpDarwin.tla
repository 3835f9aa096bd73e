----------------------------- MODULE IcmpDarwin -----------------------------
(***************************************************************************)
(* ingress/icmp_darwin.go: on this system all flows share one socket and   *)
(* are told apart by an echo id that echoIDTracker assigns.  A request     *)
(* gets its id under the lock of that tracker, and its flow under the lock *)
(* of the FunnelTracker; closing a flow releases the id.                   *)
(***************************************************************************)
EXTENDS Naturals, FiniteSets, FiniteSetsExt

CONSTANTS
    EchoConns,  \* connections to the edge
    EchoKeys,   \* flow3Tuple: source, destination and original echo id
    MaxUint16,  \* how many ids there are
    NoEcho

\* Ids are numbers; no id is one that stands for none.
ASSUME EchoAssumption == MaxUint16 \in Nat /\ NoEcho \notin Nat

VARIABLES
    mapping,      \* echoIDTracker.mapping
    assignment,   \* echoIDTracker.assignment
    nextAssignment,
    echoFunnels,  \* FunnelTracker.funnels: the flow of an id
    request       \* what the router of each connection is doing

echoVars == <<mapping, assignment, nextAssignment, echoFunnels, request>>

EchoIds == 0..(MaxUint16 - 1)
EchoFlow == [key : EchoKeys, conn : EchoConns, idle : BOOLEAN]
NoRequest == [step |-> "none"]

EchoTypeOK ==
    /\ mapping \in [EchoKeys -> EchoIds \cup {NoEcho}]
    /\ assignment \in [EchoIds -> BOOLEAN]
    /\ nextAssignment \in 0..MaxUint16
    /\ echoFunnels \in [EchoIds -> EchoFlow \cup {NoEcho}]
    /\ \A c \in EchoConns : request[c].step \in {"none", "register", "send"}

EchoInit ==
    /\ mapping = [k \in EchoKeys |-> NoEcho]
    /\ assignment = [id \in EchoIds |-> FALSE]
    /\ nextAssignment = 0
    /\ echoFunnels = [id \in EchoIds |-> NoEcho]
    /\ request = [c \in EchoConns |-> NoRequest]

\* The loops of getOrAssign: the first free id from the next one on, around the end.
FreeId ==
    LET from == IF nextAssignment = MaxUint16 THEN 0 ELSE nextAssignment
        free == {id \in EchoIds : ~assignment[id]}
        later == {id \in free : id >= from}
    IN  IF later # {} THEN Min(later) ELSE IF free # {} THEN Min(free) ELSE NoEcho

\* echoIDTracker.getOrAssign and set; without a free id the request fails.
GetOrAssign(c, k) ==
    LET id == IF mapping[k] # NoEcho THEN mapping[k] ELSE FreeId IN
    /\ request[c] = NoRequest
    /\ id # NoEcho
    /\ request' = [request EXCEPT ![c] = [step |-> "register", key |-> k, id |-> id]]
    /\ IF mapping[k] # NoEcho
       THEN UNCHANGED <<mapping, assignment, nextAssignment>>
       ELSE /\ mapping' = [mapping EXCEPT ![k] = id]
            /\ assignment' = [assignment EXCEPT ![id] = TRUE]
            /\ nextAssignment' = id + 1
    /\ UNCHANGED echoFunnels

\* mutant: release does not ask which id the key has by now.
ReleaseAny(closing) ==
    LET released == {id \in closing : mapping[echoFunnels[id].key] # NoEcho}
    IN  /\ mapping' = [k \in EchoKeys |->
                         IF \E id \in released : echoFunnels[id].key = k THEN NoEcho ELSE mapping[k]]
        /\ assignment' = [id \in EchoIds |-> assignment[id] /\ id \notin released]

\* The closeCallback of the flows of these ids: echoIDTracker.release.
Release(closing) ==
    LET released == {id \in closing : mapping[echoFunnels[id].key] = id}
    IN  /\ mapping' = [k \in EchoKeys |-> IF mapping[k] \in released THEN NoEcho ELSE mapping[k]]
        /\ assignment' = [id \in EchoIds |-> assignment[id] /\ id \notin released]

\* FunnelTracker.GetOrRegister: a flow of another connection is closed and replaced,
\* a flow of this connection is used, whatever key it has.
GetOrRegister(c) ==
    LET k == request[c].key
        id == request[c].id
        replace == echoFunnels[id] # NoEcho /\ echoFunnels[id].conn # c
        flow == IF echoFunnels[id] = NoEcho \/ replace THEN [key |-> k, conn |-> c, idle |-> FALSE]
                ELSE echoFunnels[id]
    IN  /\ request[c].step = "register"
        /\ echoFunnels' = [echoFunnels EXCEPT ![id] = flow]
        /\ IF replace THEN Release({id}) ELSE UNCHANGED <<mapping, assignment>>
        /\ request' = [request EXCEPT ![c] = [step |-> "send", key |-> k, id |-> id, flow |-> flow]]
        /\ UNCHANGED nextAssignment

\* sendToDst: the flow may have been closed since; the shared socket still sends.
EchoSendToDst(c) ==
    LET id == request[c].id IN
    /\ request[c].step = "send"
    /\ echoFunnels' = IF echoFunnels[id] # NoEcho /\ echoFunnels[id].key = request[c].flow.key
                         /\ echoFunnels[id].conn = request[c].flow.conn
                      THEN [echoFunnels EXCEPT ![id].idle = FALSE] ELSE echoFunnels
    /\ request' = [request EXCEPT ![c] = NoRequest]
    /\ UNCHANGED <<mapping, assignment, nextAssignment>>

\* sendReply and returnToSrc: a reply for this id marks its flow as active.
Reply(id) ==
    /\ echoFunnels[id] # NoEcho
    /\ echoFunnels' = [echoFunnels EXCEPT ![id].idle = FALSE]
    /\ UNCHANGED <<mapping, assignment, nextAssignment, request>>

EchoBecomesIdle(id) ==
    /\ echoFunnels[id] # NoEcho
    /\ echoFunnels' = [echoFunnels EXCEPT ![id].idle = TRUE]
    /\ UNCHANGED <<mapping, assignment, nextAssignment, request>>

\* FunnelTracker.cleanup
EchoCleanup ==
    LET expired == {id \in EchoIds : echoFunnels[id] # NoEcho /\ echoFunnels[id].idle}
    IN  /\ expired # {}
        /\ Release(expired)
        /\ echoFunnels' = [id \in EchoIds |-> IF id \in expired THEN NoEcho ELSE echoFunnels[id]]
        /\ UNCHANGED <<nextAssignment, request>>

EchoNext ==
    \/ \E c \in EchoConns :
          (\E k \in EchoKeys : GetOrAssign(c, k)) \/ GetOrRegister(c) \/ EchoSendToDst(c)
    \/ \E id \in EchoIds : Reply(id) \/ EchoBecomesIdle(id)
    \/ EchoCleanup

EchoSpec == EchoInit /\ [][EchoNext]_echoVars

-----------------------------------------------------------------------------

\* The two tables of echoIDTracker agree: an id is assigned exactly when one key
\* maps to it, whatever flow was closed, replaced or taken over by another key.
IdsAreUnique ==
    /\ \A id \in EchoIds : assignment[id] <=> \E k \in EchoKeys : mapping[k] = id
    /\ \A k, l \in EchoKeys : (mapping[k] # NoEcho /\ mapping[k] = mapping[l]) => k = l

\* icmp_darwin.go: "maps the source IP, destination IP and original echo ID to a
\* unique echo ID": a request is sent on a flow of its own key, whose source the
\* reply is returned to.
RequestsUseTheirOwnFlow ==
    \A c \in EchoConns : request[c].step = "send" => request[c].flow.key = request[c].key
=============================================================================
