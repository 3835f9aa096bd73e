---------------------------- MODULE DataPathProofs ----------------------------
(***************************************************************************)
(* What a request of a client, a ping of a client and a call to the edge   *)
(* meet on their way, one after the other: the proxy, for any number of    *)
(* requests over both transports and to every kind of service; the ICMP    *)
(* proxies of Linux and macOS, for every number of connections, keys,      *)
(* ports and flows; the calls between cloudflared and the edge, for every  *)
(* set of values; the forwarders of the service mode; the rules of an      *)
(* ingress; the settings of a tunnel and the connections it makes by them; *)
(* the SOCKS5 server, for every policy and every sequence of data; the     *)
(* coding of datagrams and headers, for every id, size and list.           *)
(***************************************************************************)
EXTENDS IcmpLinux, RequestPath, Calls, IcmpDarwin, ServiceMode, IngressRules, TunnelConfig, Socks,
        Wire, FiniteSetsExt, FiniteSetTheorems, WellFoundedInduction, TLAPS

-----------------------------------------------------------------------------
\* Requests: what the client sees of the end of a stream, and the flows that the
\* limiter counts.

RequestsTyped ==
    /\ at \in [Reqs -> {"new", "rule", "acquire", "origin", "upgrade", "head", "copy",
                        "pipe", "error", "refused", "ended"}]
    /\ over \in [Reqs -> {"http2", "quic"}] /\ service \in [Reqs -> Services]
    /\ heads \in [Reqs -> Nat] /\ head \in [Reqs -> {"none", "origin", "filtered", "error"}]
    /\ whole \in [Reqs -> BOOLEAN] /\ end \in [Reqs -> {"open", "clean", "reset"}]
    /\ pipe \in [Reqs -> SUBSET {"up", "down"}] /\ active \in Nat

Unanswered == {"new", "rule", "acquire", "origin", "upgrade", "head", "refused"}
Counted == {"origin", "upgrade", "pipe", "error"}

\* Where a handler is tells what it has sent: nothing before the head of the origin,
\* which alone a copy or a pipe follows, and one answer when it has ended.
Sent(r) ==
    /\ at[r] # "ended" => end[r] = "open"
    /\ at[r] \in Unanswered => heads[r] = 0
    /\ at[r] \in {"copy", "pipe"} => heads[r] = 1
    /\ at[r] = "error" => heads[r] \in {0, 1}
    /\ at[r] = "ended" => /\ heads[r] = 1 /\ end[r] # "open"
                          /\ end[r] = "clean" /\ head[r] = "origin" => whole[r]

\* A request for a private network goes past the limiter, and no other does.
Limited(r) ==
    /\ at[r] \in {"acquire", "refused"} => service[r] = "tcp"
    /\ at[r] \in {"rule", "head", "copy"} => service[r] # "tcp"

TcpFlows == {r \in Reqs : service[r] = "tcp" /\ at[r] \in Counted}

PathInv ==
    /\ RequestsTyped
    /\ \A r \in Reqs : Sent(r) /\ Limited(r)
    /\ active = Cardinality(TcpFlows)

LEMMA FlowsChange ==
    ASSUME IsFiniteSet(Reqs), NEW r \in Reqs, NEW F \in SUBSET Reqs, NEW G \in SUBSET Reqs
    PROVE  /\ Cardinality(F) \in Nat
           /\ G = F \cup {r} /\ r \notin F => Cardinality(G) = Cardinality(F) + 1
           /\ G = F \ {r} /\ r \in F => Cardinality(F) \in Nat \ {0} /\ Cardinality(G) = Cardinality(F) - 1
<1>1. IsFiniteSet(F) /\ IsFiniteSet(G)
    BY FS_Subset
<1>2. Cardinality(F) \in Nat /\ Cardinality(G) \in Nat
    BY <1>1, FS_CardinalityType
<1>3. G = F \cup {r} /\ r \notin F => Cardinality(G) = Cardinality(F) + 1
    BY <1>1, FS_AddElement
<1>4. ASSUME G = F \ {r}, r \in F
      PROVE  Cardinality(F) \in Nat \ {0} /\ Cardinality(G) = Cardinality(F) - 1
  <2>1. Cardinality(G \cup {r}) = Cardinality(G) + 1
      BY <1>1, <1>4, FS_AddElement
  <2>2. G \cup {r} = F
      BY <1>4
  <2>3. Cardinality(F) = Cardinality(G) + 1
      BY <2>1, <2>2, Zenon
  <2> QED BY <1>2, <2>3
<1> QED BY <1>2, <1>3, <1>4

LEMMA InitPath == PathInit => PathInv
<1> SUFFICES ASSUME PathInit PROVE PathInv
    OBVIOUS
<1>1. RequestsTyped
    BY DEF PathInit, RequestsTyped, Services
<1>2. TcpFlows = {}
    BY DEF PathInit, TcpFlows
<1>3. \A r \in Reqs : Sent(r) /\ Limited(r)
    BY DEF PathInit, Sent, Limited, Unanswered
<1> QED BY <1>1, <1>2, <1>3, FS_EmptySet DEF PathInit, PathInv

\* The change of one handler is a change of one request: the rest is as it was.
LEMMA OneRequest ==
    ASSUME PathInv, NEW r \in Reqs, IsFiniteSet(Reqs), RequestsTyped',
           \A q \in Reqs \ {r} :
              /\ at'[q] = at[q] /\ service'[q] = service[q] /\ heads'[q] = heads[q]
              /\ head'[q] = head[q] /\ whole'[q] = whole[q] /\ end'[q] = end[q],
           Sent(r)', Limited(r)',
           active' = (active - (IF r \in TcpFlows THEN 1 ELSE 0)) + (IF r \in TcpFlows' THEN 1 ELSE 0)
    PROVE  PathInv'
<1>1. \A q \in Reqs : Sent(q)' /\ Limited(q)'
  <2> SUFFICES ASSUME NEW q \in Reqs, q # r PROVE Sent(q)' /\ Limited(q)'
      BY Zenon
  <2>1. Sent(q) /\ Limited(q)
      BY DEF PathInv
  <2> QED BY <2>1 DEF Sent, Limited
<1>2. /\ TcpFlows \in SUBSET Reqs /\ TcpFlows' \in SUBSET Reqs
      /\ \A q \in Reqs \ {r} : q \in TcpFlows' <=> q \in TcpFlows
    BY DEF TcpFlows
<1>3. active = Cardinality(TcpFlows)
    BY DEF PathInv
<1>4. active' = Cardinality(TcpFlows')
  <2>1. CASE r \in TcpFlows /\ r \in TcpFlows'
    <3>1. TcpFlows' = TcpFlows
      <4>1. \A q \in Reqs : q \in TcpFlows' <=> q \in TcpFlows
          BY <1>2, <2>1
      <4> QED BY <1>2, <4>1
    <3> QED BY <1>2, <1>3, <2>1, <3>1, FlowsChange
  <2>2. CASE r \in TcpFlows /\ r \notin TcpFlows'
    <3>1. TcpFlows' = TcpFlows \ {r}
        BY <1>2, <2>2
    <3> QED BY <1>2, <1>3, <2>2, <3>1, FlowsChange
  <2>3. CASE r \notin TcpFlows /\ r \in TcpFlows'
    <3>1. TcpFlows' = TcpFlows \cup {r}
        BY <1>2, <2>3
    <3> QED BY <1>2, <1>3, <2>3, <3>1, FlowsChange
  <2>4. CASE r \notin TcpFlows /\ r \notin TcpFlows'
    <3>1. TcpFlows' = TcpFlows
        BY <1>2, <2>4
    <3> QED BY <1>2, <1>3, <2>4, <3>1, FlowsChange
  <2> QED BY <2>1, <2>2, <2>3, <2>4
<1> QED BY <1>1, <1>4 DEF PathInv

LEMMA NextPath == ASSUME IsFiniteSet(Reqs) PROVE PathInv /\ [PathNext]_proxyVars => PathInv'
<1> SUFFICES ASSUME PathInv, [PathNext]_proxyVars PROVE PathInv'
    OBVIOUS
<1>0. /\ RequestsTyped /\ active = Cardinality(TcpFlows)
      /\ \A r \in Reqs : Sent(r) /\ Limited(r)
    BY DEF PathInv
<1> DEFINE Others(r) == \A q \in Reqs \ {r} :
              /\ at'[q] = at[q] /\ service'[q] = service[q] /\ heads'[q] = heads[q]
              /\ head'[q] = head[q] /\ whole'[q] = whole[q] /\ end'[q] = end[q]
           Count(r) == active' = (active - (IF r \in TcpFlows THEN 1 ELSE 0))
                                  + (IF r \in TcpFlows' THEN 1 ELSE 0)
<1>1. ASSUME NEW r \in Reqs, Dispatch(r) PROVE PathInv'
  <2>1. RequestsTyped' /\ Others(r)
      BY <1>0, <1>1 DEF Dispatch, Goto, RequestsTyped, Services
  <2>2. Sent(r)' /\ Limited(r)'
      BY <1>0, <1>1 DEF Dispatch, Goto, RequestsTyped, Sent, Limited, Unanswered
  <2>3. Count(r)
      BY <1>0, <1>1 DEF Dispatch, Goto, RequestsTyped, TcpFlows, Counted
  <2> QED BY <2>1, <2>2, <2>3, OneRequest
<1>2. ASSUME NEW r \in Reqs, Middleware(r) PROVE PathInv'
  <2>1. RequestsTyped' /\ Others(r)
      BY <1>0, <1>2 DEF Middleware, Goto, SendHead, NoHead, Returns, RequestsTyped
  <2>2. Sent(r)' /\ Limited(r)'
      BY <1>0, <1>2 DEF Middleware, Goto, SendHead, NoHead, Returns, RequestsTyped, Sent, Limited, Unanswered
  <2>3. Count(r)
      BY <1>0, <1>2 DEF Middleware, Goto, SendHead, NoHead, Returns, RequestsTyped, TcpFlows, Counted, Limited
  <2> QED BY <2>1, <2>2, <2>3, OneRequest
<1>3. ASSUME NEW r \in Reqs, Acquire(r) PROVE PathInv'
  <2>1. RequestsTyped' /\ Others(r)
      BY <1>0, <1>3 DEF Acquire, Goto, RequestsTyped
  <2>2. Sent(r)' /\ Limited(r)'
      BY <1>0, <1>3 DEF Acquire, Goto, RequestsTyped, Sent, Limited, Unanswered
  <2>3. Count(r)
      BY <1>0, <1>3 DEF Acquire, Goto, RequestsTyped, TcpFlows, Counted, Limited
  <2> QED BY <2>1, <2>2, <2>3, OneRequest
<1>4. ASSUME NEW r \in Reqs, Origin(r) PROVE PathInv'
  <2>1. RequestsTyped' /\ Others(r)
      BY <1>0, <1>4 DEF Origin, Goto, RequestsTyped
  <2>2. Sent(r)' /\ Limited(r)'
      BY <1>0, <1>4 DEF Origin, Goto, RequestsTyped, Sent, Limited, Unanswered
  <2>3. Count(r)
      BY <1>0, <1>4 DEF Origin, Goto, RequestsTyped, TcpFlows, Counted
  <2> QED BY <2>1, <2>2, <2>3, OneRequest
<1>5. ASSUME NEW r \in Reqs, Local(r) PROVE PathInv'
  <2>1. RequestsTyped' /\ Others(r)
      BY <1>0, <1>5 DEF Local, SendHead, Goto, Returns, RequestsTyped
  <2>2. Sent(r)' /\ Limited(r)'
      BY <1>0, <1>5 DEF Local, SendHead, Goto, Returns, RequestsTyped, Sent, Limited, Unanswered
  <2>3. Count(r)
      BY <1>0, <1>5 DEF Local, SendHead, Goto, Returns, RequestsTyped, TcpFlows, Counted
  <2> QED BY <2>1, <2>2, <2>3, OneRequest
<1>6. ASSUME NEW r \in Reqs, WriteRespHeaders(r) PROVE PathInv'
  <2>1. RequestsTyped' /\ Others(r)
      BY <1>0, <1>6 DEF WriteRespHeaders, SendHead, Goto, RequestsTyped
  <2>2. Sent(r)' /\ Limited(r)'
      BY <1>0, <1>6 DEF WriteRespHeaders, SendHead, Goto, RequestsTyped, Sent, Limited, Unanswered
  <2>3. Count(r)
      BY <1>0, <1>6 DEF WriteRespHeaders, SendHead, Goto, RequestsTyped, TcpFlows, Counted, Limited
  <2> QED BY <2>1, <2>2, <2>3, OneRequest
<1>7. ASSUME NEW r \in Reqs, CopyBody(r) PROVE PathInv'
  <2>1. RequestsTyped' /\ Others(r)
      BY <1>0, <1>7 DEF CopyBody, Goto, Returns, RequestsTyped
  <2>2. Sent(r)' /\ Limited(r)'
      BY <1>0, <1>7 DEF CopyBody, Goto, Returns, RequestsTyped, Sent, Limited, Unanswered
  <2>3. Count(r)
      BY <1>0, <1>7 DEF CopyBody, Goto, Returns, RequestsTyped, TcpFlows, Counted, Limited
  <2> QED BY <2>1, <2>2, <2>3, OneRequest
<1>8. ASSUME NEW r \in Reqs, PipeEnds(r) \/ Fail(r) PROVE PathInv'
  <2>0. r \in TcpFlows => active \in Nat \ {0}
    <3>1. TcpFlows \in SUBSET Reqs /\ TcpFlows \ {r} \in SUBSET Reqs
        BY DEF TcpFlows
    <3> QED BY <1>0, <3>1, FlowsChange
  <2>1. CASE PipeEnds(r)
    <3>1. RequestsTyped' /\ Others(r)
      <4>1. active' \in Nat
          BY <1>0, <2>0, <2>1 DEF PipeEnds, Released, RequestsTyped, TcpFlows, Counted
      <4>2. PICK d \in pipe[r] : pipe' = [pipe EXCEPT ![r] = @ \ {d}]
          BY <2>1 DEF PipeEnds
      <4>3. pipe' \in [Reqs -> SUBSET {"up", "down"}]
          BY <1>0, <4>2 DEF RequestsTyped
      <4>4. /\ UNCHANGED <<over, service, heads, head>>
            /\ \/ /\ whole' = [whole EXCEPT ![r] = TRUE] /\ at' = [at EXCEPT ![r] = "ended"]
                  /\ end' = [end EXCEPT ![r] = "clean"]
               \/ UNCHANGED <<whole, at, end>>
          BY <2>1 DEF PipeEnds, Goto, Returns
      <4> QED BY <1>0, <4>1, <4>3, <4>4 DEF RequestsTyped
    <3>2. Sent(r)' /\ Limited(r)'
        BY <1>0, <2>1 DEF PipeEnds, Goto, Returns, RequestsTyped, Sent, Limited, Unanswered
    <3>3. Count(r)
        BY <1>0, <2>0, <2>1 DEF PipeEnds, Goto, Returns, Released, RequestsTyped, TcpFlows, Counted
    <3> QED BY <3>1, <3>2, <3>3, OneRequest
  <2>2. CASE Fail(r)
    <3>1. RequestsTyped' /\ Others(r)
        BY <1>0, <2>0, <2>2 DEF Fail, SendHead, NoHead, Goto, Returns, Released, RequestsTyped, TcpFlows, Counted
    <3>2. Sent(r)' /\ Limited(r)'
        BY <1>0, <2>2 DEF Fail, SendHead, NoHead, Goto, Returns, RequestsTyped, Sent, Limited, Unanswered
    <3>3. Count(r)
        BY <1>0, <2>0, <2>2 DEF Fail, SendHead, NoHead, Goto, Returns, Released, RequestsTyped, TcpFlows, Counted, Limited
    <3> QED BY <3>1, <3>2, <3>3, OneRequest
  <2> QED BY <1>8, <2>1, <2>2
<1>9. CASE UNCHANGED proxyVars
    BY <1>0, <1>9 DEF proxyVars, PathInv, RequestsTyped, TcpFlows, Sent, Limited
<1> QED BY <1>1, <1>2, <1>3, <1>4, <1>5, <1>6, <1>7, <1>8, <1>9 DEF PathNext

\* EndIsHonest, for any number of requests and any limit: however a handler ends, the
\* client got one head and an honest end, and the limiter's count is given back exactly
\* once (handleDataStream, ServeHTTP, ProxyTCP).
THEOREM EveryEndIsHonest ==
    ASSUME IsFiniteSet(Reqs)
    PROVE  PathSpec => []EndIsHonest
<1>1. PathInv => EndIsHonest
  <2> SUFFICES ASSUME PathInv PROVE EndIsHonest
      OBVIOUS
  <2>1. \A r \in Reqs : at[r] \in {"new", "rule", "acquire", "origin", "upgrade", "head", "copy",
                                    "pipe", "error", "refused", "ended"}
      BY DEF PathInv, RequestsTyped
  <2>2. active = Cardinality({r \in Reqs : service[r] = "tcp" /\
                                at[r] \in {"origin", "upgrade", "pipe", "error"}})
      BY DEF PathInv, TcpFlows, Counted
  <2>3. \A r \in Reqs : Sent(r)
      BY DEF PathInv
  <2> QED BY <2>1, <2>2, <2>3 DEF EndIsHonest, Sent, Unanswered
<1> QED BY InitPath, NextPath, <1>1, PTL DEF PathSpec

-----------------------------------------------------------------------------
\* Pings on Linux: a socket is open exactly while its flow is registered, and
\* answers over the index that asked last.

\* IcmpTypeOK without the bound of the model, which no step depends on.
FlowsTyped ==
    /\ flows \in Seq(Flow)
    /\ funnels \in [Keys -> Nat] /\ sending \in [Conns -> Nat]
    /\ muxer \in [Conns -> Muxers \cup {None}]
    /\ latest \in [Keys -> Responders \cup {None}]

\* A registered flow exists and is registered under its own key, and a router sends
\* on flows that exist.
Registered ==
    /\ \A k \in Keys : funnels[k] # 0 => funnels[k] \in DOMAIN flows /\ flows[funnels[k]].key = k
    /\ \A c \in Conns : sending[c] # 0 => sending[c] \in DOMAIN flows

FlowInv == FlowsTyped /\ Registered /\ OpenFlowIsTheNewest

\* What a change of the fields of one flow leaves alone.
LEMMA OneFlowChanges ==
    ASSUME NEW fs \in Seq(Flow), NEW f \in DOMAIN fs, NEW new \in Flow,
           NEW gs, gs = [fs EXCEPT ![f] = new]
    PROVE  /\ gs \in Seq(Flow) /\ Len(gs) = Len(fs) /\ DOMAIN gs = DOMAIN fs
           /\ gs[f] = new
           /\ \A g \in DOMAIN fs : g # f => gs[g] = fs[g]
OBVIOUS

LEMMA ClosedFlow ==
    ASSUME NEW r \in Flow, NEW new, new = [r EXCEPT !.closed = TRUE]
    PROVE  /\ new \in Flow /\ new.closed
           /\ new.key = r.key /\ new.responder = r.responder /\ new.listener = r.listener
BY DEF Flow

LEMMA ClosedFlows ==
    ASSUME NEW fs \in Seq(Flow), NEW f \in {0} \cup DOMAIN fs
    PROVE  /\ Closed(fs, f) \in Seq(Flow)
           /\ Len(Closed(fs, f)) = Len(fs) /\ DOMAIN Closed(fs, f) = DOMAIN fs
           /\ f # 0 => Closed(fs, f)[f] = [fs[f] EXCEPT !.closed = TRUE]
           /\ \A g \in DOMAIN fs : g # f => Closed(fs, f)[g] = fs[g]
<1>1. CASE f = 0
    BY <1>1 DEF Closed
<1>2. CASE f # 0
  <2> DEFINE new == [fs[f] EXCEPT !.closed = TRUE]
  <2>1. f \in DOMAIN fs /\ fs[f] \in Flow
      BY <1>2
  <2>2. Closed(fs, f) = [fs EXCEPT ![f] = new]
      BY <1>2, Zenon DEF Closed
  <2>3. new \in Flow
      BY <2>1, ClosedFlow
  <2>4. f # 0 => new = [fs[f] EXCEPT !.closed = TRUE]
      OBVIOUS
  <2> HIDE DEF new
  <2>5. /\ Closed(fs, f) \in Seq(Flow)
        /\ Len(Closed(fs, f)) = Len(fs) /\ DOMAIN Closed(fs, f) = DOMAIN fs
        /\ Closed(fs, f)[f] = new
        /\ \A g \in DOMAIN fs : g # f => Closed(fs, f)[g] = fs[g]
      BY <2>1, <2>2, <2>3, OneFlowChanges
  <2> QED BY <1>2, <2>4, <2>5, Zenon
<1> QED BY <1>1, <1>2

LEMMA InitFlows == IcmpInit => FlowInv
BY DEF IcmpInit, FlowInv, FlowsTyped, Registered, OpenFlowIsTheNewest

\* A step that keeps the key, the connection and the openness of every flow, and
\* leaves no open flow without its listener.
LEMMA OnlyOtherFields ==
    ASSUME FlowInv, NEW f \in DOMAIN flows, NEW new \in Flow,
           flows' = [flows EXCEPT ![f] = new],
           new.key = flows[f].key, new.responder = flows[f].responder, new.closed = flows[f].closed,
           new.listener = "done" => flows[f].listener = "done",
           UNCHANGED <<muxer, funnels, latest>>,
           sending' \in [Conns -> Nat],
           \A c \in Conns : sending'[c] # 0 => sending'[c] = sending[c]
    PROVE  FlowInv'
<1> USE DEF FlowInv
<1>1. /\ flows' \in Seq(Flow) /\ DOMAIN flows' = DOMAIN flows /\ flows'[f] = new
      /\ \A g \in DOMAIN flows : g # f => flows'[g] = flows[g]
    BY OneFlowChanges DEF FlowsTyped
<1>2. FlowsTyped'
    BY <1>1 DEF FlowsTyped
<1>3. Registered'
    BY <1>1 DEF Registered
<1>4. OpenFlowIsTheNewest'
    BY <1>1 DEF OpenFlowIsTheNewest, Reaches
<1> QED BY <1>2, <1>3, <1>4

LEMMA NextFlows == FlowInv /\ [IcmpNext]_icmpVars => FlowInv'
<1> SUFFICES ASSUME FlowInv, [IcmpNext]_icmpVars PROVE FlowInv'
    OBVIOUS
<1>0. FlowsTyped /\ Registered /\ OpenFlowIsTheNewest
    BY DEF FlowInv
<1>1. ASSUME NEW c \in Conns, NEW k \in Keys, EchoRequest(c, k) PROVE FlowInv'
  <2>10. UNCHANGED muxer /\ Responder(c) \in Responders
    BY <1>0, <1>1 DEF EchoRequest, Responder, Responders, FlowsTyped
  <2> DEFINE f == funnels[k]
             kept == f # 0 /\ ~ShouldReplace(f, c)
             fs == Closed(flows, f)
  <2>0. f \in {0} \cup DOMAIN flows /\ (f # 0 => flows[f].key = k /\ flows[f] \in Flow)
    BY <1>0 DEF Registered, FlowsTyped
  <2>1. /\ fs \in Seq(Flow) /\ Len(fs) = Len(flows) /\ DOMAIN fs = DOMAIN flows
        /\ f # 0 => fs[f] = [flows[f] EXCEPT !.closed = TRUE]
        /\ \A g \in DOMAIN flows : g # f => fs[g] = flows[g]
    BY <1>0, <2>0, ClosedFlows DEF FlowsTyped
  <2>2. \A g \in DOMAIN flows : flows[g] \in Flow
    BY <1>0 DEF FlowsTyped
  \* after closing f no flow of the key is open
  <2>3. \A g \in DOMAIN fs :
           /\ fs[g].key = flows[g].key /\ fs[g].responder = flows[g].responder
           /\ fs[g].listener = flows[g].listener
           /\ fs[g].closed = (flows[g].closed \/ g = f)
    BY <2>0, <2>1, <2>2 DEF Flow
  <2>4. \A g \in DOMAIN fs : fs[g].key = k => fs[g].closed
    <3> SUFFICES ASSUME NEW g \in DOMAIN flows, fs[g].key = k, g # f PROVE fs[g].closed
        BY <2>1, <2>3
    <3>1. flows[g].key = k /\ flows[g].closed
        BY <1>0, <2>1, <2>3 DEF OpenFlowIsTheNewest
    <3> QED BY <2>1, <3>1
  <2>5. CASE /\ kept
             /\ sending' = [sending EXCEPT ![c] = f]
             /\ latest' = [latest EXCEPT ![k] = Responder(c)]
             /\ UNCHANGED <<flows, funnels>>
    <3>1. Reaches(flows[f].responder, Responder(c))
      <4>1. flows[f].responder \in Responders /\ flows[f].responder.index = c
        BY <2>0, <2>5 DEF ShouldReplace, Flow
      <4> QED BY <4>1, <2>10 DEF Reaches, Responder, Responders
    <3>2. FlowsTyped'
        BY <1>0, <2>5, <2>10 DEF FlowsTyped
    <3>3. Registered'
        BY <1>0, <2>0, <2>5 DEF Registered, FlowsTyped
    <3>4. OpenFlowIsTheNewest'
      <4> SUFFICES ASSUME NEW g \in DOMAIN flows
                   PROVE  /\ flows[g].closed <=> funnels[flows[g].key] # g
                          /\ ~flows[g].closed => Reaches(flows[g].responder, latest'[flows[g].key])
                          /\ flows[g].listener = "done" => flows[g].closed
          BY <2>5, <2>10 DEF OpenFlowIsTheNewest, Reaches
      <4>1. CASE flows[g].key # k
          BY <1>0, <2>2, <2>5, <4>1 DEF OpenFlowIsTheNewest, FlowsTyped, Flow
      <4>2. CASE flows[g].key = k
          BY <1>0, <2>5, <3>1, <4>2 DEF OpenFlowIsTheNewest, FlowsTyped
      <4> QED BY <4>1, <4>2
    <3> QED BY <3>2, <3>3, <3>4 DEF FlowInv
  <2>6. CASE /\ ~kept
             /\ Len(flows) < MaxFlows
             /\ \E port \in FreePorts(fs) : flows' = Append(fs, NewFlow(k, c, port))
             /\ funnels' = [funnels EXCEPT ![k] = Len(fs) + 1]
             /\ sending' = [sending EXCEPT ![c] = Len(fs) + 1]
             /\ latest' = [latest EXCEPT ![k] = Responder(c)]
    <3>1. PICK port \in Ports : flows' = Append(fs, NewFlow(k, c, port))
        BY <2>6 DEF FreePorts
    <3> DEFINE n == Len(fs) + 1
    <3>2. NewFlow(k, c, port) \in Flow
        BY <2>10 DEF NewFlow, Flow
    <3>3. /\ flows' \in Seq(Flow) /\ Len(flows') = n /\ n \in Nat \ {0} /\ n \notin DOMAIN fs
          /\ DOMAIN flows' = DOMAIN fs \cup {n}
          /\ flows'[n] = NewFlow(k, c, port)
          /\ \A g \in DOMAIN fs : flows'[g] = fs[g]
        BY <2>1, <3>1, <3>2
    <3>4. /\ flows'[n].key = k /\ flows'[n].responder = Responder(c) /\ ~flows'[n].closed
          /\ flows'[n].listener = "reading"
        BY <3>3 DEF NewFlow
    <3>5. FlowsTyped'
        BY <1>0, <2>6, <2>10, <3>3 DEF FlowsTyped
    <3>6. Registered'
      <4>1. ASSUME NEW j \in Keys, funnels'[j] # 0
            PROVE  funnels'[j] \in DOMAIN flows' /\ flows'[funnels'[j]].key = j
        <5>1. CASE j = k
            BY <1>0, <2>6, <3>3, <3>4, <5>1 DEF FlowsTyped
        <5>2. CASE j # k
            BY <1>0, <2>1, <2>3, <2>6, <3>3, <4>1, <5>2 DEF FlowsTyped, Registered
        <5> QED BY <5>1, <5>2
      <4>2. ASSUME NEW d \in Conns, sending'[d] # 0 PROVE sending'[d] \in DOMAIN flows'
          BY <1>0, <2>1, <2>6, <3>3, <4>2 DEF FlowsTyped, Registered
      <4> QED BY <4>1, <4>2 DEF Registered
    <3>7. OpenFlowIsTheNewest'
      <4> SUFFICES ASSUME NEW g \in DOMAIN flows'
                   PROVE  /\ flows'[g].closed <=> funnels'[flows'[g].key] # g
                          /\ ~flows'[g].closed => Reaches(flows'[g].responder, latest'[flows'[g].key])
                          /\ flows'[g].listener = "done" => flows'[g].closed
          BY <2>10 DEF OpenFlowIsTheNewest, Reaches
      <4>1. CASE g = n
          BY <1>0, <2>6, <3>4, <4>1 DEF FlowsTyped, Reaches
      <4>2. CASE g # n /\ fs[g].key = k
          BY <1>0, <2>4, <2>6, <3>3, <4>2 DEF FlowsTyped
      <4>3. CASE g # n /\ fs[g].key # k
        <5>1. g # f /\ fs[g] = flows[g] /\ flows'[g] = flows[g] /\ flows[g] \in Flow
            BY <2>0, <2>1, <2>2, <2>3, <3>3, <4>3
        <5>2. flows[g].key \in Keys
            BY <5>1 DEF Flow
        <5> QED BY <1>0, <2>1, <2>6, <3>3, <4>3, <5>1, <5>2 DEF OpenFlowIsTheNewest, FlowsTyped
      <4> QED BY <4>1, <4>2, <4>3
    <3> QED BY <3>5, <3>6, <3>7 DEF FlowInv
  <2>7. CASE /\ ~kept
             /\ flows' = fs
             /\ funnels' = [funnels EXCEPT ![k] = 0]
             /\ UNCHANGED <<sending, latest>>
    <3>1. FlowsTyped'
        BY <1>0, <2>1, <2>7, <2>10 DEF FlowsTyped
    <3>2. Registered'
        BY <1>0, <2>1, <2>3, <2>7 DEF Registered, FlowsTyped
    <3>3. OpenFlowIsTheNewest'
      <4> SUFFICES ASSUME NEW g \in DOMAIN fs
                   PROVE  /\ fs[g].closed <=> funnels'[fs[g].key] # g
                          /\ ~fs[g].closed => Reaches(fs[g].responder, latest[fs[g].key])
                          /\ fs[g].listener = "done" => fs[g].closed
          BY <2>7, <2>10 DEF OpenFlowIsTheNewest, Reaches
      <4>1. CASE fs[g].key = k
          BY <1>0, <2>1, <2>4, <2>7, <4>1 DEF FlowsTyped
      <4>2. CASE fs[g].key # k
        <5>1. g # f /\ fs[g] = flows[g] /\ flows[g] \in Flow
            BY <2>0, <2>1, <2>2, <2>3, <4>2
        <5>2. flows[g].key \in Keys
            BY <5>1 DEF Flow
        <5> QED BY <1>0, <2>1, <2>7, <4>2, <5>1, <5>2 DEF OpenFlowIsTheNewest, FlowsTyped
      <4> QED BY <4>1, <4>2
    <3> QED BY <3>1, <3>2, <3>3 DEF FlowInv
  <2> QED BY <1>1, <2>5, <2>6, <2>7 DEF EchoRequest
<1>2. ASSUME NEW c \in Conns, SendToDst(c) PROVE FlowInv'
  <2> DEFINE f == sending[c]
             new == [flows[f] EXCEPT !.idle = FALSE, !.asked = @ \/ ~flows[f].closed]
  <2>1. f \in DOMAIN flows /\ flows[f] \in Flow
      BY <1>0, <1>2 DEF SendToDst, Registered, FlowsTyped
  <2>2. flows' = [flows EXCEPT ![f] = new]
      BY <1>2, <2>1, Zenon DEF SendToDst
  <2>3. /\ new \in Flow /\ new.key = flows[f].key /\ new.responder = flows[f].responder
        /\ new.closed = flows[f].closed /\ new.listener = flows[f].listener
      BY <2>1 DEF Flow
  <2>4. /\ UNCHANGED <<muxer, funnels, latest>> /\ sending' \in [Conns -> Nat]
        /\ \A d \in Conns : sending'[d] # 0 => sending'[d] = sending[d]
      BY <1>0, <1>2 DEF SendToDst, FlowsTyped
  <2> HIDE DEF new
  <2> QED BY <2>1, <2>2, <2>3, <2>4, OnlyOtherFields
<1>3. ASSUME NEW f \in DOMAIN flows,
             ReadReply(f) \/ ReturnToSrc(f) \/ ReadFails(f) \/ BecomesIdle(f)
      PROVE  FlowInv'
  <2>0. flows[f] \in Flow
      BY <1>0 DEF FlowsTyped
  <2>1. UNCHANGED <<muxer, funnels, latest>> /\ sending' \in [Conns -> Nat] /\ sending' = sending
      BY <1>0, <1>3 DEF ReadReply, ReturnToSrc, ReadFails, BecomesIdle, FlowsTyped
  <2>2. PICK new \in Flow :
          /\ flows' = [flows EXCEPT ![f] = new]
          /\ new.key = flows[f].key /\ new.responder = flows[f].responder /\ new.closed = flows[f].closed
          /\ new.listener = "done" => flows[f].listener = "done"
    <3>1. CASE ReadReply(f)
      <4> DEFINE new == [flows[f] EXCEPT !.listener = "returning", !.asked = FALSE]
      <4>1. flows' = [flows EXCEPT ![f] = new]
          BY <3>1, Zenon DEF ReadReply
      <4>2. /\ new \in Flow /\ new.key = flows[f].key /\ new.responder = flows[f].responder
            /\ new.closed = flows[f].closed
            /\ new.listener = "done" => flows[f].listener = "done"
          BY <2>0 DEF Flow
      <4> QED BY <4>1, <4>2, Zenon
    <3>2. CASE ReturnToSrc(f)
      <4> DEFINE new == [flows[f] EXCEPT !.listener = "reading", !.idle = FALSE]
      <4>1. flows' = [flows EXCEPT ![f] = new]
          BY <3>2, Zenon DEF ReturnToSrc
      <4>2. /\ new \in Flow /\ new.key = flows[f].key /\ new.responder = flows[f].responder
            /\ new.closed = flows[f].closed
            /\ new.listener = "done" => flows[f].listener = "done"
          BY <2>0 DEF Flow
      <4> QED BY <4>1, <4>2, Zenon
    <3>3. CASE ReadFails(f)
      <4> DEFINE new == [flows[f] EXCEPT !.listener = "unregistering"]
      <4>1. flows' = [flows EXCEPT ![f] = new]
          BY <3>3, Zenon DEF ReadFails
      <4>2. /\ new \in Flow /\ new.key = flows[f].key /\ new.responder = flows[f].responder
            /\ new.closed = flows[f].closed
            /\ new.listener = "done" => flows[f].listener = "done"
          BY <2>0 DEF Flow
      <4> QED BY <4>1, <4>2, Zenon
    <3>4. CASE BecomesIdle(f)
      <4> DEFINE new == [flows[f] EXCEPT !.idle = TRUE]
      <4>1. flows' = [flows EXCEPT ![f] = new]
          BY <3>4, Zenon DEF BecomesIdle
      <4>2. /\ new \in Flow /\ new.key = flows[f].key /\ new.responder = flows[f].responder
            /\ new.closed = flows[f].closed
            /\ new.listener = "done" => flows[f].listener = "done"
          BY <2>0 DEF Flow
      <4> QED BY <4>1, <4>2, Zenon
    <3> QED BY <1>3, <3>1, <3>2, <3>3, <3>4
  <2> QED BY <2>1, <2>2, OnlyOtherFields
<1>4. ASSUME NEW f \in DOMAIN flows, Unregister(f) PROVE FlowInv'
  <2> DEFINE k == flows[f].key
             own == funnels[k] # 0 /\ Equal(funnels[k], f)
             h == IF own THEN funnels[k] ELSE 0
             fs == Closed(flows, h)
             new == [fs[f] EXCEPT !.listener = "done"]
  <2>0. k \in Keys /\ \A g \in DOMAIN flows : flows[g] \in Flow /\ flows[g].key \in Keys
    <3>1. \A g \in DOMAIN flows : flows[g] \in Flow
        BY <1>0 DEF FlowsTyped
    <3> QED BY <3>1 DEF Flow
  <2>1. /\ h \in {0} \cup DOMAIN flows /\ (h # 0 => h = funnels[k] /\ flows[h].key = k)
        /\ funnels[k] = f => h = f
    BY <1>0, <2>0 DEF Registered, Equal
  <2>2. /\ flows' = [fs EXCEPT ![f] = new]
        /\ funnels' = IF h # 0 THEN [funnels EXCEPT ![k] = 0] ELSE funnels
        /\ UNCHANGED <<muxer, sending, latest>>
    <3>1. CASE own
        BY <1>4, <3>1, Zenon DEF Unregister
    <3>2. CASE ~own
        BY <1>4, <3>2, Zenon DEF Unregister, Closed
    <3> QED BY <3>1, <3>2
  <2> HIDE DEF h
  <2>3. /\ fs \in Seq(Flow) /\ DOMAIN fs = DOMAIN flows
        /\ h # 0 => fs[h] = [flows[h] EXCEPT !.closed = TRUE]
        /\ \A g \in DOMAIN flows : g # h => fs[g] = flows[g]
    BY <1>0, <2>1, ClosedFlows DEF FlowsTyped
  <2> HIDE DEF fs
  <2>4. \A g \in DOMAIN flows :
           /\ fs[g] \in Flow /\ fs[g].key = flows[g].key /\ fs[g].responder = flows[g].responder
           /\ fs[g].listener = flows[g].listener
           /\ fs[g].closed <=> flows[g].closed \/ g = h
    BY <2>0, <2>1, <2>3 DEF Flow
  <2>5. /\ new \in Flow /\ new.key = fs[f].key /\ new.responder = fs[f].responder
        /\ new.closed = fs[f].closed
    BY <2>4 DEF Flow
  <2> HIDE DEF new
  <2>6. /\ flows' \in Seq(Flow) /\ DOMAIN flows' = DOMAIN flows
        /\ flows'[f] = new
        /\ \A g \in DOMAIN flows : g # f => flows'[g] = fs[g]
    BY <2>2, <2>3, <2>5, OneFlowChanges
  <2>7. \A g \in DOMAIN flows :
           /\ flows'[g].key = flows[g].key /\ flows'[g].responder = flows[g].responder
           /\ flows'[g].closed <=> flows[g].closed \/ g = h
           /\ g # f => flows'[g].listener = flows[g].listener
    BY <2>4, <2>5, <2>6
  <2>8. FlowsTyped'
    BY <1>0, <2>2, <2>6 DEF FlowsTyped
  <2>9. Registered'
    <3>1. \A j \in Keys : funnels'[j] # 0 => funnels'[j] = funnels[j]
        BY <1>0, <2>0, <2>2 DEF FlowsTyped
    <3> QED BY <1>0, <2>2, <2>6, <2>7, <3>1 DEF Registered
  <2>10. OpenFlowIsTheNewest'
    <3> SUFFICES ASSUME NEW g \in DOMAIN flows
                 PROVE  /\ flows'[g].closed <=> funnels'[flows'[g].key] # g
                        /\ ~flows'[g].closed => Reaches(flows'[g].responder, latest'[flows'[g].key])
                        /\ flows'[g].listener = "done" => flows'[g].closed
        BY <2>2, <2>6 DEF OpenFlowIsTheNewest, Reaches
    <3>1. /\ flows[g].closed <=> funnels[flows[g].key] # g
          /\ ~flows[g].closed => Reaches(flows[g].responder, latest[flows[g].key])
          /\ flows[g].listener = "done" => flows[g].closed
        BY <1>0 DEF OpenFlowIsTheNewest
    <3>2. /\ flows'[g].key = flows[g].key /\ flows'[g].responder = flows[g].responder
          /\ flows'[g].closed <=> flows[g].closed \/ g = h
          /\ g # f => flows'[g].listener = flows[g].listener
        BY <2>7
    <3>3. flows'[g].closed <=> funnels'[flows[g].key] # g
        BY <1>0, <2>0, <2>1, <2>2, <3>1, <3>2 DEF FlowsTyped
    <3>4. flows'[f].closed
        BY <1>0, <2>1, <2>7 DEF OpenFlowIsTheNewest
    <3> QED BY <2>2, <3>1, <3>2, <3>3, <3>4
  <2> QED BY <2>8, <2>9, <2>10 DEF FlowInv
<1>5. CASE Cleanup
  <2> DEFINE expired == {k \in Keys : funnels[k] # 0 /\ flows[funnels[k]].idle}
             ended(f) == \E k \in expired : funnels[k] = f
             new(f) == [flows[f] EXCEPT !.closed = @ \/ ended(f)]
  <2>1. /\ flows' = [f \in DOMAIN flows |-> new(f)]
        /\ funnels' = [k \in Keys |-> IF k \in expired THEN 0 ELSE funnels[k]]
        /\ UNCHANGED <<muxer, sending, latest>>
    BY <1>5, Zenon DEF Cleanup
  <2>2. \A f \in DOMAIN flows :
           /\ new(f) \in Flow /\ new(f).key = flows[f].key /\ new(f).responder = flows[f].responder
           /\ new(f).listener = flows[f].listener
           /\ new(f).closed <=> flows[f].closed \/ ended(f)
    <3> SUFFICES ASSUME NEW f \in DOMAIN flows
                 PROVE  /\ new(f) \in Flow /\ new(f).key = flows[f].key
                        /\ new(f).responder = flows[f].responder /\ new(f).listener = flows[f].listener
                        /\ new(f).closed <=> flows[f].closed \/ ended(f)
        OBVIOUS
    <3>1. flows[f] \in Flow
        BY <1>0 DEF FlowsTyped
    <3>2. ended(f) \in BOOLEAN
        OBVIOUS
    <3> HIDE DEF ended
    <3> QED BY <3>1, <3>2 DEF Flow
  <2> HIDE DEF new
  <2>3. /\ flows' \in Seq(Flow) /\ DOMAIN flows' = DOMAIN flows
        /\ \A f \in DOMAIN flows : flows'[f] = new(f)
    BY <1>0, <2>1, <2>2 DEF FlowsTyped
  <2>4. \A f \in DOMAIN flows : flows[f].key \in Keys
    <3>1. \A f \in DOMAIN flows : flows[f] \in Flow
        BY <1>0 DEF FlowsTyped
    <3> QED BY <3>1 DEF Flow
  \* a flow is ended exactly when its own key has expired
  <2>5. \A f \in DOMAIN flows :
           ended(f) <=> flows[f].key \in expired /\ funnels[flows[f].key] = f
    BY <1>0, <2>4 DEF Registered
  <2>6. FlowsTyped'
    BY <1>0, <2>1, <2>3 DEF FlowsTyped
  <2>7. Registered'
    BY <1>0, <2>1, <2>2, <2>3 DEF Registered
  <2>8. OpenFlowIsTheNewest'
    <3> HIDE DEF ended
    <3> SUFFICES ASSUME NEW f \in DOMAIN flows
                 PROVE  /\ new(f).closed <=> funnels'[new(f).key] # f
                        /\ ~new(f).closed => Reaches(new(f).responder, latest[new(f).key])
                        /\ new(f).listener = "done" => new(f).closed
        BY <2>1, <2>3 DEF OpenFlowIsTheNewest, Reaches
    <3>1. /\ flows[f].closed <=> funnels[flows[f].key] # f
          /\ ~flows[f].closed => Reaches(flows[f].responder, latest[flows[f].key])
          /\ flows[f].listener = "done" => flows[f].closed
        BY <1>0 DEF OpenFlowIsTheNewest
    <3>2. funnels'[flows[f].key] = IF flows[f].key \in expired THEN 0 ELSE funnels[flows[f].key]
        BY <2>1, <2>4
    <3>3. f # 0
        BY <1>0 DEF FlowsTyped
    <3> HIDE DEF expired
    <3> QED BY <2>2, <2>5, <3>1, <3>2, <3>3
  <2> QED BY <2>6, <2>7, <2>8 DEF FlowInv
<1>6. ASSUME NEW c \in Conns, Connects(c) PROVE FlowInv'
  <2>1. PICK new \in Muxers \ {muxer[c]} :
           /\ \A f \in DOMAIN flows : flows[f].responder # [index |-> c, muxer |-> new]
           /\ muxer' = [muxer EXCEPT ![c] = new]
    BY <1>6 DEF Connects
  <2>2. UNCHANGED <<flows, funnels, sending, latest>>
    BY <1>6 DEF Connects
  <2>3. FlowsTyped' /\ Registered'
    BY <1>0, <2>1, <2>2 DEF FlowsTyped, Registered
  <2>4. ASSUME NEW f \in DOMAIN flows, Reaches(flows[f].responder, latest[flows[f].key])
        PROVE  Reaches(flows[f].responder, latest[flows[f].key])'
    <3>1. flows[f].responder \in Responders
      <4>1. flows[f] \in Flow
        BY <1>0 DEF FlowsTyped
      <4> QED BY <4>1 DEF Flow
    <3>2. flows[f].responder.index = c => flows[f].responder.muxer # new
      BY <2>1, <3>1 DEF Responders
    <3> QED BY <1>0, <2>1, <2>2, <2>4, <3>1, <3>2 DEF Reaches, Responders, FlowsTyped
  <2>5. OpenFlowIsTheNewest'
    BY <1>0, <2>2, <2>4 DEF OpenFlowIsTheNewest
  <2> QED BY <2>3, <2>5 DEF FlowInv
<1>7. CASE UNCHANGED icmpVars
    BY <1>0, <1>7 DEF icmpVars, FlowInv, FlowsTyped, Registered, OpenFlowIsTheNewest, Reaches
<1> QED BY <1>1, <1>2, <1>3, <1>4, <1>5, <1>6, <1>7 DEF IcmpNext

\* OpenFlowIsTheNewest, for any number of flows and reconnections: GetOrRegister closes what
\* it replaces, Unregister removes no other flow than one with its own port, and the clean-up
\* closes what it forgets, so no ICMP socket leaks and none answers over another connection
\* than the last that asked, except that a connection made again under its index, which
\* createShouldReplaceFunnelFunc takes for the old one, does not get the flows of its muxer.
THEOREM FlowsAnswerTheNewest == IcmpSpec => []OpenFlowIsTheNewest
<1>1. FlowInv => OpenFlowIsTheNewest
    BY DEF FlowInv
<1> QED BY InitFlows, NextFlows, <1>1, PTL DEF IcmpSpec

-----------------------------------------------------------------------------
\* Calls: what the caller is told is what the handler did.

\* NoValue stands for no error and for no verdict, so it is none of them.
NoValueIsApart ==
    NoValue \notin {"rpc", "EDUPCONN", "other", "connected", "duplicate", "again", "final"}

\* How ServeControlStream takes the result of a registration.
VerdictOn(r) ==
    CASE r.err = NoValue -> "connected"
      [] r.err = "EDUPCONN" -> "duplicate"
      [] r.err = "other" /\ r.delay # NoValue -> "again"
      [] OTHER -> "final"

HandlerInv ==
    /\ handler \in {"none", "running", "returned"}
    /\ runs = IF handler = "none" THEN 0 ELSE 1
    /\ handler = "returned" => outcome \in Outcomes(op)

AnswerInv == answer # NoValue => handler = "returned" /\ answer = Marshal(op, outcome)

ResultInv ==
    result # NoValue => /\ stream # "new"
                        /\ result = NoAnswer \/ (answer # NoValue /\ result = Unmarshal(op, answer))

VerdictInv ==
    verdict # NoValue => /\ op = "registerConnection" /\ result # NoValue
                         /\ verdict = VerdictOn(result)

CallInv == op \in Ops /\ HandlerInv /\ AnswerInv /\ ResultInv /\ VerdictInv

\* What was marshalled is unmarshalled with the error of the handler, with its
\* value if there is no error, and at a registration with its delay.
LEMMA ErrorsSurvive ==
    ASSUME NEW o \in Ops, NEW r \in Outcomes(o)
    PROVE  LET t == Unmarshal(o, Marshal(o, r))
           IN  /\ t.err = r.err
               /\ r.err = NoValue => t.value = r.value
               /\ o = "registerConnection" /\ r.err # NoValue => t.delay = r.delay
<1>1. CASE o = "registerConnection"
    BY <1>1 DEF Marshal, Unmarshal, RegistrationAnswer, MarshalError, Message, ReadRegistration, Told
<1>2. CASE o = "registerUdpSession"
    BY <1>2 DEF Marshal, Unmarshal, SessionAnswer, Message, ReadSession, Told
<1>3. CASE o = "updateConfiguration"
    BY <1>3 DEF Marshal, Unmarshal, ConfigurationAnswer, Message, ReadConfiguration, Told
<1>4. CASE o = "connect"
    BY <1>4 DEF Marshal, Unmarshal, ConnectAnswer, Message, ReadConnectResponse, Told
<1>5. CASE o \in {"updateLocalConfiguration", "unregisterConnection", "unregisterUdpSession"}
    BY <1>5 DEF Marshal, Unmarshal, PlainAnswer, Message, ReadPlain, Told
<1> QED BY <1>1, <1>2, <1>3, <1>4, <1>5 DEF Ops, Control, Sessions

LEMMA InitCall == CallsInit => CallInv
BY DEF CallsInit, CallInv, HandlerInv, AnswerInv, ResultInv, VerdictInv

LEMMA NextCall == CallInv /\ [CallsNext]_callsVars => CallInv'
<1> SUFFICES ASSUME CallInv, [CallsNext]_callsVars PROVE CallInv'
    OBVIOUS
<1> USE DEF CallInv, HandlerInv, AnswerInv, ResultInv, VerdictInv
\* The stream is new, so there is neither a result nor a verdict to disturb.
<1>1. ASSUME NEW ops, Begin(ops) PROVE CallInv'
    BY <1>1 DEF Begin
<1>2. CASE AcceptCall
    BY <1>2 DEF AcceptCall, Starts
<1>3. CASE AcceptRequest
    BY <1>3 DEF AcceptRequest, Starts, Refused
\* While the handler runs there is no answer, and what was told is NoAnswer.
<1>4. CASE HandlerReturns
  <2>1. PICK r \in Outcomes(op) :
          outcome' = r /\ answer' = IF stream = "open" THEN Marshal(op, r) ELSE NoValue
      BY <1>4 DEF HandlerReturns
  <2>2. answer = NoValue /\ (result # NoValue => result = NoAnswer)
      BY <1>4 DEF HandlerReturns
  <2> QED BY <1>4, <2>1, <2>2 DEF HandlerReturns
<1>5. CASE StreamEnds
    BY <1>5 DEF StreamEnds
<1>6. CASE TimesOut
    BY <1>6 DEF TimesOut
<1>7. CASE Return
    BY <1>7 DEF Return
<1>8. CASE Judge
    BY <1>8 DEF Judge, VerdictOn
<1>9. CASE UNCHANGED callsVars
    BY <1>9 DEF callsVars
<1> QED
    BY <1>1, <1>2, <1>3, <1>4, <1>5, <1>6, <1>7, <1>8, <1>9
    DEF CallsNext, CallEdge, CallSessions, CallConfiguration, Connect

\* The invariant says how the result came about; the lemma, what it says.
LEMMA TruthOfResults ==
    ASSUME NoValueIsApart, CallInv PROVE CallsAreTruthful
<1> USE DEF CallInv, HandlerInv, AnswerInv, ResultInv, VerdictInv
<1>1. NoAnswer.err = "rpc" /\ NoAnswer.delay = NoValue
    BY DEF NoAnswer
<1>2. ASSUME result # NoValue, result # NoAnswer
      PROVE  /\ handler = "returned" /\ result.err = outcome.err
             /\ result.err = NoValue => result.value = outcome.value
             /\ op = "registerConnection" /\ outcome.err # NoValue => result.delay = outcome.delay
    BY <1>2, ErrorsSurvive
<1>3. runs <= 1
    OBVIOUS
<1>4. result # NoValue /\ result.err = NoValue =>
          handler = "returned" /\ outcome.err = NoValue /\ outcome.value = result.value
    BY <1>1, <1>2 DEF NoValueIsApart
<1>5. result # NoValue /\ result.err \in Errors => handler = "returned" /\ outcome.err = result.err
    BY <1>1, <1>2 DEF NoValueIsApart, Errors
<1>6. verdict # NoValue /\ result # NoAnswer =>
          /\ result.err = outcome.err
          /\ outcome.err # NoValue => result.delay = outcome.delay
    BY <1>2
<1>7. verdict = "again" <=> verdict # NoValue /\ result # NoAnswer
                                 /\ outcome.err = "other" /\ outcome.delay # NoValue
    BY <1>1, <1>6 DEF NoValueIsApart, VerdictOn
<1>8. verdict = "duplicate" => outcome.err = "EDUPCONN"
    BY <1>1, <1>6 DEF NoValueIsApart, VerdictOn
<1>9. verdict = "connected" => outcome.err = NoValue
    BY <1>1, <1>6 DEF NoValueIsApart, VerdictOn
<1> QED BY <1>3, <1>4, <1>5, <1>7, <1>8, <1>9 DEF CallsAreTruthful

\* Whatever values and delays there are: the caller of a call is told of a success,
\* of an error of the handler, and of a leave to try again, only if the handler
\* said so (RegisterConnection, ServeControlStream).
THEOREM CallersAreToldTheTruth ==
    ASSUME NoValueIsApart PROVE CallsSpec => []CallsAreTruthful
<1>1. CallsInit => CallInv
    BY InitCall
<1>2. CallInv /\ [CallsNext]_callsVars => CallInv'
    BY NextCall
<1>3. CallInv => CallsAreTruthful
    BY TruthOfResults
<1> QED BY <1>1, <1>2, <1>3, PTL DEF CallsSpec

-----------------------------------------------------------------------------
\* Pings on macOS: the ids of echo requests, of which a flow has at most one.

\* A set of numbers that is not empty has its minimum.
LEMMA LeastOfNumbers ==
    ASSUME NEW S, S \subseteq Nat, S # {}
    PROVE  Min(S) \in S /\ \A j \in S : Min(S) <= j
<1> DEFINE R == OpToRel(<, Nat)
<1>1. IsWellFoundedOn(R, Nat)
  BY NatLessThanWellFounded
<1> HIDE DEF R
<1>2. PICK n \in S : \A j \in S : ~(<<j, n>> \in R)
  BY <1>1, WFMin
<1>3. ASSUME NEW j \in S
      PROVE  n <= j
  <2>1. n \in Nat /\ j \in Nat
    OBVIOUS
  <2>2. j < n => <<j, n>> \in R
    BY <2>1 DEF R, OpToRel
  <2> QED BY <1>2, <2>1, <2>2
<1> QED BY <1>3 DEF Min

EchoRequests ==
    \A c \in EchoConns :
       request[c] = NoRequest \/ (request[c].key \in EchoKeys /\ request[c].id \in EchoIds)

EchoInv ==
    /\ mapping \in [EchoKeys -> EchoIds \cup {NoEcho}]
    /\ assignment \in [EchoIds -> BOOLEAN]
    /\ nextAssignment \in Nat
    /\ echoFunnels \in [EchoIds -> EchoFlow \cup {NoEcho}]
    /\ DOMAIN request = EchoConns
    /\ EchoRequests
    /\ IdsAreUnique

\* The id that getOrAssign finds is free.
LEMMA FreeIdIsFree ==
    ASSUME assignment \in [EchoIds -> BOOLEAN], FreeId # NoEcho
    PROVE  FreeId \in EchoIds /\ ~assignment[FreeId]
<1> DEFINE from == IF nextAssignment = MaxUint16 THEN 0 ELSE nextAssignment
           free == {id \in EchoIds : ~assignment[id]}
           later == {id \in free : id >= from}
<1>1. FreeId = IF later # {} THEN Min(later) ELSE IF free # {} THEN Min(free) ELSE NoEcho
  BY DEF FreeId
<1>2. EchoIds \subseteq Nat
  BY EchoAssumption DEF EchoIds
<1>3. later \subseteq Nat /\ free \subseteq Nat /\ later \subseteq free
  BY <1>2
<1>4. FreeId \in free
  <2> HIDE DEF later, free
  <2>1. later # {} => Min(later) \in later
    BY <1>3, LeastOfNumbers
  <2>2. free # {} => Min(free) \in free
    BY <1>3, LeastOfNumbers
  <2> QED BY <1>1, <1>3, <2>1, <2>2
<1> QED BY <1>4

LEMMA ReleaseKeepsIdsUnique ==
    ASSUME NEW closing, closing \subseteq EchoIds, EchoInv, Release(closing)
    PROVE  /\ mapping' \in [EchoKeys -> EchoIds \cup {NoEcho}]
           /\ assignment' \in [EchoIds -> BOOLEAN]
           /\ IdsAreUnique'
<1> PICK released : released = {id \in closing : mapping[echoFunnels[id].key] = id}
  OBVIOUS
<1>1. /\ mapping' = [k \in EchoKeys |-> IF mapping[k] \in released THEN NoEcho ELSE mapping[k]]
      /\ assignment' = [id \in EchoIds |-> assignment[id] /\ id \notin released]
  BY DEF Release
<1>2. released \subseteq EchoIds /\ NoEcho \notin EchoIds
  BY EchoAssumption DEF EchoIds
<1>3. mapping' \in [EchoKeys -> EchoIds \cup {NoEcho}]
  BY <1>1 DEF EchoInv
<1>4. assignment' \in [EchoIds -> BOOLEAN]
  BY <1>1 DEF EchoInv
<1>5. ASSUME NEW id \in EchoIds
      PROVE  assignment'[id] <=> \E k \in EchoKeys : mapping'[k] = id
  <2>1. assignment[id] <=> \E k \in EchoKeys : mapping[k] = id
    BY DEF EchoInv, IdsAreUnique
  <2>2. \A k \in EchoKeys : mapping'[k] = id <=> mapping[k] = id /\ id \notin released
    BY <1>1, <1>2
  <2>3. assignment'[id] <=> assignment[id] /\ id \notin released
    BY <1>1
  <2> QED BY <2>1, <2>2, <2>3
<1>6. ASSUME NEW k \in EchoKeys, NEW l \in EchoKeys, mapping'[k] # NoEcho, mapping'[k] = mapping'[l]
      PROVE  k = l
  <2>1. mapping'[k] = mapping[k] /\ mapping'[l] = mapping[l]
    BY <1>1, <1>6
  <2> QED BY <1>6, <2>1 DEF EchoInv, IdsAreUnique
<1> QED BY <1>3, <1>4, <1>5, <1>6 DEF IdsAreUnique

LEMMA AssigningKeepsIdsUnique ==
    ASSUME NEW k \in EchoKeys, NEW id \in EchoIds, EchoInv, mapping[k] = NoEcho, ~assignment[id],
           mapping' = [mapping EXCEPT ![k] = id], assignment' = [assignment EXCEPT ![id] = TRUE]
    PROVE  /\ mapping' \in [EchoKeys -> EchoIds \cup {NoEcho}]
           /\ assignment' \in [EchoIds -> BOOLEAN]
           /\ IdsAreUnique'
<1>1. mapping' \in [EchoKeys -> EchoIds \cup {NoEcho}] /\ assignment' \in [EchoIds -> BOOLEAN]
  BY DEF EchoInv
<1>2. NoEcho \notin EchoIds
  BY EchoAssumption DEF EchoIds
<1>3. \A l \in EchoKeys : mapping'[l] = IF l = k THEN id ELSE mapping[l]
  BY DEF EchoInv
<1>4. \A i \in EchoIds : assignment'[i] = IF i = id THEN TRUE ELSE assignment[i]
  BY DEF EchoInv
<1>5. \A l \in EchoKeys : mapping[l] # id
  BY DEF EchoInv, IdsAreUnique
<1>6. ASSUME NEW i \in EchoIds
      PROVE  assignment'[i] <=> \E l \in EchoKeys : mapping'[l] = i
  <2>1. CASE i = id
    BY <1>3, <1>4, <2>1
  <2>2. CASE i # id
    <3>1. assignment[i] <=> \E l \in EchoKeys : mapping[l] = i
      BY DEF EchoInv, IdsAreUnique
    <3>2. \A l \in EchoKeys : mapping'[l] = i <=> mapping[l] = i
      BY <1>2, <1>3, <2>2
    <3> QED BY <1>4, <2>2, <3>1, <3>2
  <2> QED BY <2>1, <2>2
<1>7. ASSUME NEW l \in EchoKeys, NEW m \in EchoKeys, mapping'[l] # NoEcho, mapping'[l] = mapping'[m]
      PROVE  l = m
  BY <1>3, <1>5, <1>7 DEF EchoInv, IdsAreUnique
<1> QED BY <1>1, <1>6, <1>7 DEF IdsAreUnique

LEMMA FlowsBecomeIdle ==
    ASSUME NEW f \in [EchoIds -> EchoFlow \cup {NoEcho}], NEW id \in EchoIds, f[id] # NoEcho,
           NEW b \in BOOLEAN
    PROVE  [f EXCEPT ![id].idle = b] \in [EchoIds -> EchoFlow \cup {NoEcho}]
<1>1. [f[id] EXCEPT !.idle = b] \in EchoFlow
  BY DEF EchoFlow
<1> QED BY <1>1

LEMMA EchoInvHolds == EchoSpec => []EchoInv
<1>1. EchoInit => EchoInv
  BY EchoAssumption DEF EchoInit, EchoInv, EchoRequests, EchoIds, IdsAreUnique
<1>2. ASSUME EchoInv, [EchoNext]_echoVars
      PROVE  EchoInv'
  <2>1. ASSUME NEW c \in EchoConns, NEW k \in EchoKeys, GetOrAssign(c, k)
        PROVE  EchoInv'
    <3> PICK id : id = IF mapping[k] # NoEcho THEN mapping[k] ELSE FreeId
      OBVIOUS
    <3>1. /\ id # NoEcho
          /\ request' = [request EXCEPT ![c] = [step |-> "register", key |-> k, id |-> id]]
          /\ echoFunnels' = echoFunnels
      BY <2>1 DEF GetOrAssign
    <3>2. id \in EchoIds
      BY <1>2, <3>1, FreeIdIsFree DEF EchoInv
    <3>3. EchoRequests' /\ DOMAIN request' = EchoConns
      BY <1>2, <3>1, <3>2 DEF EchoInv, EchoRequests
    <3>4. CASE mapping[k] # NoEcho
      <4>1. mapping' = mapping /\ assignment' = assignment /\ nextAssignment' = nextAssignment
        BY <2>1, <3>4 DEF GetOrAssign
      <4> QED BY <1>2, <3>1, <3>3, <4>1 DEF EchoInv, IdsAreUnique
    <3>5. CASE mapping[k] = NoEcho
      <4>1. /\ mapping' = [mapping EXCEPT ![k] = id]
            /\ assignment' = [assignment EXCEPT ![id] = TRUE]
            /\ nextAssignment' = id + 1
        BY <2>1, <3>5 DEF GetOrAssign
      <4>2. id = FreeId /\ ~assignment[id]
        BY <1>2, <3>1, <3>5, FreeIdIsFree DEF EchoInv
      <4>3. nextAssignment' \in Nat
        BY <3>2, <4>1, EchoAssumption DEF EchoIds
      <4> QED BY <1>2, <3>1, <3>2, <3>3, <3>5, <4>1, <4>2, <4>3, AssigningKeepsIdsUnique DEF EchoInv
    <3> QED BY <3>4, <3>5
  <2>2. ASSUME NEW c \in EchoConns, GetOrRegister(c)
        PROVE  EchoInv'
    <3> PICK k, id, flow :
          /\ k = request[c].key /\ id = request[c].id
          /\ flow = IF echoFunnels[id] = NoEcho \/ (echoFunnels[id] # NoEcho /\ echoFunnels[id].conn # c)
                    THEN [key |-> k, conn |-> c, idle |-> FALSE] ELSE echoFunnels[id]
      OBVIOUS
    <3>1. request[c] # NoRequest
      BY <2>2 DEF GetOrRegister, NoRequest
    <3>2. k \in EchoKeys /\ id \in EchoIds
      BY <1>2, <3>1 DEF EchoInv, EchoRequests
    <3>3. /\ echoFunnels' = [echoFunnels EXCEPT ![id] = flow]
          /\ request' = [request EXCEPT ![c] = [step |-> "send", key |-> k, id |-> id, flow |-> flow]]
          /\ nextAssignment' = nextAssignment
          /\ Release({id}) \/ (mapping' = mapping /\ assignment' = assignment)
      BY <2>2 DEF GetOrRegister
    <3>4. flow \in EchoFlow \cup {NoEcho}
      BY <1>2, <3>2 DEF EchoInv, EchoFlow
    <3>5. echoFunnels' \in [EchoIds -> EchoFlow \cup {NoEcho}]
      BY <1>2, <3>3, <3>4 DEF EchoInv
    <3>6. EchoRequests' /\ DOMAIN request' = EchoConns
      BY <1>2, <3>2, <3>3 DEF EchoInv, EchoRequests
    <3>7. /\ mapping' \in [EchoKeys -> EchoIds \cup {NoEcho}] /\ assignment' \in [EchoIds -> BOOLEAN]
          /\ IdsAreUnique'
      BY <1>2, <3>2, <3>3, ReleaseKeepsIdsUnique DEF EchoInv, IdsAreUnique
    <3> QED BY <1>2, <3>3, <3>5, <3>6, <3>7 DEF EchoInv
  <2>3. ASSUME NEW c \in EchoConns, EchoSendToDst(c)
        PROVE  EchoInv'
    <3>1. request[c] # NoRequest
      BY <2>3 DEF EchoSendToDst, NoRequest
    <3>2. PICK id \in EchoIds : id = request[c].id
      BY <1>2, <3>1 DEF EchoInv, EchoRequests
    <3>3. /\ \/ echoFunnels[id] # NoEcho /\ echoFunnels' = [echoFunnels EXCEPT ![id].idle = FALSE]
             \/ echoFunnels' = echoFunnels
          /\ request' = [request EXCEPT ![c] = NoRequest]
          /\ mapping' = mapping /\ assignment' = assignment /\ nextAssignment' = nextAssignment
      BY <2>3, <3>2 DEF EchoSendToDst
    <3>4. echoFunnels' \in [EchoIds -> EchoFlow \cup {NoEcho}]
      <4>1. CASE echoFunnels[id] # NoEcho
        <5>1. [echoFunnels EXCEPT ![id].idle = FALSE] \in [EchoIds -> EchoFlow \cup {NoEcho}]
          BY <1>2, <4>1, FlowsBecomeIdle DEF EchoInv
        <5> QED BY <1>2, <3>3, <5>1 DEF EchoInv
      <4> QED BY <1>2, <3>3, <4>1 DEF EchoInv
    <3>5. EchoRequests' /\ DOMAIN request' = EchoConns
      BY <1>2, <3>3 DEF EchoInv, EchoRequests
    <3> QED BY <1>2, <3>3, <3>4, <3>5 DEF EchoInv, IdsAreUnique
  <2>4. ASSUME NEW id \in EchoIds, Reply(id) \/ EchoBecomesIdle(id)
        PROVE  EchoInv'
    <3>1. PICK b \in BOOLEAN : /\ echoFunnels' = [echoFunnels EXCEPT ![id].idle = b]
                               /\ echoFunnels[id] # NoEcho
                               /\ mapping' = mapping /\ assignment' = assignment
                               /\ nextAssignment' = nextAssignment /\ request' = request
      BY <2>4 DEF Reply, EchoBecomesIdle
    <3>2. echoFunnels' \in [EchoIds -> EchoFlow \cup {NoEcho}]
      BY <1>2, <3>1, FlowsBecomeIdle DEF EchoInv
    <3> QED BY <1>2, <3>1, <3>2 DEF EchoInv, EchoRequests, IdsAreUnique
  <2>5. ASSUME EchoCleanup
        PROVE  EchoInv'
    <3> PICK expired : expired = {id \in EchoIds : echoFunnels[id] # NoEcho /\ echoFunnels[id].idle}
      OBVIOUS
    <3>1. /\ Release(expired)
          /\ echoFunnels' = [id \in EchoIds |-> IF id \in expired THEN NoEcho ELSE echoFunnels[id]]
          /\ nextAssignment' = nextAssignment /\ request' = request
      BY <2>5 DEF EchoCleanup
    <3>2. echoFunnels' \in [EchoIds -> EchoFlow \cup {NoEcho}]
      BY <1>2, <3>1 DEF EchoInv
    <3>3. /\ mapping' \in [EchoKeys -> EchoIds \cup {NoEcho}] /\ assignment' \in [EchoIds -> BOOLEAN]
          /\ IdsAreUnique'
      BY <1>2, <3>1, ReleaseKeepsIdsUnique
    <3> QED BY <1>2, <3>1, <3>2, <3>3 DEF EchoInv, EchoRequests
  <2>6. CASE UNCHANGED echoVars
    BY <1>2, <2>6 DEF echoVars, EchoInv, EchoRequests, IdsAreUnique
  <2> QED BY <1>2, <2>1, <2>2, <2>3, <2>4, <2>5, <2>6 DEF EchoNext
<1> QED BY <1>1, <1>2, PTL DEF EchoSpec

\* icmp_darwin.go, echoIDTracker: over any number of pings, replies and cleanups, an id
\* is assigned if and only if one flow uses it, and a flow that is closed takes no id
\* away that another got meanwhile.
THEOREM EchoIdsAreUnique == EchoSpec => []IdsAreUnique
<1>1. EchoInv => IdsAreUnique
  BY DEF EchoInv
<1> QED BY <1>1, EchoInvHolds, PTL

-----------------------------------------------------------------------------
\* The forwarders of the service mode: what listens is registered or was told to stop.

ForwarderInv ==
    /\ DOMAIN services = Addrs /\ DOMAIN srv = ServiceIds
    /\ \A i \in ServiceIds : DOMAIN srv[i] = {"hash", "told", "state"}
    /\ NoForwarderLeaks

LEMMA ForwarderInvHolds == ServiceSpec => []ForwarderInv
<1>1. ServiceInit => ForwarderInv
  BY DEF ServiceInit, ForwarderInv, NoForwarderLeaks, Runs, Empty
<1>2. ASSUME ForwarderInv, [ServiceNext]_servicesVars
      PROVE  ForwarderInv'
  <2>1. ASSUME services' = services, srv' = srv, loop' = loop
        PROVE  ForwarderInv'
    BY <1>2, <2>1 DEF ForwarderInv, NoForwarderLeaks, Runs
  <2>2. ASSUME HandleConfigUpdate
        PROVE  ForwarderInv'
    <3> PICK added, stopped : added = Added(update) /\ stopped = ToldToStop(update)
      OBVIOUS
    <3>1. /\ loop = "select" /\ loop' = loop
          /\ services' = [a \in Addrs |-> IF a \in added THEN <<a, created'[a]>>
                                          ELSE IF update[a] = Absent THEN Absent ELSE services[a]]
          /\ srv' = [i \in ServiceIds |->
                       IF i[1] \in added /\ i[2] = created'[i[1]]
                         THEN [hash |-> update[i[1]], told |-> FALSE, state |-> "starting"]
                         ELSE [srv[i] EXCEPT !.told = @ \/ i \in stopped]]
      BY <2>2 DEF HandleConfigUpdate
    <3>2. \A i \in ServiceIds : DOMAIN srv'[i] = {"hash", "told", "state"}
      BY <1>2, <3>1 DEF ForwarderInv
    <3>3. ASSUME NEW i \in ServiceIds, Runs(i)', ~srv'[i].told
          PROVE  services'[i[1]] = i
      <4> PICK a, n : a \in Addrs /\ i = <<a, n>>
        BY DEF ServiceIds
      <4>1. CASE a \in added /\ n = created'[a]
        BY <3>1, <4>1
      <4>2. CASE ~(a \in added /\ n = created'[a])
        <5>1. srv'[i] = [srv[i] EXCEPT !.told = @ \/ i \in stopped]
          BY <3>1, <4>2
        <5>2. srv'[i].state = srv[i].state /\ srv'[i].told = (srv[i].told \/ i \in stopped)
          BY <1>2, <5>1 DEF ForwarderInv
        <5>3. services[a] = i /\ i \notin stopped
          BY <1>2, <3>3, <5>2 DEF ForwarderInv, NoForwarderLeaks, Runs
        <5>4. update[a] # Absent /\ a \notin added
          BY <5>3, ServiceAssumption DEF ToldToStop
        <5> QED BY <3>1, <5>3, <5>4
      <4> QED BY <4>1, <4>2
    <3> QED BY <3>1, <3>2, <3>3 DEF ForwarderInv, NoForwarderLeaks
  <2>3. ASSUME Shutdown
        PROVE  ForwarderInv'
    <3>1. /\ services' = services
          /\ srv' = [i \in ServiceIds |-> [srv[i] EXCEPT !.told = @ \/ \E a \in Addrs : services[a] = i]]
      BY <2>3 DEF Shutdown
    <3>2. ASSUME NEW i \in ServiceIds
          PROVE  /\ DOMAIN srv'[i] = {"hash", "told", "state"}
                 /\ srv'[i].state = srv[i].state
                 /\ srv'[i].told = (srv[i].told \/ \E a \in Addrs : services[a] = i)
      BY <1>2, <3>1 DEF ForwarderInv
    <3>3. ASSUME NEW i \in ServiceIds
          PROVE  ~(Runs(i)' /\ ~srv'[i].told)
      <4>1. i[1] \in Addrs
        BY DEF ServiceIds
      <4> QED BY <1>2, <3>2, <4>1 DEF ForwarderInv, NoForwarderLeaks, Runs
    <3> QED BY <1>2, <3>1, <3>2, <3>3 DEF ForwarderInv, NoForwarderLeaks
  <2>4. ASSUME NEW i \in ServiceIds, NEW st, SrvTo(i, st), st = "ended" \/ Runs(i)
        PROVE  ForwarderInv'
    <3>1. services' = services /\ loop' = loop /\ srv' = [srv EXCEPT ![i].state = st]
      BY <2>4 DEF SrvTo
    <3>2. ASSUME NEW j \in ServiceIds
          PROVE  /\ DOMAIN srv'[j] = {"hash", "told", "state"} /\ srv'[j].told = srv[j].told
                 /\ srv'[j].state = IF j = i THEN st ELSE srv[j].state
      BY <1>2, <3>1 DEF ForwarderInv
    <3>3. ASSUME NEW j \in ServiceIds, Runs(j)', ~srv'[j].told
          PROVE  services'[j[1]] = j /\ loop' = "select"
      BY <1>2, <2>4, <3>1, <3>2, <3>3 DEF ForwarderInv, NoForwarderLeaks, Runs
    <3> QED BY <1>2, <3>1, <3>2, <3>3 DEF ForwarderInv, NoForwarderLeaks
  <2>5. ASSUME NEW i \in ServiceIds, Listen(i) \/ Stop(i) \/ AcceptFails(i)
        PROVE  ForwarderInv'
    <3>1. \E st : SrvTo(i, st) /\ (st = "ended" \/ Runs(i))
      BY <2>5 DEF Listen, Stop, AcceptFails, Runs
    <3> QED BY <2>4, <3>1
  <2>6. ASSUME Truncate \/ Write \/ WatcherItemDidChange \/ UNCHANGED servicesVars
        PROVE  services' = services /\ srv' = srv /\ loop' = loop
    BY <2>6 DEF Truncate, Write, WatcherItemDidChange, servicesVars
  <2> QED BY <1>2, <2>1, <2>2, <2>3, <2>5, <2>6 DEF ServiceNext
<1> QED BY <1>1, <1>2, PTL DEF ServiceSpec

\* service.go and overwatch/app_manager.go: over every sequence of configurations, a
\* forwarder that still listens is the one its address is registered with, or has been
\* told to stop; after a shutdown there is none that was not told.
THEOREM NoForwarderIsLeft == ServiceSpec => []NoForwarderLeaks
<1>1. ForwarderInv => NoForwarderLeaks
  BY DEF ForwarderInv
<1> QED BY <1>1, ForwarderInvHolds, PTL

-----------------------------------------------------------------------------
\* The ingress: what rules are built to, matched by and told as.

\* What an ingress is made of: nothing, the only rule there is, or what a
\* configuration that is valid was built to.
SingleValues == OptionValues \cup {DefaultValue, Zero}
WellBuilt ==
    \/ rules = <<>>
    \/ \E v \in SingleValues : rules = Single(v)
    \/ raw # <<>> /\ Valid(raw) /\ rules = Built(raw, global)
RulesInv ==
    /\ raw \in Seq(RawRules) /\ global \in OptionValues \cup {Zero, Nil}
    /\ WellBuilt
    /\ rules = <<>> => found = 0 /\ told = <<>>
    /\ source = "writing" => rules = <<>>
    /\ RulesKeepTheirMeaning

RuleShaped(r) ==
    \E h, p, q, o, f :
       r = [host |-> h, path |-> p, punycode |-> q, config |-> o, force |-> f]

LEMMA OneElement ==
    ASSUME NEW e
    PROVE  Len(<<e>>) = 1 /\ DOMAIN <<e>> = 1..1 /\ <<e>> # <<>> /\ <<e>>[1] = e
  OBVIOUS

LEMMA OneRuleIsFirst ==
    ASSUME NEW v
    PROVE  /\ Len(Single(v)) = 1 /\ DOMAIN Single(v) = 1..1 /\ Single(v) # <<>>
           /\ Single(v)[1].host = "" /\ Single(v)[1].path = ""
           /\ Single(v)[1].punycode = "" /\ Single(v)[1].config = v /\ Single(v)[1].force = v
<1> PICK r : r = [host |-> "", path |-> "", punycode |-> "", config |-> v, force |-> v]
  OBVIOUS
<1>1. Single(v) = <<r>>
  BY DEF Single
<1>2. r.host = "" /\ r.path = "" /\ r.punycode = "" /\ r.config = v /\ r.force = v
  OBVIOUS
<1>3. Len(<<r>>) = 1 /\ DOMAIN <<r>> = 1..1 /\ <<r>> # <<>> /\ <<r>>[1] = r
  BY OneElement
<1> QED BY <1>1, <1>2, <1>3

\* A function on the first numbers is a sequence.
LEMMA LengthOfFunction ==
    ASSUME NEW n \in Nat, NEW f, f = [i \in 1..n |-> f[i]]
    PROVE  Len(f) = n /\ DOMAIN f = 1..n /\ f \in Seq({f[i] : i \in 1..n})
<1>1. f \in Seq({f[i] : i \in 1..n}) /\ DOMAIN f = 1..n
  OBVIOUS
<1>2. Len(f) \in Nat /\ DOMAIN f = 1..Len(f)
  BY <1>1
<1> QED BY <1>1, <1>2

LEMMA RulesAsBuilt ==
    ASSUME NEW rs, Len(rs) \in Nat, NEW g
    PROVE  /\ Len(Built(rs, g)) = Len(rs) /\ DOMAIN Built(rs, g) = 1..Len(rs)
           /\ \A i \in 1..Len(rs) :
                 /\ Built(rs, g)[i].host = rs[i].host
                 /\ Built(rs, g)[i].path = rs[i].path
                 /\ Built(rs, g)[i].punycode = IF rs[i].host = "idn" THEN Encoded ELSE ""
                 /\ Built(rs, g)[i].config = SetConfig(OriginRequest(g), rs[i].option)
                 /\ Built(rs, g)[i].force = InForce(Built(rs, g)[i].config, rs[i].option)
<1> PICK f : f = Built(rs, g)
  OBVIOUS
<1>1. f = [i \in 1..Len(rs) |-> f[i]]
  BY DEF Built
<1>2. Len(f) = Len(rs) /\ DOMAIN f = 1..Len(rs)
  BY <1>1, LengthOfFunction
<1>3. ASSUME NEW i \in 1..Len(rs)
      PROVE  /\ f[i].host = rs[i].host /\ f[i].path = rs[i].path
             /\ f[i].punycode = IF rs[i].host = "idn" THEN Encoded ELSE ""
             /\ f[i].config = SetConfig(OriginRequest(g), rs[i].option)
             /\ f[i].force = InForce(f[i].config, rs[i].option)
  <2> PICK c : c = SetConfig(OriginRequest(g), rs[i].option)
    OBVIOUS
  <2> PICK r : r = [host |-> rs[i].host, path |-> rs[i].path,
                    punycode |-> IF rs[i].host = "idn" THEN Encoded ELSE "",
                    config |-> c, force |-> InForce(c, rs[i].option)]
    OBVIOUS
  <2>1. f[i] = r
    BY DEF Built
  <2>2. /\ r.host = rs[i].host /\ r.path = rs[i].path
        /\ r.punycode = IF rs[i].host = "idn" THEN Encoded ELSE ""
        /\ r.config = c /\ r.force = InForce(c, rs[i].option)
    OBVIOUS
  <2> QED BY <2>1, <2>2
<1> QED BY <1>2, <1>3

\* Every ingress ends in a rule that every request matches.
LEMMA LastRuleCatchesAll ==
    ASSUME RulesInv, rules # <<>>, NEW q
    PROVE  /\ Len(rules) \in Nat \ {0} /\ DOMAIN rules = 1..Len(rules)
           /\ Matches(rules[Len(rules)], q)
<1>1. CASE \E v \in SingleValues : rules = Single(v)
  <2> PICK v : rules = Single(v)
    BY <1>1
  <2>1. Len(rules) = 1 /\ DOMAIN rules = 1..1
    BY OneRuleIsFirst
  <2>2. rules[1].host = "" /\ rules[1].path = ""
    BY OneRuleIsFirst
  <2>3. Matches(rules[1], q)
    BY <2>2 DEF Matches
  <2> QED BY <2>1, <2>3
<1>2. CASE raw # <<>> /\ Valid(raw) /\ rules = Built(raw, global)
  <2> PICK n : n = Len(raw)
    OBVIOUS
  <2>1. n \in Nat \ {0} /\ n \in 1..n
    BY <1>2 DEF RulesInv, WellBuilt
  <2>2. Len(rules) = n /\ DOMAIN rules = 1..n
    BY <1>2, <2>1, RulesAsBuilt
  <2>5. rules[n].host = raw[n].host /\ rules[n].path = raw[n].path
    <3>1. \A i \in 1..n : rules[i].host = raw[i].host /\ rules[i].path = raw[i].path
      BY <1>2, <2>1, RulesAsBuilt
    <3> QED BY <2>1, <3>1
  <2>3. raw[n].host = "" /\ raw[n].path = ""
    BY <1>2, <2>1 DEF Valid, ValidateHostname, CatchAll
  <2>4. Matches(rules[n], q)
    BY <2>5, <2>3 DEF Matches
  <2> QED BY <2>1, <2>2, <2>4
<1> QED BY <1>1, <1>2 DEF RulesInv, WellBuilt

\* FindMatchingRule gives the first rule that matches.
LEMMA FirstMatchIsFound ==
    ASSUME RulesInv, rules # <<>>, NEW q
    PROVE  /\ FindMatchingRule(q) \in 1..Len(rules)
           /\ Matches(rules[FindMatchingRule(q)], q)
           /\ \A i \in 1..(FindMatchingRule(q) - 1) : ~Matches(rules[i], q)
<1> DEFINE I == {i \in 1..Len(rules) : Matches(rules[i], q)}
<1>1. Len(rules) \in Nat \ {0} /\ Len(rules) \in I
  BY LastRuleCatchesAll
<1>2. FindMatchingRule(q) = LET i == IF I # {} THEN Min(I) ELSE 0
                            IN  IF i = 0 THEN Len(rules) ELSE i
  BY DEF FindMatchingRule, SelectInSeq
<1>3. I \subseteq Nat /\ I # {} /\ I \subseteq 1..Len(rules)
  BY <1>1
<1>4. \A i \in 1..Len(rules) : Matches(rules[i], q) <=> i \in I
  OBVIOUS
<1>5. \A i \in I : Matches(rules[i], q)
  OBVIOUS
<1> HIDE DEF I
<1>6. Min(I) \in I /\ \A j \in I : Min(I) <= j
  BY <1>3, LeastOfNumbers
<1>7. FindMatchingRule(q) = Min(I)
  BY <1>2, <1>3, <1>6
<1> PICK m : m = Min(I)
  OBVIOUS
<1>8. m \in 1..Len(rules) /\ m \in I /\ \A j \in I : m <= j
  BY <1>3, <1>6
<1>9. ASSUME NEW i \in 1..(m - 1)
      PROVE  ~Matches(rules[i], q)
  BY <1>1, <1>4, <1>8
<1> QED BY <1>5, <1>7, <1>8, <1>9

\* The edge that reads the rules back builds the rules that were told.
LEMMA RulesAreReadBack ==
    ASSUME RulesInv, rules # <<>>, NEW t, t = ConvertToRaw
    PROVE  /\ ReadByJSON(t, Nil) /\ Valid(t)
                 <=> \A i \in 1..Len(rules) : rules[i].config \notin BadOptions
           /\ Built(t, Nil) = [i \in 1..Len(rules) |->
                                 [rules[i] EXCEPT !.force = rules[i].config]]
<1> PICK n : n = Len(rules)
  OBVIOUS
<1>1. n \in Nat \ {0} /\ rules = [i \in 1..n |-> rules[i]]
  <2>1. n \in Nat \ {0} /\ DOMAIN rules = 1..n
    BY LastRuleCatchesAll
  <2>2. rules = [i \in DOMAIN rules |-> rules[i]]
    <3>1. \A v : Single(v) = [i \in 1..1 |-> Single(v)[i]]
      BY DEF Single
    <3>2. \A v : DOMAIN Single(v) = 1..1
      BY OneRuleIsFirst
    <3>3. CASE rules = Built(raw, global)
      BY <3>3 DEF Built
    <3> QED BY <3>1, <3>2, <3>3 DEF RulesInv, WellBuilt
  <2> QED BY <2>1, <2>2
<1>8. ASSUME NEW i \in 1..n, NEW r, r = rules[i]
      PROVE  /\ RuleShaped(r)
             /\ r.host \notin {"host:port", "a*"} /\ r.path # "malformed"
             /\ i = n <=> CatchAll(r)
             /\ r.punycode = IF r.host = "idn" THEN Encoded ELSE ""
             /\ r.config # Nil
  <2>1. CASE \E v \in SingleValues : rules = Single(v)
    <3> PICK v \in SingleValues : rules = Single(v)
      BY <2>1
    <3>1. i = 1 /\ n = 1
      <4>1. Len(Single(v)) = 1
        BY OneRuleIsFirst
      <4> QED BY <4>1
    <3>2. r = [host |-> "", path |-> "", punycode |-> "", config |-> v, force |-> v]
      BY <1>8, <3>1 DEF Single
    <3>3. r.host = "" /\ r.path = "" /\ r.punycode = "" /\ r.config = v
      BY <3>2
    <3>4. v # Nil
      BY RulesAssumption DEF SingleValues
    <3>5. CatchAll(r)
      BY <3>3 DEF CatchAll
    <3>6. RuleShaped(r)
      BY <3>2 DEF RuleShaped
    <3> QED BY <3>1, <3>3, <3>4, <3>5, <3>6
  <2>2. CASE raw # <<>> /\ Valid(raw) /\ rules = Built(raw, global)
    <3>1. Len(raw) \in Nat /\ i \in 1..Len(raw) /\ n = Len(raw)
      <4>1. Len(raw) \in Nat
        BY DEF RulesInv, WellBuilt
      <4>2. Len(Built(raw, global)) = Len(raw)
        BY <4>1, RulesAsBuilt
      <4> QED BY <2>2, <4>1, <4>2
    <3> PICK w \in RawRules : w = raw[i]
      BY <3>1 DEF RulesInv, WellBuilt
    <3>2. r = [host |-> w.host, path |-> w.path,
               punycode |-> IF w.host = "idn" THEN Encoded ELSE "",
               config |-> SetConfig(OriginRequest(global), w.option),
               force |-> InForce(SetConfig(OriginRequest(global), w.option), w.option)]
      BY <1>8, <2>2, <3>1 DEF Built
    <3>3. /\ r.host = w.host /\ r.path = w.path
          /\ r.punycode = IF w.host = "idn" THEN Encoded ELSE ""
          /\ r.config = SetConfig(OriginRequest(global), w.option)
      BY <3>2
    <3>4. r.config # Nil
      BY <3>3, RulesAssumption DEF SetConfig, OriginRequest, DefaultOption, RulesInv, WellBuilt
    <3>5. /\ w.host \notin {"host:port", "a*"} /\ w.path # "malformed"
          /\ i = Len(raw) <=> CatchAll(w)
      BY <2>2, <3>1 DEF Valid, ValidateHostname
    <3>6. RuleShaped(r)
      BY <3>2 DEF RuleShaped
    <3>7. CatchAll(r) <=> CatchAll(w)
      BY <3>3 DEF CatchAll
    <3> QED BY <3>1, <3>3, <3>4, <3>5, <3>6, <3>7
  <2> QED BY <2>1, <2>2 DEF RulesInv, WellBuilt
<1>2. Len(t) = n /\ DOMAIN t = 1..n
  <2>1. t = [i \in 1..n |-> t[i]]
    BY DEF ConvertToRaw
  <2> QED BY <1>1, <2>1, LengthOfFunction
<1>3. ASSUME NEW i \in 1..n
      PROVE  /\ t[i].host = rules[i].host /\ t[i].path = rules[i].path
             /\ t[i].service = "valid"
             /\ t[i].option = IF rules[i].config = DefaultOption THEN Nil ELSE rules[i].config
  <2> PICK r : r = [host |-> rules[i].host, path |-> rules[i].path, service |-> "valid",
                    option |-> IF rules[i].config = DefaultOption THEN Nil ELSE rules[i].config]
    OBVIOUS
  <2>1. t[i] = r
    BY DEF ConvertToRaw
  <2>2. /\ r.host = rules[i].host /\ r.path = rules[i].path /\ r.service = "valid"
        /\ r.option = IF rules[i].config = DefaultOption THEN Nil ELSE rules[i].config
    OBVIOUS
  <2> QED BY <2>1, <2>2
<1>9. DefaultOption \notin BadOptions /\ Nil \notin BadOptions
  BY RulesAssumption DEF DefaultOption
<1>10. ASSUME NEW i \in 1..n
       PROVE  t[i].option \in BadOptions <=> rules[i].config \in BadOptions
  BY <1>3, <1>9
<1>4. ReadByJSON(t, Nil) /\ Valid(t)
        <=> \A i \in 1..Len(rules) : rules[i].config \notin BadOptions
  <2>1. ASSUME NEW i \in 1..n
        PROVE  t[i].service = "valid" /\ t[i].path # "malformed" /\ ValidateHostname(t, i)
    <3> PICK r : r = rules[i]
      OBVIOUS
    <3>1. r.host \notin {"host:port", "a*"} /\ r.path # "malformed" /\ (i = n <=> CatchAll(r))
      BY <1>8
    <3>2. t[i].host = r.host /\ t[i].path = r.path /\ t[i].service = "valid"
      BY <1>3
    <3> QED BY <1>2, <3>1, <3>2 DEF ValidateHostname, CatchAll
  <2>2. Valid(t) <=> \A i \in 1..n : kind = "setting" \/ t[i].option \notin BadOptions
    BY <1>2, <2>1 DEF Valid
  <2>3. ReadByJSON(t, Nil) <=> \A i \in 1..n : kind # "setting" \/ t[i].option \notin BadOptions
    BY <1>2, <1>9 DEF ReadByJSON
  <2>4. ReadByJSON(t, Nil) /\ Valid(t) <=> \A i \in 1..n : t[i].option \notin BadOptions
    BY <2>2, <2>3
  <2> QED BY <2>4, <1>10
<1>5. ASSUME NEW i \in 1..n
      PROVE  /\ SetConfig(OriginRequest(Nil), t[i].option) = rules[i].config
             /\ InForce(rules[i].config, t[i].option) = rules[i].config
  <2>1. OriginRequest(Nil) = DefaultOption
    BY DEF OriginRequest
  <2>2. t[i].option = (IF rules[i].config = DefaultOption THEN Nil ELSE rules[i].config)
    BY <1>3
  <2>3. rules[i].config # Nil
    BY <1>8
  <2>4. kind # "setting" => DefaultOption = Zero
    BY DEF DefaultOption
  <2>5. SetConfig(OriginRequest(Nil), t[i].option) = rules[i].config
    BY <2>1, <2>2, <2>3, <2>4 DEF SetConfig
  <2> QED BY <2>2, <2>3, <2>4, <2>5 DEF InForce
<1>6. ASSUME NEW i \in 1..n
      PROVE  [host |-> t[i].host, path |-> t[i].path,
              punycode |-> IF t[i].host = "idn" THEN Encoded ELSE "",
              config |-> SetConfig(OriginRequest(Nil), t[i].option),
              force |-> InForce(SetConfig(OriginRequest(Nil), t[i].option), t[i].option)]
                = [rules[i] EXCEPT !.force = rules[i].config]
  <2> PICK r : r = rules[i]
    OBVIOUS
  <2>5. RuleShaped(r)
    BY <1>8
  <2> PICK h, p, q, o, f :
         r = [host |-> h, path |-> p, punycode |-> q, config |-> o, force |-> f]
    BY <2>5 DEF RuleShaped
  <2>1. r.host = h /\ r.path = p /\ r.punycode = q /\ r.config = o
    OBVIOUS
  <2>2. t[i].host = h /\ t[i].path = p
    BY <1>3, <2>1
  <2>3. (IF t[i].host = "idn" THEN Encoded ELSE "") = q
    BY <1>8, <2>1, <2>2
  <2>4. /\ SetConfig(OriginRequest(Nil), t[i].option) = o
        /\ InForce(o, t[i].option) = o
    BY <1>5, <2>1
  <2>6. [r EXCEPT !.force = o]
          = [host |-> h, path |-> p, punycode |-> q, config |-> o, force |-> o]
    OBVIOUS
  <2> QED BY <2>1, <2>2, <2>3, <2>4, <2>6
<1>7. Built(t, Nil) = [i \in 1..n |-> [rules[i] EXCEPT !.force = rules[i].config]]
  BY <1>2, <1>6 DEF Built
<1> QED BY <1>4, <1>7

\* A rule that is built enforces its configuration, or inherited a policy.
LEMMA BuiltPolicies ==
    ASSUME raw \in Seq(RawRules), NEW rs, rs = Built(raw, global), NEW i \in 1..Len(rs)
    PROVE  \/ rs[i].force = rs[i].config
           \/ /\ kind # "setting" /\ rs[i].force = Zero /\ raw[i].option \in {Nil, Zero}
              /\ rs[i].config = global
<1>1. Len(raw) \in Nat
  OBVIOUS
<1>2. i \in 1..Len(raw)
  BY <1>1, RulesAsBuilt
<1> PICK o, f : o = raw[i].option /\ f = rs[i].force
  OBVIOUS
<1>3. /\ rs[i].config = SetConfig(OriginRequest(global), o)
      /\ f = InForce(rs[i].config, o)
  BY <1>1, <1>2, RulesAsBuilt
<1>4. f = InForce(SetConfig(OriginRequest(global), o), o)
  BY <1>3
<1> QED BY <1>3, <1>4 DEF InForce, SetConfig, OriginRequest, DefaultOption

\* What is read from a text depends on nothing that changes.
LEMMA ReadingStands ==
    ASSUME kind' = kind, NEW rs, NEW g, raw' = raw, global' = global
    PROVE  /\ Valid(rs)' = Valid(rs) /\ Built(rs, g)' = Built(rs, g)
           /\ ReadByJSON(rs, g)' = ReadByJSON(rs, g)
           /\ Valid(raw)' = Valid(raw) /\ Built(raw, global)' = Built(raw, global)
  BY DEF Valid, ValidateHostname, CatchAll, Built, SetConfig, OriginRequest, DefaultOption,
         InForce, ReadByJSON

LEMMA MeaningStands ==
    ASSUME RulesInv, UNCHANGED <<kind, raw, global, rules>>
    PROVE  /\ WellBuilt' /\ InheritedPoliciesAreNotInForce'
           /\ told' = told => EdgeReadsTheSame'
<1>1. WellBuilt'
  BY DEF RulesInv, WellBuilt, Valid, ValidateHostname, CatchAll, Built, SetConfig, OriginRequest,
         DefaultOption, InForce
<1>2. InheritedPoliciesAreNotInForce'
  BY DEF RulesInv, RulesKeepTheirMeaning, InheritedPoliciesAreNotInForce
<1>3. ASSUME told' = told
      PROVE  EdgeReadsTheSame'
  BY <1>3 DEF RulesInv, RulesKeepTheirMeaning, EdgeReadsTheSame, Valid, ValidateHostname, CatchAll,
              Built, SetConfig, OriginRequest, DefaultOption, InForce, ReadByJSON
<1> QED BY <1>1, <1>2, <1>3

LEMMA RulesInvHolds == RulesSpec => []RulesInv
<1>1. RulesInit => RulesInv
  BY DEF RulesInit, RulesInv, WellBuilt, RulesKeepTheirMeaning, RequestsMeetTheirRule, EdgeReadsTheSame,
         InheritedPoliciesAreNotInForce
<1>2. ASSUME RulesInv, [RulesNext]_rulesVars
      PROVE  RulesInv'
  <2>1. ASSUME UNCHANGED <<kind, source, rules, asked, found, told>>, rules = <<>>,
               raw' \in Seq(RawRules), global' \in OptionValues \cup {Zero, Nil}
        PROVE  RulesInv'
    <3>1. /\ rules' = <<>> /\ told' = <<>> /\ found' = 0
          /\ found = 0 /\ told = <<>>
      BY <1>2, <2>1 DEF RulesInv
    <3>2. WellBuilt' /\ InheritedPoliciesAreNotInForce'
      BY <3>1 DEF WellBuilt, InheritedPoliciesAreNotInForce
    <3>3. RequestsMeetTheirRule' /\ EdgeReadsTheSame'
      BY <3>1 DEF RequestsMeetTheirRule, EdgeReadsTheSame
    <3> QED BY <2>1, <3>1, <3>2, <3>3 DEF RulesInv, RulesKeepTheirMeaning
  <2>2. ASSUME NEW from \in {"flags", "file", "edge"}, NEW rs, Read(from, rs),
               \/ rs = <<>>
               \/ \E v \in SingleValues : rs = Single(v)
               \/ raw # <<>> /\ Valid(raw) /\ rs = Built(raw, global)
        PROVE  RulesInv'
    <3>1. /\ rules' = rs /\ source' = from /\ raw' = raw /\ global' = global /\ kind' = kind
          /\ asked' = asked /\ found' = found /\ told' = told
          /\ found = 0 /\ told = <<>>
      BY <1>2, <2>2 DEF Read, RulesInv, WellBuilt
    <3>3. raw' \in Seq(RawRules) /\ global' \in OptionValues \cup {Zero, Nil}
      BY <1>2, <3>1 DEF RulesInv, WellBuilt
    <3>4. WellBuilt'
      BY <2>2, <3>1, ReadingStands DEF WellBuilt
    <3>5. InheritedPoliciesAreNotInForce'
      <4>1. CASE rs = <<>>
        BY <3>1, <4>1 DEF InheritedPoliciesAreNotInForce
      <4>2. CASE \E v \in SingleValues : rs = Single(v)
        <5> PICK v : rs = Single(v)
          BY <4>2
        <5>1. Len(rs) = 1 /\ rs[1].force = rs[1].config
          BY OneRuleIsFirst
        <5> QED BY <3>1, <5>1 DEF InheritedPoliciesAreNotInForce
      <4>3. CASE rs = Built(raw, global)
        <5>1. ASSUME NEW i \in 1..Len(rs)
              PROVE  \/ rs[i].force = rs[i].config
                     \/ /\ kind # "setting" /\ rs[i].force = Zero /\ raw[i].option \in {Nil, Zero}
                        /\ rs[i].config = global
          BY <1>2, <4>3, BuiltPolicies DEF RulesInv, WellBuilt
        <5> QED BY <3>1, <5>1 DEF InheritedPoliciesAreNotInForce
      <4> QED BY <2>2, <4>1, <4>2, <4>3
    <3>2. RulesKeepTheirMeaning'
      BY <3>1, <3>5 DEF RulesKeepTheirMeaning, RequestsMeetTheirRule, EdgeReadsTheSame
    <3> QED BY <3>1, <3>2, <3>3, <3>4 DEF RulesInv, WellBuilt
  <2>3. ASSUME AddRule \/ SetGlobal
        PROVE  RulesInv'
    <3>1. UNCHANGED <<kind, source, rules, asked, found, told>> /\ rules = <<>>
      BY <1>2, <2>3 DEF AddRule, SetGlobal, RulesInv, WellBuilt
    <3>2. raw' \in Seq(RawRules) /\ global' \in OptionValues \cup {Zero, Nil}
      BY <1>2, <2>3 DEF AddRule, SetGlobal, RulesInv, WellBuilt
    <3> QED BY <2>1, <3>1, <3>2
  <2>4. ASSUME FromFlags
        PROVE  RulesInv'
    BY <2>2, <2>4 DEF FromFlags, FlagValues, SingleValues
  <2>5. ASSUME FromFile
        PROVE  RulesInv'
    BY <2>2, <2>5 DEF FromFile
  <2>6. ASSUME FromEdge
        PROVE  RulesInv'
    <3> PICK rs : /\ Read("edge", rs)
                  /\ \/ rs = <<>>
                     \/ rs = Single(Zero)
                     \/ raw # <<>> /\ Valid(raw) /\ rs = Built(raw, global)
      BY <2>6 DEF FromEdge
    <3>1. Zero \in SingleValues
      BY DEF SingleValues
    <3> QED BY <2>2, <3>1
  <2>7. ASSUME Ask
        PROVE  RulesInv'
    <3>1. /\ rules # <<>> /\ found' = FindMatchingRule(asked') /\ rules' = rules /\ raw' = raw
          /\ global' = global /\ source' = source /\ told' = told /\ kind' = kind
      BY <2>7 DEF Ask
    <3>2. RequestsMeetTheirRule'
      BY <1>2, <3>1, FirstMatchIsFound DEF RequestsMeetTheirRule
    <3>3. EdgeReadsTheSame' /\ WellBuilt' /\ InheritedPoliciesAreNotInForce'
      BY <1>2, <3>1, MeaningStands
    <3> QED BY <1>2, <3>1, <3>2, <3>3 DEF RulesInv, RulesKeepTheirMeaning
  <2>8. ASSUME Tell
        PROVE  RulesInv'
    <3>1. /\ rules # <<>> /\ told' = ConvertToRaw /\ rules' = rules /\ raw' = raw /\ kind' = kind
          /\ global' = global /\ source' = source /\ asked' = asked /\ found' = found
      BY <2>8 DEF Tell
    <3>2. EdgeReadsTheSame'
      <4> PICK t : t = ConvertToRaw
        OBVIOUS
      <4>1. /\ ReadByJSON(t, Nil) /\ Valid(t)
                  <=> \A i \in 1..Len(rules) : rules[i].config \notin BadOptions
            /\ Built(t, Nil) = [i \in 1..Len(rules) |->
                                  [rules[i] EXCEPT !.force = rules[i].config]]
        BY <1>2, <3>1, RulesAreReadBack
      <4> QED BY <3>1, <4>1, ReadingStands DEF EdgeReadsTheSame
    <3>3. RequestsMeetTheirRule'
      BY <1>2, <3>1 DEF RulesInv, RulesKeepTheirMeaning, RequestsMeetTheirRule
    <3>4. WellBuilt' /\ InheritedPoliciesAreNotInForce'
      BY <1>2, <3>1, MeaningStands
    <3> QED BY <1>2, <3>1, <3>2, <3>3, <3>4 DEF RulesInv, RulesKeepTheirMeaning
  <2>9. CASE UNCHANGED rulesVars
    <3>1. UNCHANGED <<kind, raw, global, source, rules, asked, found, told>>
      BY <2>9 DEF rulesVars
    <3>2. RequestsMeetTheirRule'
      BY <1>2, <3>1 DEF RulesInv, RulesKeepTheirMeaning, RequestsMeetTheirRule
    <3>3. EdgeReadsTheSame' /\ WellBuilt' /\ InheritedPoliciesAreNotInForce'
      BY <1>2, <3>1, MeaningStands
    <3> QED BY <1>2, <3>1, <3>2, <3>3 DEF RulesInv, RulesKeepTheirMeaning
  <2> QED BY <1>2, <2>3, <2>4, <2>5, <2>6, <2>7, <2>8, <2>9 DEF RulesNext
<1> QED BY <1>1, <1>2, PTL DEF RulesSpec

\* ingress.go and config.go: for every list of rules of a file, of flags or of the edge, a
\* request gets the first rule that it matches, and who reads what the edge is told reads
\* every rule with the configuration it has here, unless a value is not readable; what is
\* in force here is that configuration, but for policies that were inherited
\* (ParseIngress, FindMatchingRule, ConvertToRawOriginConfig).
THEOREM IngressKeepsItsMeaning == RulesSpec => []RulesKeepTheirMeaning
<1>1. RulesInv => RulesKeepTheirMeaning
  BY DEF RulesInv, WellBuilt
<1> QED BY <1>1, RulesInvHolds, PTL

-----------------------------------------------------------------------------
\* The settings of a tunnel: what is known of an input that was not refused, and so of
\* the connections that are made by it.

\* What the preparation judges, and no connection changes.
Judged ==
    /\ input.bind \in {NotGiven, "4", "6", "word", "taken"}
    /\ DOMAIN input.interfaces \subseteq Nat \ {0}
    /\ settingsPhase \in {"start", "flags", "running", "refused"}
    /\ settingsPhase \in {"flags", "running"} => flag = [s \in Setting |-> Effective(s)]
    /\ settingsPhase = "running" =>
          /\ ~BindRefused /\ config.version = AdjustIPVersion(flag.version)
          /\ config.bind = input.bind /\ config.static = input.static /\ config.icmp \in Routers

\* A snapshot has what the user asked for, whatever the record said.
GoodSnapshot(s) ==
    /\ s.version \in {"v2", "v3"} /\ s.features = DefaultFeatures \cup CliFeatures \cup {s.version}
    /\ "v3" \in CliFeatures => s.version = "v3"
    /\ "v2" \in CliFeatures /\ "v3" \notin CliFeatures => s.version = "v2"

ConnGood(c) ==
    /\ conn[c].at \in {"idle", "dialing", "dialed", "registered"}
    /\ conn[c].at # "idle" =>
          /\ settingsPhase = "running" /\ conn[c].family \in EdgeFamilies
          /\ conn[c].strict = flag.pq /\ GoodSnapshot(conn[c].snapshot)
    /\ conn[c].at \in {"dialed", "registered"} /\ conn[c].protocol = "quic" =>
          conn[c].handler = conn[c].snapshot.version
    /\ conn[c].at = "registered" => conn[c].announced = conn[c].snapshot.features

ConnFields == {"at", "protocol", "family", "strict", "snapshot", "handler", "announced"}

SettingsInv ==
    /\ Judged /\ DOMAIN conn = HAConns
    /\ \A c \in HAConns : ConnGood(c) /\ DOMAIN conn[c] = ConnFields

\* The inputs as functions of what they vary.
FeatureInput(f, q) == [PlainInput EXCEPT !.cli = [Unset EXCEPT !.features = f, !.pq = q]]
FileInput(c, s) == [PlainInput EXCEPT !.file = "good", !.cli = c, !.settings = s]
NoFileInput(f) == [PlainInput EXCEPT !.file = f]
AddressInput(v, b, s) ==
    [PlainInput EXCEPT !.cli = [Unset EXCEPT !.version = v], !.bind = b, !.static = s]
RegionInput(r, e) == [PlainInput EXCEPT !.region = r, !.endpoint = e]
WrongInput(w) == [PlainInput EXCEPT !.wrong = w]
IcmpInput(f, s, l, i) ==
    [PlainInput EXCEPT !.icmp4 = f, !.icmp6 = s, !.local = l, !.interfaces = i]

LEMMA InputsAsFunctions ==
    /\ \A x \in FeatureInputs : \E f, q : x = FeatureInput(f, q)
    /\ \A x \in FileInputs : (\E c, s : x = FileInput(c, s)) \/ (\E f : x = NoFileInput(f))
    /\ \A x \in AddressInputs :
          \/ \E v, s : \E b \in {NotGiven, "4", "6", "word", "taken"} : x = AddressInput(v, b, s)
          \/ \E r, e : x = RegionInput(r, e)
          \/ \E w : x = WrongInput(w)
    /\ \A x \in IcmpInputs :
          \E f, s, l :
             \E i \in {<<>>} \cup {<<a>> : a \in Interface} \cup {<<a, b>> : a, b \in Interface} :
                x = IcmpInput(f, s, l, i)
<1> DEFINE Lists == SUBSET {"v2", "v3", "v3_1"}
           Flags == {NotGiven, TRUE}
           Lines == {Unset, [Unset EXCEPT !.version = "6", !.features = {"v2"}]}
           Files == [version : {NotGiven, Value("string", "4"), Value("int", 4)},
                     pq : {NotGiven, Value("bool", TRUE), Value("string", "true")},
                     features : {NotGiven, Value("list", {"v3"}), Value("string", "v3")}]
           Sources == {NotGiven, "4", "6", "word"}
           Interfaces == {<<>>} \cup {<<a>> : a \in Interface} \cup {<<a, b>> : a, b \in Interface}
<1>1. FeatureInputs = {FeatureInput(f, q) : f \in Lists, q \in Flags}
  BY DEF FeatureInputs, FeatureInput
<1>2. FileInputs = {FileInput(c, s) : c \in Lines, s \in Files}
                   \cup {NoFileInput(f) : f \in {"missing", "empty", "bad"}}
  BY DEF FileInputs, FileInput, NoFileInput
<1>3. AddressInputs =
        {AddressInput(v, b, s) :
           v \in {"4", "6", "auto", "5"}, b \in {NotGiven, "4", "6", "word", "taken"}, s \in BOOLEAN}
        \cup {RegionInput(r, e) : r, e \in BOOLEAN}
        \cup {WrongInput(w) : w \in {"tags", "ingress", "protocol", "grace", "resolvers"}}
  BY DEF AddressInputs, AddressInput, RegionInput, WrongInput
<1>4. IcmpInputs =
        {IcmpInput(f, s, l, i) : f \in Sources, s \in Sources, l \in BOOLEAN, i \in Interfaces}
  BY DEF IcmpInputs, IcmpInput
<1>5. \A x \in FeatureInputs : \E f, q : x = FeatureInput(f, q)
  <2> HIDE DEF Lists, Flags
  <2> QED BY <1>1
<1>6. \A x \in FileInputs : (\E c, s : x = FileInput(c, s)) \/ (\E f : x = NoFileInput(f))
  <2> HIDE DEF Lines, Files
  <2> QED BY <1>2
<1>7. \A x \in AddressInputs :
          \/ \E v, s : \E b \in {NotGiven, "4", "6", "word", "taken"} : x = AddressInput(v, b, s)
          \/ \E r, e : x = RegionInput(r, e)
          \/ \E w : x = WrongInput(w)
  BY <1>3
<1>8. \A x \in IcmpInputs : \E f, s, l : \E i \in Interfaces : x = IcmpInput(f, s, l, i)
  <2> HIDE DEF Sources, Interfaces
  <2> QED BY <1>4
<1> QED BY <1>5, <1>6, <1>7, <1>8

LEMMA InputsAreJudged ==
    ASSUME input \in FeatureInputs \cup FileInputs \cup AddressInputs \cup IcmpInputs
    PROVE  /\ input.bind \in {NotGiven, "4", "6", "word", "taken"}
           /\ DOMAIN input.interfaces \subseteq Nat \ {0}
<1>1. /\ DOMAIN PlainInput =
            {"cli", "file", "settings", "bind", "region", "endpoint", "static", "wrong",
             "icmp4", "icmp6", "local", "interfaces"}
      /\ PlainInput.bind = NotGiven /\ PlainInput.interfaces = <<>>
  BY DEF PlainInput
<1>2. ASSUME NEW x, \/ \E f, q : x = FeatureInput(f, q)
                    \/ \E c, s : x = FileInput(c, s)
                    \/ \E f : x = NoFileInput(f)
                    \/ \E v, s : \E b \in {NotGiven, "4", "6", "word", "taken"} : x = AddressInput(v, b, s)
                    \/ \E r, e : x = RegionInput(r, e)
                    \/ \E w : x = WrongInput(w)
      PROVE  /\ x.bind \in {NotGiven, "4", "6", "word", "taken"}
             /\ DOMAIN x.interfaces \subseteq Nat \ {0}
  <2>1. x.bind \in {NotGiven, "4", "6", "word", "taken"}
    BY <1>1, <1>2
       DEF FeatureInput, FileInput, NoFileInput, AddressInput, RegionInput, WrongInput
  <2>2. x.interfaces = <<>>
    BY <1>1, <1>2
       DEF FeatureInput, FileInput, NoFileInput, AddressInput, RegionInput, WrongInput
  <2> QED BY <2>1, <2>2
<1>3. ASSUME NEW f, NEW s, NEW l,
             NEW i \in {<<>>} \cup {<<a>> : a \in Interface} \cup {<<a, b>> : a, b \in Interface}
      PROVE  /\ IcmpInput(f, s, l, i).bind \in {NotGiven, "4", "6", "word", "taken"}
             /\ DOMAIN IcmpInput(f, s, l, i).interfaces \subseteq Nat \ {0}
  <2>1. DOMAIN i \subseteq Nat \ {0}
    OBVIOUS
  <2>2. IcmpInput(f, s, l, i).bind = NotGiven /\ IcmpInput(f, s, l, i).interfaces = i
    BY <1>1 DEF IcmpInput
  <2> QED BY <2>1, <2>2
<1> QED BY <1>2, <1>3, InputsAsFunctions

LEMMA SnapshotIsGood == GoodSnapshot(Snapshot) /\ Snapshot.strict = flag.pq
  BY DEF GoodSnapshot, Snapshot, DatagramVersion

\* What an operator asked for holds of every connection that is as it should be.
LEMMA JudgedConnectionsHold ==
    ASSUME SettingsInv
    PROVE  ConfigurationHolds
<1>1. SpeaksWhatItAnnounced
  <2> SUFFICES ASSUME NEW c \in HAConns, conn[c].at = "registered", conn[c].protocol = "quic"
               PROVE  /\ (conn[c].handler = "v3") = ("v3" \in conn[c].announced)
                      /\ \A v \in {"v2", "v3"} \cap flag.features :
                            "v3" \in flag.features \/ conn[c].handler = v
    BY DEF SpeaksWhatItAnnounced
  <2>1. /\ GoodSnapshot(conn[c].snapshot) /\ conn[c].handler = conn[c].snapshot.version
        /\ conn[c].announced = conn[c].snapshot.features
    BY DEF SettingsInv, ConnGood
  <2>2. \A v \in {"v2", "v3"} : v \in CliFeatures <=> v \in flag.features
    BY DEF CliFeatures, Deprecated
  <2> QED BY <2>1, <2>2 DEF GoodSnapshot, DefaultFeatures
<1>2. StrictStaysStrict
  <2> SUFFICES ASSUME NEW c \in HAConns, conn[c].at # "idle"
               PROVE  /\ Effective("pq") => conn[c].strict
                      /\ (conn[c].at = "registered" /\ conn[c].strict) =>
                            "postquantum" \in conn[c].announced
    BY DEF StrictStaysStrict
  <2>1. settingsPhase = "running" /\ conn[c].strict = flag.pq /\ GoodSnapshot(conn[c].snapshot)
    BY DEF SettingsInv, ConnGood
  <2>2. flag.pq = Effective("pq")
    BY <2>1 DEF SettingsInv, Judged, Setting, FlagDefaults
  <2>3. flag.pq => "postquantum" \in CliFeatures
    BY DEF CliFeatures, Deprecated
  <2>4. conn[c].at = "registered" => conn[c].announced = conn[c].snapshot.features
    BY DEF SettingsInv, ConnGood
  <2> QED BY <2>1, <2>2, <2>3, <2>4 DEF GoodSnapshot
<1>3. DialsItsFamily
  <2> SUFFICES ASSUME NEW c \in HAConns, conn[c].at # "idle", config.bind # NotGiven, ~config.static
               PROVE  conn[c].family = config.bind
    BY DEF DialsItsFamily
  <2>1. settingsPhase = "running" /\ conn[c].family \in EdgeFamilies
    BY DEF SettingsInv, ConnGood
  <2>2. /\ config.bind = input.bind /\ input.bind \in {"4", "6"}
        /\ config.version = AdjustIPVersion(flag.version)
    BY <2>1 DEF SettingsInv, Judged, BindRefused
  <2>3. config.version = config.bind
    BY <2>2 DEF AdjustIPVersion
  <2> QED BY <2>1, <2>2, <2>3 DEF EdgeFamilies
<1>4. SourceIsNear
  <2> SUFFICES ASSUME settingsPhase = "running", config.icmp # NotGiven, input.icmp6 = NotGiven,
                      NEW s, s = config.icmp.source6
               PROVE  /\ (s = 0) = (WithIPv6 = {})
                      /\ (\E i \in WithIPv6 : HoldsSource(i)) => s # 0 /\ HoldsSource(s)
    BY DEF SourceIsNear
  <2>1. s = Source6
    BY DEF SettingsInv, Judged, Routers
  <2>2. WithIPv6 \subseteq Nat \ {0}
    BY DEF SettingsInv, Judged, WithIPv6
  <2> PICK near : near = {i \in WithIPv6 : HoldsSource(i)}
    OBVIOUS
  <2>3. \A S \in SUBSET WithIPv6 : S # {} => FirstOf(S) \in S
    <3> SUFFICES ASSUME NEW S \in SUBSET WithIPv6, S # {} PROVE FirstOf(S) \in S
      OBVIOUS
    <3>1. S \subseteq Nat
      BY <2>2
    <3>2. Min(S) \in S /\ \A j \in S : Min(S) <= j
      BY <3>1, LeastOfNumbers
    <3> QED BY <3>2 DEF FirstOf
  <2>4. s = IF near # {} THEN FirstOf(near) ELSE IF WithIPv6 # {} THEN FirstOf(WithIPv6) ELSE 0
    BY <2>1 DEF Source6
  <2>5. near \in SUBSET WithIPv6 /\ \A i \in near : HoldsSource(i)
    OBVIOUS
  <2> QED BY <2>2, <2>3, <2>4, <2>5
<1> QED BY <1>1, <1>2, <1>3, <1>4 DEF ConfigurationHolds

LEMMA SettingsInvHolds == SettingsSpec => []SettingsInv
<1>1. ASSUME SettingsInit
      PROVE  SettingsInv
  <2>1. \A c \in HAConns : conn[c] = Idle
    BY <1>1 DEF SettingsInit
  <2>2. DOMAIN Idle = ConnFields /\ Idle.at = "idle"
    BY DEF Idle, ConnFields
  <2>3. \A c \in HAConns : ConnGood(c) /\ DOMAIN conn[c] = ConnFields
    BY <2>1, <2>2 DEF ConnGood
  <2>4. Judged
    BY <1>1, InputsAreJudged DEF SettingsInit, Judged
  <2> QED BY <1>1, <2>3, <2>4 DEF SettingsInit, SettingsInv
<1>2. ASSUME SettingsInv, [SettingsNext]_settingsVars
      PROVE  SettingsInv'
  \* A step before the tunnel runs finds and leaves every connection idle.
  <2>1. ASSUME settingsPhase # "running", conn' = conn, Judged'
        PROVE  SettingsInv'
    BY <1>2, <2>1 DEF SettingsInv, ConnGood
  \* A step of a tunnel that runs leaves what was judged.
  <2>2. ASSUME UNCHANGED <<input, settingsPhase, flag, config>>
        PROVE  /\ Judged' /\ EdgeFamilies' = EdgeFamilies
               /\ \A s : GoodSnapshot(s)' = GoodSnapshot(s)
    <3>1. /\ input' = input /\ settingsPhase' = settingsPhase /\ flag' = flag /\ config' = config
      BY <2>2
    <3>2. CliFeatures' = CliFeatures /\ EdgeFamilies' = EdgeFamilies
      BY <3>1 DEF CliFeatures, EdgeFamilies
    <3>3. \A s : Effective(s)' = Effective(s)
      BY <3>1 DEF Effective
    <3>4. Routers' = Routers /\ BindRefused' = BindRefused
      BY <3>1 DEF Routers, BindRefused, IcmpRefused, Source4, Source6, WithIPv6, HoldsSource
    <3>5. AdjustIPVersion(flag.version)' = AdjustIPVersion(flag.version)
      BY <3>1 DEF AdjustIPVersion
    <3>6. Judged'
      BY <1>2, <3>1, <3>3, <3>4, <3>5 DEF SettingsInv, Judged
    <3>7. \A s : GoodSnapshot(s)' = GoodSnapshot(s)
      BY <3>2 DEF GoodSnapshot
    <3> QED BY <3>2, <3>6, <3>7
  <2>3. ASSUME UNCHANGED <<input, settingsPhase, flag, config, conn>>
        PROVE  SettingsInv'
    <3>1. conn' = conn /\ flag' = flag /\ settingsPhase' = settingsPhase
      BY <2>3
    <3> QED BY <1>2, <2>2, <2>3, <3>1 DEF SettingsInv, ConnGood
  <2>4. ASSUME UNCHANGED <<input, settingsPhase, flag, config>>, NEW c \in HAConns, NEW new,
               conn' = [conn EXCEPT ![c] = new], DOMAIN new = ConnFields,
               ConnGood(c)'
        PROVE  SettingsInv'
    <3>1. \A d \in HAConns : d # c => conn'[d] = conn[d]
      BY <2>4
    <3>2. \A d \in HAConns : d # c => ConnGood(d)' /\ DOMAIN conn'[d] = ConnFields
      BY <1>2, <2>2, <2>4, <3>1 DEF SettingsInv, ConnGood
    <3>3. conn'[c] = new /\ DOMAIN conn' = HAConns
      BY <1>2, <2>4 DEF SettingsInv
    <3> QED BY <2>2, <2>4, <3>2, <3>3 DEF SettingsInv
  <2>5. ASSUME ReadConfigFile
        PROVE  SettingsInv'
    <3>1. /\ settingsPhase = "start" /\ conn' = conn /\ input' = input
          /\ \/ settingsPhase' = "refused"
             \/ settingsPhase' = "flags" /\ flag' = [s \in Setting |-> Effective(s)]
      BY <2>5 DEF ReadConfigFile, RefuseStart
    <3>2. \A s : Effective(s)' = Effective(s)
      BY <3>1 DEF Effective
    <3>3. Judged'
      BY <1>2, <3>1, <3>2 DEF SettingsInv, Judged
    <3> QED BY <2>1, <3>1, <3>3
  <2>6. ASSUME Prepare
        PROVE  SettingsInv'
    <3>1. /\ settingsPhase = "flags" /\ conn' = conn /\ input' = input /\ flag' = flag
          /\ \/ settingsPhase' = "refused"
             \/ /\ settingsPhase' = "running" /\ ~BindRefused
                /\ \E r \in Routers :
                      config' = [version |-> AdjustIPVersion(flag.version), bind |-> input.bind,
                                 static |-> input.static, icmp |-> r]
      BY <2>6 DEF Prepare, RefuseStart, PrepareRefused
    <3>2. \A s : Effective(s)' = Effective(s)
      BY <3>1 DEF Effective
    <3>3. Routers' = Routers /\ BindRefused' = BindRefused
      BY <3>1 DEF Routers, BindRefused, IcmpRefused, Source4, Source6, WithIPv6, HoldsSource
    <3>4. AdjustIPVersion(flag.version)' = AdjustIPVersion(flag.version)
      BY <3>1 DEF AdjustIPVersion
    <3>5. settingsPhase' = "running" =>
             /\ ~BindRefused /\ config'.version = AdjustIPVersion(flag.version)
             /\ config'.bind = input.bind /\ config'.static = input.static /\ config'.icmp \in Routers
      BY <3>1
    <3>6. Judged'
      BY <1>2, <3>1, <3>2, <3>3, <3>4, <3>5 DEF SettingsInv, Judged
    <3> QED BY <2>1, <3>1, <3>6
  <2>7. ASSUME Refresh
        PROVE  SettingsInv'
    BY <2>3, <2>7 DEF Refresh
  <2>8. ASSUME NEW c \in HAConns, NEW p \in {"quic", "http2"}, BeginDial(c, p)
        PROVE  SettingsInv'
    <3> PICK f, new :
          /\ f \in EdgeFamilies
          /\ new = [Idle EXCEPT !.at = "dialing", !.protocol = p, !.family = f,
                                !.strict = Snapshot.strict, !.snapshot = Snapshot]
          /\ conn' = [conn EXCEPT ![c] = new]
      BY <2>8 DEF BeginDial
    <3>1. /\ DOMAIN new = ConnFields /\ new.at = "dialing" /\ new.family = f
          /\ new.strict = Snapshot.strict /\ new.snapshot = Snapshot
      BY DEF Idle, ConnFields
    <3>2. UNCHANGED <<input, settingsPhase, flag, config>> /\ settingsPhase = "running"
      BY <2>8 DEF BeginDial
    <3>3. conn'[c] = new
      BY <1>2 DEF SettingsInv
    <3>4. GoodSnapshot(new.snapshot)' /\ new.strict = flag'.pq /\ new.family \in EdgeFamilies'
      BY <2>2, <3>1, <3>2, SnapshotIsGood
    <3>5. ConnGood(c)'
      BY <3>1, <3>2, <3>3, <3>4 DEF ConnGood
    <3> QED BY <2>4, <3>1, <3>2, <3>5
  <2>9. ASSUME NEW c \in HAConns, Dialed(c)
        PROVE  SettingsInv'
    <3> PICK old : old = conn[c]
      OBVIOUS
    <3> PICK snapshot, chosen :
          /\ snapshot = IF old.protocol = "http2" THEN Snapshot ELSE old.snapshot
          /\ chosen = IF old.protocol = "quic" THEN HandlerOf(c) ELSE NotGiven
      OBVIOUS
    <3> PICK new : new = [old EXCEPT !.at = "dialed", !.snapshot = snapshot, !.handler = chosen]
      OBVIOUS
    <3>1. DOMAIN old = ConnFields /\ old.at = "dialing"
      BY <1>2, <2>9 DEF SettingsInv, Dialed
    <3>2. conn' = [conn EXCEPT ![c] = new]
      BY <1>2, <2>9 DEF Dialed, SettingsInv
    <3>3. /\ DOMAIN new = ConnFields /\ new.at = "dialed" /\ new.snapshot = snapshot
          /\ new.handler = chosen /\ new.family = old.family /\ new.strict = old.strict
          /\ new.protocol = old.protocol
      BY <3>1 DEF ConnFields
    <3>4. UNCHANGED <<input, settingsPhase, flag, config>>
      BY <2>9 DEF Dialed
    <3>5. conn'[c] = new
      BY <1>2, <3>2 DEF SettingsInv
    <3>6. /\ settingsPhase = "running" /\ old.family \in EdgeFamilies
          /\ old.strict = flag.pq /\ GoodSnapshot(old.snapshot)
      BY <1>2, <3>1 DEF SettingsInv, ConnGood
    <3>7. GoodSnapshot(snapshot)
      BY <3>6, SnapshotIsGood
    <3>8. new.protocol = "quic" => new.handler = new.snapshot.version
      BY <3>3 DEF HandlerOf
    <3>9. ConnGood(c)'
      BY <2>2, <3>3, <3>4, <3>5, <3>6, <3>7, <3>8 DEF ConnGood
    <3> QED BY <2>4, <3>2, <3>3, <3>4, <3>9
  <2>10. ASSUME NEW c \in HAConns, Register(c)
         PROVE  SettingsInv'
    <3> PICK old : old = conn[c]
      OBVIOUS
    <3> PICK new : new = [old EXCEPT !.at = "registered", !.announced = old.snapshot.features]
      OBVIOUS
    <3>1. DOMAIN old = ConnFields /\ old.at = "dialed"
      BY <1>2, <2>10 DEF SettingsInv, Register
    <3>2. conn' = [conn EXCEPT ![c] = new]
      BY <1>2, <2>10 DEF Register, SettingsInv
    <3>3. /\ DOMAIN new = ConnFields /\ new.at = "registered" /\ new.snapshot = old.snapshot
          /\ new.handler = old.handler /\ new.family = old.family /\ new.strict = old.strict
          /\ new.protocol = old.protocol /\ new.announced = old.snapshot.features
      BY <3>1 DEF ConnFields
    <3>4. UNCHANGED <<input, settingsPhase, flag, config>>
      BY <2>10 DEF Register
    <3>5. conn'[c] = new
      BY <1>2, <3>2 DEF SettingsInv
    <3>6. /\ settingsPhase = "running" /\ old.family \in EdgeFamilies
          /\ old.strict = flag.pq /\ GoodSnapshot(old.snapshot)
          /\ old.protocol = "quic" => old.handler = old.snapshot.version
      BY <1>2, <3>1 DEF SettingsInv, ConnGood
    <3>7. ConnGood(c)'
      BY <2>2, <3>3, <3>4, <3>5, <3>6 DEF ConnGood
    <3> QED BY <2>4, <3>2, <3>3, <3>4, <3>7
  <2>11. ASSUME NEW c \in HAConns, Ends(c)
         PROVE  SettingsInv'
    <3>1. conn' = [conn EXCEPT ![c] = Idle] /\ UNCHANGED <<input, settingsPhase, flag, config>>
      BY <2>11 DEF Ends
    <3>2. DOMAIN Idle = ConnFields /\ Idle.at = "idle"
      BY DEF Idle, ConnFields
    <3>3. conn'[c] = Idle
      BY <1>2, <3>1 DEF SettingsInv
    <3>4. ConnGood(c)'
      BY <3>2, <3>3 DEF ConnGood
    <3> QED BY <2>4, <3>1, <3>2, <3>4
  <2>12. CASE UNCHANGED settingsVars
    BY <2>3, <2>12 DEF settingsVars
  <2> QED BY <1>2, <2>5, <2>6, <2>7, <2>8, <2>9, <2>10, <2>11, <2>12 DEF SettingsNext
<1> QED BY <1>1, <1>2, PTL DEF SettingsSpec

\* configuration.go, prepareTunnelConfig and features/selector.go: whatever was set by the
\* command line, the environment and the file, and however often the record of features is
\* read anew, no connection is made in another way than its operator asked for.
THEOREM ConnectionsDoAsConfigured == SettingsSpec => []ConfigurationHolds
<1>1. SettingsInv => ConfigurationHolds
  BY JudgedConnectionsHold
<1> QED BY <1>1, SettingsInvHolds, PTL

-----------------------------------------------------------------------------
\* SOCKS: of what the client has sent, where each part is, and what it was answered.

Messages == {Script[i] : i \in 1..Len(Script)}

\* How many messages the handshake has taken.
Taken == IF phase = "version" THEN 0
         ELSE IF phase = "auth" THEN 1 ELSE IF phase = "request" THEN 2 ELSE 3

\* A sequence is what the client says from a place on.
Follows(s, from) == \A i \in 1..Len(s) : s[i] = Script[from + i]

\* Of n messages the handshake took k; the target got u, b is buffered and i has come.
InPlace(n, k, u, b, i) ==
    /\ b \in Seq(Messages) /\ i \in Seq(Messages)
    /\ k + Len(u) + Len(b) + Len(i) = n
    /\ Follows(b, k + Len(u)) /\ Follows(i, k + Len(u) + Len(b))

NothingIsLost ==
    /\ sent \in 0..Len(Script) /\ up \in Seq(Messages)
    /\ Follows(up, 3) /\ Len(up) <= Len(Data)
    /\ phase # "ended" => InPlace(sent, Taken, up, buffered, inbox)

ReplyCodes == {"noAuth", "noAcceptable", "commandNotSupported", "ruleFailure", "hostUnreachable",
         "connectionRefused", "networkUnreachable", "success"}

\* Where the server is tells what the client was answered and whether there is a target.
Answered ==
    /\ phase \in {"version", "auth", "request", "connect", "dial", "reply", "proxy", "ended"}
    /\ replies \in Seq(ReplyCodes) /\ Len(replies) <= 2
    /\ phase \in {"version", "auth"} => Len(replies) = 0
    /\ phase \in {"request", "connect", "dial", "reply"} => Len(replies) = 1
    /\ phase = "proxy" => Len(replies) = 2
    /\ Len(replies) = 2 => (replies[2] = "success") = (dialled # Nothing)
    /\ phase \in {"version", "auth", "request", "connect", "dial"} => dialled = Nothing
    /\ phase \in {"reply", "proxy"} => dialled # Nothing
    /\ copies # {} => phase = "proxy"
    /\ up # <<>> \/ down # <<>> => Len(replies) = 2

\* What is about to be dialled was judged.
Judgement ==
    /\ hello \in Hellos /\ dns \in IPs \cup {Nothing} /\ (mode = "conn") = (policy = Nothing)
    /\ phase \in {"connect", "dial"} =>
          dest \in [ip : IPs \cup {Nothing}, port : TargetPorts]
    /\ phase = "dial" /\ policy # Nothing => dest.ip # Nothing /\ Allowed(dest.ip, dest.port)
    /\ DialsWhatWasAllowed

SocksInv == NothingIsLost /\ Answered /\ Judgement

LEMMA SmallSequence ==
    ASSUME NEW S, NEW a \in S, NEW b \in S, NEW c \in S
    PROVE  <<a, b, c>> \in Seq(S) /\ Len(<<a, b, c>>) = 3
  OBVIOUS

LEMMA Concatenated ==
    ASSUME NEW S, NEW s \in Seq(S), NEW t \in Seq(S)
    PROVE  /\ s \o t \in Seq(S) /\ Len(s \o t) = Len(s) + Len(t)
           /\ \A j \in 1..Len(t) : (s \o t)[Len(s) + j] = t[j]
  OBVIOUS

LEMMA ScriptThenData ==
    /\ Len(Data) \in Nat /\ Len(Script) = 3 + Len(Data)
    /\ \A i \in 1..Len(Data) : Script[3 + i] = Data[i]
<1>1. Len(Data) \in Nat
  BY SocksAssumption
<1> PICK S : Data \in Seq(S) /\ {"version", "methods", "request"} \subseteq S
  <2> DEFINE D == {Data[i] : i \in DOMAIN Data}
             S == D \cup {"version", "methods", "request"}
  <2>1. Data \in Seq(D) /\ D \subseteq S
    BY SocksAssumption
  <2> HIDE DEF D
  <2>2. Data \in Seq(S)
    BY <2>1
  <2> QED BY <2>2
<1> PICK start : start = <<"version", "methods", "request">>
  OBVIOUS
<1>2. start \in Seq(S) /\ Len(start) = 3
  BY SmallSequence
<1>3. Script = start \o Data
  BY DEF Script
<1>4. /\ Script \in Seq(S) /\ Len(Script) = 3 + Len(Data)
      /\ \A i \in 1..Len(Data) : Script[3 + i] = Data[i]
  BY <1>1, <1>2, <1>3, Concatenated
<1> QED BY <1>1, <1>4

LEMMA RestFollows ==
    ASSUME NEW s \in Seq(Messages), s # <<>>, NEW from \in Nat, Follows(s, from)
    PROVE  /\ Tail(s) \in Seq(Messages) /\ Len(Tail(s)) = Len(s) - 1
           /\ Head(s) = Script[from + 1] /\ Head(s) \in Messages /\ Len(s) \in Nat \ {0}
           /\ Follows(Tail(s), from + 1)
<1>1. /\ Tail(s) \in Seq(Messages) /\ Len(Tail(s)) = Len(s) - 1 /\ Len(s) \in Nat \ {0}
      /\ Head(s) = s[1] /\ Head(s) \in Messages /\ \A i \in 1..Len(Tail(s)) : Tail(s)[i] = s[i + 1]
  OBVIOUS
<1>2. \A i \in 1..(Len(s) - 1) : i + 1 \in 1..Len(s) /\ from + (i + 1) = (from + 1) + i
  BY <1>1
<1> QED BY <1>1, <1>2 DEF Follows

LEMMA OneMoreFollows ==
    ASSUME NEW s \in Seq(Messages), NEW from \in Nat, Follows(s, from),
           from + Len(s) < Len(Script), NEW m, m = Script[from + Len(s) + 1]
    PROVE  /\ Append(s, m) \in Seq(Messages) /\ Len(Append(s, m)) = Len(s) + 1
           /\ Follows(Append(s, m), from)
<1>1. Len(s) \in Nat
  OBVIOUS
<1>2. m \in Messages
  BY <1>1, ScriptThenData DEF Messages
<1>3. /\ Append(s, m) \in Seq(Messages) /\ Len(Append(s, m)) = Len(s) + 1
      /\ \A i \in 1..(Len(s) + 1) : Append(s, m)[i] = IF i = Len(s) + 1 THEN m ELSE s[i]
  BY <1>2
<1>4. \A i \in 1..(Len(s) + 1) : i # Len(s) + 1 => i \in 1..Len(s)
  BY <1>1
<1>5. from + (Len(s) + 1) = from + Len(s) + 1
  BY <1>1
<1> QED BY <1>3, <1>4, <1>5 DEF Follows

LEMMA PartsFollow ==
    ASSUME NEW s \in Seq(Messages), NEW n \in 1..Len(s), NEW from \in Nat, Follows(s, from)
    PROVE  /\ SubSeq(s, 1, n) \in Seq(Messages) /\ Len(SubSeq(s, 1, n)) = n
           /\ SubSeq(s, n + 1, Len(s)) \in Seq(Messages)
           /\ Len(SubSeq(s, n + 1, Len(s))) = Len(s) - n
           /\ Follows(SubSeq(s, 1, n), from) /\ Follows(SubSeq(s, n + 1, Len(s)), from + n)
<1>1. Len(s) \in Nat /\ n \in Nat /\ n <= Len(s)
  OBVIOUS
<1>2. /\ SubSeq(s, 1, n) \in Seq(Messages) /\ Len(SubSeq(s, 1, n)) = n
      /\ \A i \in 1..n : SubSeq(s, 1, n)[i] = s[i]
  BY <1>1
<1>3. /\ SubSeq(s, n + 1, Len(s)) \in Seq(Messages) /\ Len(SubSeq(s, n + 1, Len(s))) = Len(s) - n
      /\ \A i \in 1..(Len(s) - n) : SubSeq(s, n + 1, Len(s))[i] = s[n + i]
  BY <1>1
<1>4. \A i \in 1..n : i \in 1..Len(s)
  BY <1>1
<1>5. \A i \in 1..(Len(s) - n) : n + i \in 1..Len(s) /\ from + (n + i) = (from + n) + i
  BY <1>1
<1> QED BY <1>2, <1>3, <1>4, <1>5 DEF Follows

LEMMA ReadingKeepsPlaces ==
    ASSUME NEW n \in Nat, NEW k \in Nat, NEW u \in Seq(Messages), NEW b, NEW i,
           InPlace(n, k, u, b, i), u = <<>>, b # <<>>
    PROVE  InPlace(n, k + 1, u, Tail(b), i)
<1>1. Len(u) = 0 /\ Len(i) \in Nat /\ b \in Seq(Messages)
  BY DEF InPlace
<1>2. k + Len(u) = k
  BY <1>1
<1>3. Follows(b, k)
  BY <1>2 DEF InPlace
<1>4. /\ Tail(b) \in Seq(Messages) /\ Len(Tail(b)) = Len(b) - 1 /\ Len(b) \in Nat \ {0}
      /\ Follows(Tail(b), k + 1)
  BY <1>1, <1>3, RestFollows
<1>5. /\ k + 1 + Len(u) = k + 1 /\ k + 1 + Len(u) + Len(Tail(b)) = k + Len(u) + Len(b)
  BY <1>1, <1>4
<1> QED BY <1>1, <1>4, <1>5 DEF InPlace

LEMMA FillingKeepsPlaces ==
    ASSUME NEW n \in Nat, NEW k \in Nat, NEW u \in Seq(Messages), NEW i,
           InPlace(n, k, u, <<>>, i), NEW m \in 1..Len(i)
    PROVE  InPlace(n, k, u, SubSeq(i, 1, m), SubSeq(i, m + 1, Len(i)))
<1> PICK e, b, c : e = <<>> /\ b = SubSeq(i, 1, m) /\ c = SubSeq(i, m + 1, Len(i))
  OBVIOUS
<1>1. Len(u) \in Nat /\ Len(e) = 0 /\ i \in Seq(Messages) /\ m \in Nat /\ Len(i) \in Nat
  BY DEF InPlace
<1>2. k + Len(u) + Len(e) = k + Len(u) /\ k + Len(u) \in Nat
  BY <1>1
<1>3. Follows(i, k + Len(u))
  BY <1>2 DEF InPlace
<1>4. /\ b \in Seq(Messages) /\ Len(b) = m /\ c \in Seq(Messages) /\ Len(c) = Len(i) - m
      /\ Follows(b, k + Len(u)) /\ Follows(c, k + Len(u) + m)
  BY <1>1, <1>2, <1>3, PartsFollow
<1>5. k + Len(u) + Len(e) + Len(i) = n
  BY DEF InPlace
<1>6. k + Len(u) + Len(b) + Len(c) = n /\ k + Len(u) + Len(b) = k + Len(u) + m
  <2> PICK lu, le, lb, lc, li : /\ lu = Len(u) /\ le = Len(e) /\ lb = Len(b)
                                /\ lc = Len(c) /\ li = Len(i)
    OBVIOUS
  <2>1. lu \in Nat /\ li \in Nat /\ le = 0 /\ lb = m /\ lc = li - m /\ k + lu + le + li = n
    BY <1>1, <1>4, <1>5
  <2>2. k + lu + lb + lc = n /\ k + lu + lb = k + lu + m
    BY ONLY <2>1, k \in Nat, m \in Nat
  <2> QED BY <2>2
<1> QED BY <1>4, <1>6 DEF InPlace

LEMMA SendingKeepsPlaces ==
    ASSUME NEW n \in Nat, NEW k \in Nat, NEW u \in Seq(Messages), NEW b, NEW i,
           InPlace(n, k, u, b, i), n < Len(Script)
    PROVE  InPlace(n + 1, k, u, b, Append(i, Script[n + 1]))
<1> PICK c : c = Append(i, Script[n + 1])
  OBVIOUS
<1>1. Len(u) \in Nat /\ Len(b) \in Nat /\ Len(i) \in Nat /\ i \in Seq(Messages)
  BY DEF InPlace
<1> PICK from \in Nat : from = k + Len(u) + Len(b)
  BY <1>1
<1>2. from + Len(i) = n /\ Follows(i, from)
  BY DEF InPlace
<1>3. c \in Seq(Messages) /\ Len(c) = Len(i) + 1 /\ Follows(c, from)
  BY <1>1, <1>2, OneMoreFollows
<1>4. k + Len(u) + Len(b) + Len(c) = n + 1
  BY ONLY <1>1, <1>2, <1>3, from = k + Len(u) + Len(b), from \in Nat, n \in Nat
<1> QED BY <1>3, <1>4 DEF InPlace

LEMMA CopyingKeepsPlaces ==
    ASSUME NEW n \in 0..Len(Script), NEW u \in Seq(Messages), NEW b, NEW i,
           InPlace(n, 3, u, b, i), b # <<>>, Follows(u, 3)
    PROVE  /\ InPlace(n, 3, Append(u, Head(b)), Tail(b), i)
           /\ Append(u, Head(b)) \in Seq(Messages) /\ Follows(Append(u, Head(b)), 3)
           /\ Len(Append(u, Head(b))) <= Len(Data)
<1> PICK v, t : v = Append(u, Head(b)) /\ t = Tail(b)
  OBVIOUS
<1>1. Len(u) \in Nat /\ Len(i) \in Nat /\ b \in Seq(Messages)
  BY DEF InPlace
<1>2. /\ t \in Seq(Messages) /\ Len(t) = Len(b) - 1 /\ Len(b) \in Nat \ {0}
      /\ Head(b) = Script[3 + Len(u) + 1] /\ Follows(t, 3 + Len(u) + 1)
  BY <1>1, RestFollows DEF InPlace
<1>3. 3 + Len(u) + Len(b) + Len(i) = n /\ n <= Len(Script) /\ n \in Nat
  BY ScriptThenData DEF InPlace
<1>4. 3 + Len(u) < Len(Script) /\ Len(u) + 1 <= Len(Data)
  BY <1>1, <1>2, <1>3, ScriptThenData
<1>5. v \in Seq(Messages) /\ Len(v) = Len(u) + 1 /\ Follows(v, 3)
  BY <1>2, <1>4, OneMoreFollows
<1>6. /\ 3 + Len(v) = 3 + Len(u) + 1
      /\ 3 + Len(v) + Len(t) = 3 + Len(u) + Len(b) /\ 3 + Len(v) + Len(t) + Len(i) = n
  <2> PICK lu, lb, li, lv, lt : /\ lu = Len(u) /\ lb = Len(b) /\ li = Len(i)
                                /\ lv = Len(v) /\ lt = Len(t)
    OBVIOUS
  <2>1. /\ lu \in Nat /\ lb \in Nat /\ li \in Nat /\ lv = lu + 1 /\ lt = lb - 1
        /\ 3 + lu + lb + li = n
    BY <1>1, <1>2, <1>3, <1>5
  <2>2. 3 + lv = 3 + lu + 1 /\ 3 + lv + lt = 3 + lu + lb /\ 3 + lv + lt + li = n
    BY ONLY <2>1
  <2> QED BY <2>2
<1> QED BY <1>1, <1>2, <1>4, <1>5, <1>6 DEF InPlace

LEMMA MayBeSent == MaySend \in 0..Len(Script)
<1>1. Len(Script) \in Nat /\ 3 <= Len(Script)
  BY ScriptThenData
<1> QED BY <1>1 DEF MaySend

LEMMA NothingGetsLost ==
    ASSUME SocksInv, [SocksNext]_socksVars
    PROVE  NothingIsLost'
<1> USE DEF SocksInv
<1>1. /\ sent \in 0..Len(Script) /\ sent \in Nat /\ Len(Script) \in Nat
      /\ up \in Seq(Messages) /\ Follows(up, 3) /\ Len(up) <= Len(Data)
  BY ScriptThenData DEF NothingIsLost
<1>2. phase # "ended" => InPlace(sent, Taken, up, buffered, inbox)
  BY DEF NothingIsLost
<1>3. phase \in {"version", "auth", "request"} => up = <<>>
  BY DEF Answered
<1>4. Taken \in Nat
  BY DEF Taken
<1>5. ASSUME sent' = sent, up' = up, buffered' = buffered, inbox' = inbox,
             phase' = "ended" \/ (phase # "ended" /\ Taken' = Taken) \/ phase' = phase
      PROVE  NothingIsLost'
  <2>1. phase' = phase => Taken' = Taken
    BY DEF Taken
  <2> QED BY <1>1, <1>2, <1>5, <2>1 DEF NothingIsLost
<1>6. ASSUME sent' \in 0..Len(Script), up' = up,
             phase' # "ended" => InPlace(sent', Taken', up', buffered', inbox')
      PROVE  NothingIsLost'
  BY <1>1, <1>6 DEF NothingIsLost
<1>7. CASE ClientSends
  <2>1. /\ sent < Len(Script) /\ sent' = sent + 1 /\ sent + 1 \in 0..Len(Script)
    BY <1>1, <1>7, MayBeSent DEF ClientSends
  <2>2. /\ inbox' = Append(inbox, Script[sent + 1]) /\ up' = up /\ buffered' = buffered
        /\ phase' = phase /\ phase # "ended"
    BY <1>7, <2>1 DEF ClientSends
  <2>3. Taken' = Taken
    BY <2>2 DEF Taken
  <2>4. InPlace(sent + 1, Taken, up, buffered, Append(inbox, Script[sent + 1]))
    BY <1>1, <1>2, <1>4, <2>1, <2>2, SendingKeepsPlaces
  <2>5. InPlace(sent', Taken', up', buffered', inbox')
    BY <2>1, <2>2, <2>3, <2>4
  <2> QED BY <1>6, <2>1, <2>2, <2>5
<1>8. CASE Fill
  <2> PICK m \in 1..Len(inbox) : /\ buffered' = SubSeq(inbox, 1, m)
                                 /\ inbox' = SubSeq(inbox, m + 1, Len(inbox))
    BY <1>8 DEF Fill
  <2>1. sent' = sent /\ up' = up /\ phase' = phase /\ phase # "ended" /\ buffered = <<>>
    BY <1>8 DEF Fill, Answered
  <2>2. Taken' = Taken
    BY <2>1 DEF Taken
  <2>3. InPlace(sent, Taken, up, <<>>, inbox)
    BY <1>2, <2>1
  <2>4. InPlace(sent, Taken, up, SubSeq(inbox, 1, m), SubSeq(inbox, m + 1, Len(inbox)))
    BY <1>1, <1>4, <2>3, FillingKeepsPlaces
  <2>5. InPlace(sent', Taken', up', buffered', inbox')
    BY <2>1, <2>2, <2>4
  <2> QED BY <1>1, <1>6, <2>1, <2>5
<1>9. ASSUME buffered # <<>>, buffered' = Tail(buffered), sent' = sent, inbox' = inbox, up' = up,
             phase \in {"version", "auth", "request"}, phase' # "ended" => Taken' = Taken + 1
      PROVE  NothingIsLost'
  <2>1. up \in Seq(Messages) /\ up = <<>> /\ InPlace(sent, Taken, up, buffered, inbox)
    BY <1>1, <1>2, <1>3, <1>9
  <2>2. InPlace(sent, Taken + 1, up, Tail(buffered), inbox)
    BY <1>1, <1>4, <1>9, <2>1, ReadingKeepsPlaces
  <2>3. phase' # "ended" => InPlace(sent', Taken', up', buffered', inbox')
    BY <1>9, <2>2
  <2> QED BY <1>1, <1>6, <1>9, <2>3
<1>10. CASE ReadVersion
  <2>1. phase = "version" /\ (phase' = "ended" \/ phase' = "auth")
    BY <1>10 DEF ReadVersion, Ended
  <2> QED BY <1>9, <1>10, <2>1 DEF ReadVersion, Reads, Taken
<1>11. CASE Authenticate
  <2>1. phase = "auth" /\ (phase' = "ended" \/ phase' = "request")
    BY <1>11 DEF Authenticate, Ended
  <2> QED BY <1>9, <1>11, <2>1 DEF Authenticate, Reads, Taken
<1>12. CASE ReadRequest
  <2>1. phase = "request" /\ (phase' = "ended" \/ phase' = "connect")
    BY <1>12 DEF ReadRequest, Ended
  <2> QED BY <1>9, <1>12, <2>1 DEF ReadRequest, Reads, Taken
<1>13. CASE CopyUp
  <2>1. /\ sent' = sent /\ inbox' = inbox /\ phase' = phase /\ phase = "proxy" /\ buffered # <<>>
        /\ up' = Append(up, Head(buffered)) /\ buffered' = Tail(buffered)
    BY <1>13 DEF CopyUp, Answered
  <2>2. Taken = 3 /\ Taken' = 3
    BY <2>1 DEF Taken
  <2>3. InPlace(sent, 3, up, buffered, inbox)
    BY <1>2, <2>1, <2>2
  <2>4. /\ InPlace(sent, 3, Append(up, Head(buffered)), Tail(buffered), inbox)
        /\ Append(up, Head(buffered)) \in Seq(Messages) /\ Follows(Append(up, Head(buffered)), 3)
        /\ Len(Append(up, Head(buffered))) <= Len(Data)
    BY <1>1, <2>1, <2>3, CopyingKeepsPlaces
  <2>5. /\ InPlace(sent', Taken', up', buffered', inbox') /\ up' \in Seq(Messages) /\ Follows(up', 3)
        /\ Len(up') <= Len(Data) /\ sent' \in 0..Len(Script)
    BY <1>1, <2>1, <2>2, <2>4
  <2> QED BY <2>5 DEF NothingIsLost
<1>14. CASE NameChanges \/ CopyDown \/ UNCHANGED socksVars
  BY <1>5, <1>14 DEF NameChanges, CopyDown, socksVars
<1>15. CASE HandshakeFails \/ CopyFails
  BY <1>5, <1>15 DEF HandshakeFails, CopyFails, Ended
<1>16. CASE JudgeRequest
  <2>1. phase = "connect" /\ (phase' = "ended" \/ phase' = "dial")
    BY <1>16 DEF JudgeRequest, RefuseRequest, Ended
  <2> QED BY <1>5, <1>16, <2>1 DEF JudgeRequest, Taken
<1>17. CASE Dial
  <2>1. phase = "dial" /\ (phase' = "ended" \/ phase' = "reply")
    BY <1>17 DEF Dial, RefuseRequest, Ended
  <2> QED BY <1>5, <1>17, <2>1 DEF Dial, Taken
<1>18. CASE SendSuccess
  <2>1. phase = "reply" /\ (phase' = "ended" \/ phase' = "proxy")
    BY <1>18 DEF SendSuccess, Ended
  <2> QED BY <1>5, <1>18, <2>1 DEF SendSuccess, Taken
<1>19. CASE \E w \in {"up", "down"} : CopyEnds(w)
  <2>1. phase' = "ended" \/ phase' = phase
    BY <1>19 DEF CopyEnds
  <2> QED BY <1>5, <1>19, <2>1 DEF CopyEnds
<1> QED BY <1>7, <1>8, <1>10, <1>11, <1>12, <1>13, <1>14, <1>15, <1>16, <1>17, <1>18, <1>19
           DEF SocksNext

LEMMA AnotherReply ==
    ASSUME NEW s \in Seq(ReplyCodes), NEW r \in ReplyCodes
    PROVE  /\ Append(s, r) \in Seq(ReplyCodes) /\ Len(Append(s, r)) = Len(s) + 1 /\ Len(s) \in Nat
           /\ Append(s, r)[Len(s) + 1] = r
  OBVIOUS

LEMMA SecondReply ==
    ASSUME NEW s \in Seq(ReplyCodes), NEW r \in ReplyCodes, Len(s) = 1
    PROVE  Append(s, r) \in Seq(ReplyCodes) /\ Len(Append(s, r)) = 2 /\ Append(s, r)[2] = r
<1> PICK t : t = Append(s, r)
  OBVIOUS
<1>1. /\ t \in Seq(ReplyCodes) /\ Len(t) = Len(s) + 1 /\ t[Len(s) + 1] = r
  BY AnotherReply
<1>2. Len(s) + 1 = 2
  OBVIOUS
<1> QED BY <1>1, <1>2

LEMMA AnswersStayTrue ==
    ASSUME SocksInv, [SocksNext]_socksVars
    PROVE  Answered'
<1> USE DEF SocksInv
<1>1. CASE ClientSends \/ NameChanges \/ Fill \/ UNCHANGED socksVars
  BY <1>1 DEF ClientSends, NameChanges, Fill, socksVars, Answered
<1>2. CASE ReadVersion
  BY <1>2 DEF ReadVersion, Ended, Answered
<1>3. CASE HandshakeFails \/ CopyFails
  BY <1>3 DEF HandshakeFails, CopyFails, Ended, Answered
<1>4. CASE Authenticate
  <2>1. phase = "auth" /\ dialled' = dialled /\ up' = up /\ down' = down /\ copies' = {}
    BY <1>4 DEF Authenticate, Ended, Answered
  <2>2. /\ \E r \in ReplyCodes : replies' = Append(replies, r)
        /\ phase' \in {"request", "ended"}
    BY <1>4 DEF Authenticate, Ended, ReplyCodes
  <2>3. replies' \in Seq(ReplyCodes) /\ Len(replies') = 1
    BY <2>1, <2>2, AnotherReply DEF Answered
  <2> QED BY <2>1, <2>2, <2>3 DEF Answered
<1>5. CASE ReadRequest
  <2>1. /\ phase = "request" /\ dialled' = dialled /\ up' = up /\ down' = down
        /\ Len(replies) = 1 /\ up = <<>> /\ down = <<>> /\ dialled = Nothing /\ copies = {}
    BY <1>5 DEF ReadRequest, Answered
  <2>2. CASE replies' = replies /\ phase' \in {"ended", "connect"} /\ copies' = {}
    BY <2>1, <2>2 DEF Answered
  <2>3. CASE replies' = Append(replies, "commandNotSupported") /\ phase' = "ended" /\ copies' = {}
    <3>1. /\ replies' \in Seq(ReplyCodes) /\ Len(replies') = 2
          /\ replies'[2] = "commandNotSupported"
      BY <2>1, <2>3, SecondReply DEF Answered, ReplyCodes
    <3> QED BY <2>1, <2>3, <3>1 DEF Answered
  <2> QED BY <1>5, <2>1, <2>2, <2>3 DEF ReadRequest, Ended
<1>6. ASSUME NEW r \in ReplyCodes \ {"success"}, RefuseRequest(r), dialled' = Nothing, up' = up,
             down' = down, phase \in {"connect", "dial"}
      PROVE  Answered'
  <2>1. Len(replies) = 1 /\ up = <<>> /\ down = <<>>
    BY <1>6 DEF Answered
  <2>2. replies' \in Seq(ReplyCodes) /\ Len(replies') = 2 /\ replies'[2] = r
    BY <1>6, <2>1, SecondReply DEF Answered, RefuseRequest
  <2> QED BY <1>6, <2>1, <2>2 DEF Answered, RefuseRequest, Ended
<1>7. CASE JudgeRequest
  <2>1. phase = "connect" /\ dialled' = dialled /\ up' = up /\ down' = down
    BY <1>7 DEF JudgeRequest
  <2>2. CASE RefuseRequest("ruleFailure")
    BY <1>6, <2>1, <2>2 DEF Answered, ReplyCodes
  <2>3. CASE phase' = "dial" /\ replies' = replies /\ copies' = copies
    BY <2>1, <2>3 DEF Answered
  <2> QED BY <1>7, <2>2, <2>3 DEF JudgeRequest
<1>8. CASE Dial
  <2>1. phase = "dial" /\ up' = up /\ down' = down
    BY <1>8 DEF Dial
  <2>2. CASE /\ \E r \in {"hostUnreachable", "connectionRefused", "networkUnreachable"} :
                   RefuseRequest(r)
             /\ dialled' = dialled
    BY <1>6, <2>1, <2>2 DEF Answered, ReplyCodes
  <2>3. CASE /\ mode = "conn" \/ Address # Nothing
             /\ dialled' = [ip |-> IF mode = "conn" THEN Nothing ELSE Address, port |-> dest.port]
             /\ phase' = "reply" /\ UNCHANGED <<replies, copies>>
    <3>1. dest \in [ip : IPs \cup {Nothing}, port : TargetPorts] /\ dns \in IPs \cup {Nothing}
      BY <2>1 DEF Judgement
    <3>2. dialled' \in [ip : IPs \cup {Nothing}, port : TargetPorts]
      BY <2>3, <3>1 DEF Address
    <3>3. dialled' # Nothing
      BY <3>2, SocksAssumption
    <3> QED BY <2>1, <2>3, <3>3 DEF Answered
  <2> QED BY <1>8, <2>2, <2>3 DEF Dial
<1>9. CASE SendSuccess
  <2>1. /\ phase = "reply" /\ dialled' = dialled /\ dialled # Nothing /\ up' = up /\ down' = down
        /\ Len(replies) = 1 /\ up = <<>> /\ down = <<>>
    BY <1>9 DEF SendSuccess, Answered
  <2>2. CASE phase' = "ended" /\ copies' = {} /\ replies' = replies
    BY <2>1, <2>2 DEF Answered
  <2>3. CASE replies' = Append(replies, "success") /\ phase' = "proxy"
    <3>1. replies' \in Seq(ReplyCodes) /\ Len(replies') = 2 /\ replies'[2] = "success"
      BY <2>1, <2>3, SecondReply DEF Answered, ReplyCodes
    <3> QED BY <2>1, <2>3, <3>1 DEF Answered
  <2> QED BY <1>9, <2>2, <2>3 DEF SendSuccess, Ended
<1>10. CASE CopyUp \/ CopyDown
  <2>1. phase = "proxy" /\ phase' = phase /\ replies' = replies /\ dialled' = dialled
    BY <1>10 DEF CopyUp, CopyDown, Answered
  <2> QED BY <2>1 DEF Answered
<1>11. CASE \E w \in {"up", "down"} : CopyEnds(w)
  <2>1. /\ phase = "proxy" /\ replies' = replies /\ dialled' = dialled /\ up' = up /\ down' = down
        /\ phase' = IF copies' = {} THEN "ended" ELSE phase
    BY <1>11 DEF CopyEnds, Answered
  <2> QED BY <2>1 DEF Answered
<1> QED BY <1>1, <1>2, <1>3, <1>4, <1>5, <1>7, <1>8, <1>9, <1>10, <1>11 DEF SocksNext

LEMMA JudgedBeforeDialled ==
    ASSUME SocksInv, [SocksNext]_socksVars
    PROVE  Judgement'
<1> USE DEF SocksInv
<1>1. UNCHANGED <<mode, policy, hello>>
  BY DEF SocksNext, socksVars, client, ClientSends, NameChanges, Fill, ReadVersion, Authenticate,
         ReadRequest, HandshakeFails, JudgeRequest, Dial, SendSuccess, CopyUp, CopyDown, CopyFails,
         CopyEnds
<1>2. \A ip, port : Allowed(ip, port)' = Allowed(ip, port)
  BY <1>1 DEF Allowed
<1>3. ASSUME dest' = dest, dialled' = dialled, dns' \in IPs \cup {Nothing},
             phase' \in {"connect", "dial"} => phase' = phase
      PROVE  Judgement'
  BY <1>1, <1>2, <1>3 DEF Judgement, DialsWhatWasAllowed
<1>4. CASE ClientSends \/ NameChanges \/ Fill \/ UNCHANGED socksVars
  BY <1>3, <1>4 DEF ClientSends, NameChanges, Fill, socksVars, Judgement
<1>5. CASE \/ ReadVersion \/ Authenticate \/ HandshakeFails \/ SendSuccess
           \/ CopyUp \/ CopyDown \/ CopyFails
  BY <1>3, <1>5 DEF ReadVersion, Authenticate, HandshakeFails, SendSuccess, CopyUp, CopyDown,
                    CopyFails, Ended, Judgement
<1>6. CASE \E w \in {"up", "down"} : CopyEnds(w)
  BY <1>3, <1>6 DEF CopyEnds, Judgement
<1>7. CASE ReadRequest
  <2>1. /\ phase = "request" /\ dialled = Nothing /\ dialled' = dialled /\ dns' = dns
        /\ phase' \in {"connect", "ended"}
    BY <1>7 DEF ReadRequest, Ended, Answered
  <2>2. hello.ip \in IPs /\ hello.port \in TargetPorts
    BY DEF Judgement, Hellos
  <2>3. phase' = "connect" => dest' \in [ip : IPs \cup {Nothing}, port : TargetPorts]
    BY <1>7, <2>2 DEF ReadRequest, Ended
  <2> QED BY <1>1, <2>1, <2>3 DEF Judgement, DialsWhatWasAllowed
<1>8. CASE JudgeRequest
  <2>1. /\ phase = "connect" /\ dialled = Nothing /\ dialled' = dialled /\ dns' = dns
        /\ dest \in [ip : IPs \cup {Nothing}, port : TargetPorts] /\ dns \in IPs \cup {Nothing}
    BY <1>8 DEF JudgeRequest, Answered, Judgement
  <2>2. CASE phase' = "ended"
    BY <1>1, <2>1, <2>2 DEF Judgement, DialsWhatWasAllowed
  <2>3. CASE policy = Nothing /\ phase' = "dial" /\ dest' = dest
    BY <1>1, <2>1, <2>3 DEF Judgement, DialsWhatWasAllowed
  <2>4. ASSUME NEW ip \in IPs \cup {Nothing}, ip # Nothing, Allowed(ip, dest.port), phase' = "dial",
               dest' = [dest EXCEPT !.ip = ip]
        PROVE  Judgement'
    <3>1. dest'.ip = ip /\ dest'.port = dest.port
          /\ dest' \in [ip : IPs \cup {Nothing}, port : TargetPorts]
      BY <2>1, <2>4
    <3>2. Allowed(dest'.ip, dest'.port)
      BY <2>4, <3>1
    <3>3. Allowed(dest.ip, dest.port)'
      BY <1>1, <3>2 DEF Allowed
    <3> QED BY <1>1, <2>1, <2>4, <3>1, <3>3 DEF Judgement, DialsWhatWasAllowed
  <2>5. (IF dest.ip # Nothing THEN dest.ip ELSE dns) \in IPs \cup {Nothing}
    BY <2>1
  <2> QED BY <1>8, <2>2, <2>3, <2>4, <2>5 DEF JudgeRequest, RefuseRequest, Ended
<1>9. CASE Dial
  <2>1. phase = "dial" /\ dest' = dest /\ dns' = dns
    BY <1>9 DEF Dial
  <2>2. CASE phase' = "ended" /\ dialled' = dialled
    BY <1>3, <2>1, <2>2 DEF Judgement
  <2>3. CASE /\ dialled' = [ip |-> IF mode = "conn" THEN Nothing ELSE Address, port |-> dest.port]
             /\ phase' = "reply"
    <3>1. dialled'.port = dest.port /\ (mode # "conn" => dialled'.ip = Address)
      BY <2>3
    <3>2. policy # Nothing => /\ mode # "conn" /\ dest.ip # Nothing /\ Allowed(dest.ip, dest.port)
      BY <2>1 DEF Judgement
    <3>3. policy # Nothing => Allowed(dialled'.ip, dialled'.port)
      BY <3>1, <3>2 DEF Address
    <3>4. policy # Nothing => Allowed(dialled.ip, dialled.port)'
      BY <1>1, <3>3 DEF Allowed
    <3> QED BY <1>1, <2>1, <2>3, <3>4 DEF Judgement, DialsWhatWasAllowed
  <2> QED BY <1>9, <2>2, <2>3 DEF Dial, RefuseRequest, Ended
<1> QED BY <1>4, <1>5, <1>6, <1>7, <1>8, <1>9 DEF SocksNext

LEMMA FollowingIsSkippingNothing ==
    ASSUME NEW u \in Seq(Messages), Follows(u, 3), Len(u) <= Len(Data)
    PROVE  u = SubSeq(Data, 1, Len(u))
<1>1. Len(u) \in Nat /\ Len(Data) \in Nat
  BY ScriptThenData
<1>2. \A i \in 1..Len(u) : i \in 1..Len(Data) /\ u[i] = Data[i]
  BY <1>1, ScriptThenData DEF Follows
<1>3. ASSUME NEW S, NEW d \in Seq(S), Len(u) <= Len(d), \A i \in 1..Len(u) : u[i] = d[i]
      PROVE  u = SubSeq(d, 1, Len(u))
  BY <1>3
<1>4. \A i \in 1..Len(u) : u[i] = Data[i]
  BY <1>2
<1> QED BY <1>3, <1>4, SocksAssumption

\* socks/: for every policy, hello and order of messages, a target is one that the rules
\* allow, it gets what the client sends after its request and all of it in order, and the
\* client is told once and truly whether there is a target (handleConnect, sendReply).
THEOREM SocksTellsTheTruth == SocksSpec => []ProxyHolds
<1>1. SocksInit => SocksInv
  <2> SUFFICES ASSUME SocksInit PROVE SocksInv
    OBVIOUS
  <2>1. /\ sent = 0 /\ inbox = <<>> /\ buffered = <<>> /\ up = <<>> /\ down = <<>> /\ replies = <<>>
        /\ phase = "version" /\ dialled = Nothing /\ copies = {}
    BY DEF SocksInit
  <2>2. \A e : e = <<>> => e \in Seq(Messages) /\ e \in Seq(ReplyCodes) /\ Len(e) = 0
    OBVIOUS
  <2>3. Taken = 0
    BY <2>1 DEF Taken
  <2>4. \A n : Follows(<<>>, n)
    BY DEF Follows
  <2>5. InPlace(0, 0, up, buffered, inbox)
    BY <2>1, <2>2, <2>4 DEF InPlace
  <2>6. NothingIsLost
    BY <2>1, <2>2, <2>3, <2>4, <2>5, ScriptThenData DEF NothingIsLost
  <2>7. Answered
    BY <2>1, <2>2 DEF Answered
  <2>8. Judgement
    BY <2>1 DEF SocksInit, Judgement, DialsWhatWasAllowed
  <2> QED BY <2>6, <2>7, <2>8 DEF SocksInv
<1>2. SocksInv /\ [SocksNext]_socksVars => SocksInv'
  BY NothingGetsLost, AnswersStayTrue, JudgedBeforeDialled DEF SocksInv
<1>3. SocksInv => ProxyHolds
  <2> SUFFICES ASSUME SocksInv PROVE ProxyHolds
    OBVIOUS
  <2>1. NothingIsSkipped
    BY FollowingIsSkippingNothing DEF SocksInv, NothingIsLost, NothingIsSkipped
  <2>2. /\ replies \in Seq(ReplyCodes) /\ Len(replies) <= 2
        /\ Len(replies) = 2 => (replies[2] = "success") = (dialled # Nothing)
        /\ up # <<>> \/ down # <<>> => Len(replies) = 2
    BY DEF SocksInv, Answered
  <2>3. \A i \in DOMAIN replies : i > 1 => i = Len(replies) /\ i = 2
    BY <2>2
  <2> QED BY <2>1, <2>2, <2>3 DEF SocksInv, Judgement, ProxyHolds, RepliesAreTrue
<1> QED BY <1>1, <1>2, <1>3, PTL DEF SocksSpec

-----------------------------------------------------------------------------
\* Datagrams and headers: each kind of message is read as what was written, part by part.

LEMMA PayloadIs ==
    ASSUME NEW n \in Nat
    PROVE  Payload(n) \in Seq(Nat) /\ Len(Payload(n)) = n
<1>1. Payload(n) \in [1..n -> Nat]
    BY DEF Payload
<1> QED
    BY <1>1 DEF Payload

LEMMA IdIs ==
    ASSUME NEW i \in Nat
    PROVE  /\ Id(i) \in Seq(Nat) /\ Len(Id(i)) = IdLen /\ IdLen \in Nat \ {0}
           /\ Id(i)[1] = i /\ Id(i)[IdLen] = i
<1>1. IdLen \in Nat \ {0}
    BY WireAssumption
<1>2. Id(i) \in [1..IdLen -> Nat]
    BY DEF Id
<1>3. 1 \in 1..IdLen /\ IdLen \in 1..IdLen
    BY <1>1
<1> QED
    BY <1>1, <1>2, <1>3 DEF Id

LEMMA TraceIs == Trace \in Seq(Nat) /\ Len(Trace) = TraceLen /\ TraceLen \in Nat
<1>1. TraceLen \in Nat
    BY WireAssumption
<1>2. Trace \in [1..TraceLen -> Nat]
    BY DEF Trace
<1> QED
    BY <1>1, <1>2 DEF Trace

\* d has the cells of p, then those of q.
Joined(d, p, q) ==
    /\ d \in Seq(Nat) /\ Len(d) = Len(p) + Len(q)
    /\ \A k \in 1..Len(p) : d[k] = p[k]
    /\ \A k \in 1..Len(q) : d[Len(p) + k] = q[k]

LEMMA Concatenation ==
    ASSUME NEW p \in Seq(Nat), NEW q \in Seq(Nat)
    PROVE  Joined(p \o q, p, q)
<1>1. /\ p \o q \in Seq(Nat) /\ Len(p \o q) = Len(p) + Len(q)
      /\ \A k \in 1..Len(p) : (p \o q)[k] = p[k]
      /\ \A k \in 1..Len(q) : (p \o q)[Len(p) + k] = q[k]
    OBVIOUS
<1> QED
    BY <1>1 DEF Joined

LEMMA LastOfJoined ==
    ASSUME NEW p \in Seq(Nat), NEW i \in Nat
    PROVE  LET b == p \o Id(i) IN b \in Seq(Nat) /\ Len(b) = Len(p) + IdLen /\ b[Len(b)] = i
<1>1. PICK q \in Seq(Nat) : q = Id(i) /\ Len(q) = IdLen /\ IdLen \in Nat \ {0} /\ q[IdLen] = i
  <2>1. /\ Id(i) \in Seq(Nat) /\ Len(Id(i)) = IdLen /\ IdLen \in Nat \ {0} /\ Id(i)[IdLen] = i
      BY IdIs
  <2> QED
      BY <2>1
<1>2. PICK b : b = p \o q
    OBVIOUS
<1>3. b \in Seq(Nat) /\ Len(b) = Len(p) + Len(q) /\ \A k \in 1..Len(q) : b[Len(p) + k] = q[k]
  <2>1. Joined(b, p, q)
      BY <1>2, Concatenation
  <2> QED
      BY <2>1 DEF Joined
<1>4. Len(q) \in 1..Len(q)
    BY <1>1
<1>5. b[Len(p) + Len(q)] = q[Len(q)]
    BY <1>3, <1>4
<1> QED
    BY <1>1, <1>2, <1>3, <1>5

\* The type behind a payload, and what stands before the type.
LEMMA TypeIsLast ==
    ASSUME NEW b \in Seq(Nat), NEW type \in Nat
    PROVE  LET d == Append(b, type)
           IN  /\ d \in Seq(Nat) /\ d # <<>> /\ Len(d) = Len(b) + 1 /\ d[Len(d)] = type
               /\ SubSeq(d, 1, Len(d) - 1) = b
  OBVIOUS

LEMMA ReadsByType ==
    ASSUME NEW b \in Seq(Nat), NEW type \in 0..3, NEW m,
           type = 0 => ExtractSessionID(b) = m,
           type = 1 => [kind |-> "ip", n |-> Len(b)] = m,
           type = 2 => ExtractTracingIdentity("ipWithTrace", b) = m,
           type = 3 => ExtractTracingIdentity("span", b) = m
    PROVE  LET d == SuffixType(b, type)
           IN  d \in Seq(Nat) /\ Len(d) <= FrameSize /\ (d # <<>> => DemuxV2(d) = m)
<1>1. FrameSize \in Nat
    BY WireAssumption
<1>2. CASE Len(b) + 1 > FrameSize
    BY <1>1, <1>2 DEF SuffixType
<1>3. CASE ~(Len(b) + 1 > FrameSize)
  <2>1. PICK d : d = Append(b, type)
      OBVIOUS
  <2>2. SuffixType(b, type) = d
      BY <1>3, <2>1 DEF SuffixType
  <2>3. d \in Seq(Nat) /\ Len(d) = Len(b) + 1 /\ d[Len(d)] = type /\ SubSeq(d, 1, Len(d) - 1) = b
      BY <2>1, TypeIsLast
  <2>4. DemuxV2(d) = CASE type = 0 -> ExtractSessionID(b)
                       [] type = 1 -> [kind |-> "ip", n |-> Len(b)]
                       [] type = 2 -> ExtractTracingIdentity("ipWithTrace", b)
                       [] type = 3 -> ExtractTracingIdentity("span", b)
                       [] OTHER -> Unread
      BY <2>3 DEF DemuxV2
  <2>5. DemuxV2(d) = m
      BY <2>4
  <2> QED
      BY <1>1, <1>3, <2>2, <2>3, <2>5
<1> QED
    BY <1>2, <1>3

\* What datagrams v2 write is read as it was, and fits a frame.
EncodeV2(m) == IF m.kind = "session" THEN SendToSession(m) ELSE SendPacket(m)

LEMMA ReadsV2 ==
    ASSUME NEW m \in V2Messages
    PROVE  LET d == EncodeV2(m)
           IN  d \in Seq(Nat) /\ Len(d) <= FrameSize /\ (d # <<>> => DemuxV2(d) = m)
<1>1. FrameSize \in Nat /\ Mtu \in Nat /\ Mtu + IdLen <= FrameSize /\ IdLen \in Nat \ {0}
    BY WireAssumption
<1>2. PICK n \in Nat : m.n = n
    BY WireAssumption DEF V2Messages, Lens
<1>3. Payload(n) \in Seq(Nat) /\ Len(Payload(n)) = n
    BY PayloadIs
<1>4. CASE m.kind = "session"
  <2>1. PICK i \in Nat : m.id = i /\ m = [kind |-> "session", id |-> i, n |-> n]
      BY <1>2, <1>4, WireAssumption DEF V2Messages
  <2>2. CASE n > Mtu
      BY <1>1, <1>2, <1>4, <2>2 DEF EncodeV2, SendToSession
  <2>3. CASE ~(n > Mtu)
    <3>1. PICK b : b = Payload(n) \o Id(i)
        OBVIOUS
    <3>2. b \in Seq(Nat) /\ Len(b) = n + IdLen /\ b[n + IdLen] = i
        BY <1>3, <3>1, LastOfJoined
    <3>3. EncodeV2(m) = SuffixType(b, 0)
      <4>1. SuffixMetadata(Payload(n), Id(i)) = b
          BY <1>1, <1>3, <2>3, <3>1, IdIs DEF SuffixMetadata
      <4> QED
          BY <1>2, <1>4, <2>1, <2>3, <4>1 DEF EncodeV2, SendToSession
    <3>4. ExtractSessionID(b) = m
        BY <1>1, <2>1, <3>2 DEF ExtractSessionID
    <3> QED
        BY <3>2, <3>3, <3>4, ReadsByType
  <2> QED
      BY <2>2, <2>3
<1>5. CASE m.kind # "session"
  <2>1. m.kind \in {"ip", "ipWithTrace", "span"} /\ m = [kind |-> m.kind, n |-> n]
      BY <1>2, <1>5 DEF V2Messages
  <2>2. PICK metadata \in Seq(Nat) : metadata = IF m.kind = "ip" THEN <<>> ELSE Trace
    <3>1. <<>> \in Seq(Nat) /\ Trace \in Seq(Nat)
        BY TraceIs
    <3> QED
        BY <3>1
  <2>3. PICK type \in 1..3 :
            type = CASE m.kind = "ip" -> 1 [] m.kind = "ipWithTrace" -> 2 [] OTHER -> 3
      BY <2>1
  <2>4. Len(metadata) \in Nat /\ Len(metadata) = IF m.kind = "ip" THEN 0 ELSE TraceLen
      BY <2>2, TraceIs
  <2>5. CASE n + Len(metadata) > FrameSize
      BY <1>1, <1>2, <1>5, <2>2, <2>5 DEF EncodeV2, SendPacket
  <2>6. CASE ~(n + Len(metadata) > FrameSize)
    <3>1. PICK b : b = Payload(n) \o metadata
        OBVIOUS
    <3>2. b \in Seq(Nat) /\ Len(b) = n + Len(metadata)
      <4>1. Joined(b, Payload(n), metadata)
          BY <1>3, <3>1, Concatenation
      <4> QED
          BY <1>3, <4>1 DEF Joined
    <3>3. EncodeV2(m) = SuffixType(b, type)
      <4>1. SuffixMetadata(Payload(n), metadata) = b
          BY <1>3, <2>6, <3>1 DEF SuffixMetadata
      <4> QED
          BY <1>2, <1>5, <2>2, <2>3, <2>6, <4>1 DEF EncodeV2, SendPacket
    <3>4. ASSUME m.kind # "ip" PROVE ExtractTracingIdentity(m.kind, b) = m
        BY <2>1, <2>4, <3>2, <3>4, TraceIs DEF ExtractTracingIdentity
    <3>5. m.kind = "ip" => [kind |-> "ip", n |-> Len(b)] = m
        BY <2>1, <2>4, <3>2
    <3>6. /\ type \in 0..3 /\ type # 0 /\ (type = 1 => m.kind = "ip")
          /\ (type = 2 => m.kind = "ipWithTrace") /\ (type = 3 => m.kind = "span")
        BY <2>1, <2>3
    <3> QED
        BY <3>2, <3>3, <3>4, <3>5, <3>6, ReadsByType
  <2> QED
      BY <2>5, <2>6
<1> QED
    BY <1>4, <1>5

\* A header, an id and a field behind it.
Framed(d, h, i, t) ==
    /\ d \in Seq(Nat) /\ Len(d) = Len(h) + IdLen + Len(t)
    /\ \A k \in 1..Len(h) : d[k] = h[k]
    /\ d[Len(h) + 1] = i
    /\ \A k \in 1..Len(t) : d[Len(h) + IdLen + k] = t[k]

LEMMA FieldsOfFramed ==
    ASSUME NEW h \in Seq(Nat), NEW i \in Nat, NEW t \in Seq(Nat)
    PROVE  Framed(h \o Id(i) \o t, h, i, t)
<1>1. PICK q \in Seq(Nat) : q = Id(i) /\ Len(q) = IdLen /\ IdLen \in Nat \ {0} /\ q[1] = i
  <2>1. Id(i) \in Seq(Nat) /\ Len(Id(i)) = IdLen /\ IdLen \in Nat \ {0} /\ Id(i)[1] = i
      BY IdIs
  <2> QED
      BY <2>1
<1>2. PICK b : b = h \o q
    OBVIOUS
<1>3. /\ b \in Seq(Nat) /\ Len(b) = Len(h) + Len(q) /\ \A k \in 1..Len(h) : b[k] = h[k]
      /\ \A k \in 1..Len(q) : b[Len(h) + k] = q[k]
  <2>1. Joined(b, h, q)
      BY <1>2, Concatenation
  <2> QED
      BY <2>1 DEF Joined
<1>4. b[Len(h) + 1] = i
  <2>1. 1 \in 1..Len(q)
      BY <1>1
  <2> QED
      BY <1>1, <1>3, <2>1
<1>5. PICK d : d = b \o t
    OBVIOUS
<1>6. /\ d \in Seq(Nat) /\ Len(d) = Len(b) + Len(t) /\ \A k \in 1..Len(b) : d[k] = b[k]
      /\ \A k \in 1..Len(t) : d[Len(b) + k] = t[k]
  <2>1. Joined(d, b, t)
      BY <1>3, <1>5, Concatenation
  <2> QED
      BY <2>1 DEF Joined
<1>7. Len(h) \in Nat /\ Len(t) \in Nat /\ Len(b) = Len(h) + IdLen
    BY <1>1, <1>3
<1>8. \A k \in 1..Len(h) : d[k] = h[k]
    BY <1>1, <1>3, <1>6, <1>7
<1>9. d[Len(h) + 1] = i
  <2>1. Len(h) + 1 \in 1..Len(b)
      BY <1>1, <1>7
  <2> QED
      BY <1>4, <1>6, <2>1
<1>10. d = h \o Id(i) \o t
    BY <1>1, <1>2, <1>5
<1>11. Framed(d, h, i, t)
    BY <1>1, <1>6, <1>7, <1>8, <1>9 DEF Framed
<1> QED
    BY <1>10, <1>11

LEMMA ReadsPayload ==
    ASSUME NEW i \in Nat, NEW n \in Nat
    PROVE  LET m == [kind |-> "payload", id |-> i, n |-> n]
               d == MarshalPayload(m)
           IN  d \in Seq(Nat) /\ (d # <<>> => DemuxV3(d) = m)
<1>1. Mtu \in Nat /\ IdLen \in Nat \ {0}
    BY WireAssumption
<1>2. PICK m : m = [kind |-> "payload", id |-> i, n |-> n]
    OBVIOUS
<1>3. m.n = n /\ m.id = i
    BY <1>2
<1>4. CASE n > Mtu
    BY <1>2, <1>3, <1>4 DEF MarshalPayload
<1>5. CASE ~(n > Mtu)
  <2>1. PICK p \in Seq(Nat) : p = Payload(n) /\ Len(p) = n
      BY PayloadIs
  <2>2. PICK h \in Seq(Nat) : h = <<1>> /\ Len(h) = 1 /\ h[1] = 1
    <3>1. <<1>> \in Seq(Nat) /\ Len(<<1>>) = 1 /\ <<1>>[1] = 1
        OBVIOUS
    <3> QED
        BY <3>1
  <2>3. PICK d : d = h \o Id(i) \o p
      OBVIOUS
  <2>4. d \in Seq(Nat) /\ Len(d) = 1 + IdLen + n /\ d[1] = 1 /\ d[2] = i
    <3>1. Framed(d, h, i, p)
        BY <2>3, FieldsOfFramed
    <3> QED
        BY <2>1, <2>2, <3>1 DEF Framed
  <2>5. DemuxV3(d) = UnmarshalPayload(d)
      BY <2>4 DEF DemuxV3
  <2>6. UnmarshalPayload(d) = [kind |-> "payload", id |-> i, n |-> n]
      BY <1>1, <1>5, <2>4 DEF UnmarshalPayload
  <2>7. MarshalPayload(m) = d
      BY <1>3, <1>5, <2>1, <2>2, <2>3 DEF MarshalPayload
  <2> QED
      BY <1>2, <2>4, <2>5, <2>6, <2>7
<1> QED
    BY <1>4, <1>5

LEMMA ReadsICMP ==
    ASSUME NEW n \in Nat
    PROVE  LET m == [kind |-> "icmp", n |-> n]
               d == MarshalICMP(m)
           IN  d \in Seq(Nat) /\ (d # <<>> => DemuxV3(d) = m)
<1>1. Mtu \in Nat
    BY WireAssumption
<1>2. PICK m : m = [kind |-> "icmp", n |-> n]
    OBVIOUS
<1>3. m.n = n
    BY <1>2
<1>4. CASE n > Mtu \/ n = 0
    BY <1>2, <1>3, <1>4 DEF MarshalICMP
<1>5. CASE ~(n > Mtu \/ n = 0)
  <2>1. PICK p \in Seq(Nat) : p = Payload(n) /\ Len(p) = n
      BY PayloadIs
  <2>2. PICK h \in Seq(Nat) : h = <<2>> /\ Len(h) = 1 /\ h[1] = 2
    <3>1. <<2>> \in Seq(Nat) /\ Len(<<2>>) = 1 /\ <<2>>[1] = 2
        OBVIOUS
    <3> QED
        BY <3>1
  <2>3. PICK d : d = h \o p
      OBVIOUS
  <2>4. d \in Seq(Nat) /\ Len(d) = 1 + n /\ d[1] = 2
    <3>1. Joined(d, h, p)
        BY <2>3, Concatenation
    <3> QED
        BY <2>1, <2>2, <3>1 DEF Joined
  <2>5. DemuxV3(d) = UnmarshalICMP(d)
      BY <2>4 DEF DemuxV3
  <2>6. UnmarshalICMP(d) = [kind |-> "icmp", n |-> n]
      BY <1>1, <1>5, <2>4 DEF UnmarshalICMP
  <2>7. MarshalICMP(m) = d
      BY <1>3, <1>5, <2>1, <2>2, <2>3 DEF MarshalICMP
  <2> QED
      BY <1>2, <2>4, <2>5, <2>6, <2>7
<1> QED
    BY <1>4, <1>5

LEMMA ReadsResponse ==
    ASSUME NEW i \in Nat, NEW type \in Nat, NEW n \in Nat
    PROVE  LET m == [kind |-> "response", id |-> i, type |-> type, n |-> n]
               d == MarshalResponse(m)
           IN  d \in Seq(Nat) /\ (d # <<>> => DemuxV3(d) = m)
<1>1. Mtu \in Nat /\ IdLen \in Nat \ {0} /\ ResponseHeader = 3 + IdLen
    BY WireAssumption DEF ResponseHeader
<1>2. PICK m : m = [kind |-> "response", id |-> i, type |-> type, n |-> n]
    OBVIOUS
<1>3. m.n = n /\ m.id = i /\ m.type = type
    BY <1>2
<1>4. CASE n > Mtu - ResponseHeader
    BY <1>2, <1>3, <1>4 DEF MarshalResponse
<1>5. CASE ~(n > Mtu - ResponseHeader)
  <2>1. /\ <<3, type>> \in Seq(Nat) /\ Len(<<3, type>>) = 2
        /\ <<3, type>>[1] = 3 /\ <<3, type>>[2] = type
      OBVIOUS
  <2>2. PICK h \in Seq(Nat) : h = <<3, type>> /\ Len(h) = 2 /\ h[1] = 3 /\ h[2] = type
      BY <2>1
  <2>3. PICK t \in Seq(Nat) : t = <<n>> /\ Len(t) = 1 /\ t[1] = n
    <3>1. <<n>> \in Seq(Nat) /\ Len(<<n>>) = 1 /\ <<n>>[1] = n
        OBVIOUS
    <3> QED
        BY <3>1
  <2>4. PICK b : b = h \o Id(i) \o t
      OBVIOUS
  <2>5. /\ b \in Seq(Nat) /\ Len(b) = Len(h) + IdLen + Len(t)
        /\ \A k \in 1..Len(h) : b[k] = h[k]
        /\ b[Len(h) + 1] = i
        /\ \A k \in 1..Len(t) : b[Len(h) + IdLen + k] = t[k]
    <3>1. Framed(b, h, i, t)
        BY <2>4, FieldsOfFramed
    <3> QED
        BY <3>1 DEF Framed
  <2>6. Len(b) = 3 + IdLen /\ b[1] = 3 /\ b[2] = type /\ b[3] = i /\ b[3 + IdLen] = n
    <3>1. 1 \in 1..Len(h) /\ 2 \in 1..Len(h) /\ 1 \in 1..Len(t)
        BY <2>2, <2>3
    <3>2. Len(b) = 3 + IdLen /\ b[2 + IdLen + 1] = n /\ 2 + IdLen + 1 = 3 + IdLen
        BY <1>1, <2>2, <2>3, <2>5, <3>1
    <3> QED
        BY <2>2, <2>5, <3>1, <3>2
  <2>7. PICK d : d = b \o Payload(n)
      OBVIOUS
  <2>8. d \in Seq(Nat) /\ Len(d) = Len(b) + n /\ \A k \in 1..Len(b) : d[k] = b[k]
    <3>1. PICK p \in Seq(Nat) : p = Payload(n) /\ Len(p) = n
        BY PayloadIs
    <3>2. Joined(d, b, p)
        BY <2>5, <2>7, <3>1, Concatenation
    <3> QED
        BY <3>1, <3>2 DEF Joined
  <2>9. Len(d) = 3 + IdLen + n /\ d[1] = 3 /\ d[2] = type /\ d[3] = i /\ d[ResponseHeader] = n
    <3>1. 1 \in 1..Len(b) /\ 2 \in 1..Len(b) /\ 3 \in 1..Len(b) /\ 3 + IdLen \in 1..Len(b)
        BY <1>1, <2>6
    <3> QED
        BY <1>1, <2>6, <2>7, <2>8, <3>1
  <2>10. DemuxV3(d) = UnmarshalResponse(d)
      BY <2>9 DEF DemuxV3
  <2>11. UnmarshalResponse(d) = [kind |-> "response", id |-> i, type |-> type, n |-> n]
    <3>1. /\ ~(Len(d) < ResponseHeader \/ n > Mtu - ResponseHeader \/ Len(d) - ResponseHeader < n)
          /\ n = IF n > 0 THEN Len(d) - ResponseHeader ELSE 0
        BY <1>1, <1>5, <2>9
    <3> QED
        BY <2>9, <3>1 DEF UnmarshalResponse
  <2>12. MarshalResponse(m) = d
      BY <1>3, <1>5, <2>2, <2>3, <2>4, <2>7 DEF MarshalResponse
  <2> QED
      BY <1>2, <2>8, <2>10, <2>11, <2>12
<1> QED
    BY <1>4, <1>5

LEMMA PartOfCells ==
    ASSUME NEW d \in Seq(Nat), NEW t \in Seq(Nat), NEW from \in Nat \ {0}, NEW to \in Nat,
           to = from + Len(t) - 1, to <= Len(d), \A k \in 1..Len(t) : d[from + k - 1] = t[k]
    PROVE  SubSeq(d, from, to) = t
<1>1. PICK n \in Nat : n = Len(t) /\ to - from + 1 = n
    OBVIOUS
<1>2. SubSeq(d, from, to) = [k \in 1..n |-> d[from + k - 1]]
    BY <1>1
<1>3. t = [k \in 1..n |-> t[k]]
    BY <1>1
<1> QED
    BY <1>1, <1>2, <1>3

Registration(i, v6, t, traced, idle, n) ==
    [kind |-> "registration", id |-> i, dest |-> [v6 |-> v6, cells |-> t], port |-> 60,
     traced |-> traced, idle |-> idle, n |-> n]

LEMMA ReadsRegistration ==
    ASSUME NEW i \in Nat, NEW v6 \in BOOLEAN, NEW t \in Seq(Nat), NEW traced \in BOOLEAN,
           NEW idle, IdleHint(idle) \in Nat, NEW n \in Nat, Len(t) = IF v6 THEN 2 ELSE 1
    PROVE  LET m == Registration(i, v6, t, traced, idle, n)
               d == MarshalRegistration(m)
           IN  d \in Seq(Nat) /\ (d # <<>> => DemuxV3(d) = Registration(i, v6, t, traced,
                                      [seconds |-> IdleHint(idle), fraction |-> FALSE], n))
<1>1. PICK header : header = IF v6 THEN V6Header ELSE V4Header
    OBVIOUS
<1>2. /\ IdLen \in Nat /\ IdLen > 0 /\ Len(t) \in Nat /\ header \in Nat
      /\ header = 4 + IdLen + Len(t) /\ Mtu \in Nat
    BY <1>1, WireAssumption DEF V4Header, V6Header
<1>7. PICK l \in Nat : l = IdleHint(idle)
    OBVIOUS
<1>3. PICK m : m = Registration(i, v6, t, traced, idle, n)
    OBVIOUS
<1>4. /\ m.id = i /\ m.dest.v6 = v6 /\ m.dest.cells = t /\ m.port = 60 /\ m.traced = traced
      /\ m.idle = idle /\ m.n = n
    BY <1>3 DEF Registration
<1>5. CASE n > Mtu + header
  <2>1. MarshalRegistration(m) = <<>>
      BY <1>1, <1>2, <1>4, <1>5 DEF MarshalRegistration
  <2> QED
      BY <1>3, <2>1
<1>6. CASE ~(n > Mtu + header)
  <2>1. PICK flags \in Nat :
            /\ flags = Bit(v6) + 2 * Bit(traced) + 4 * Bit(n > 0)
            /\ (flags % 2 = 1) = v6
            /\ ((flags \div 2) % 2 = 1) = traced
            /\ (flags \div 4 = 1) = (n > 0)
      BY DEF Bit
  <2>2. PICK h \in Seq(Nat) :
            /\ h = <<0, flags, 60, l>> /\ Len(h) = 4
            /\ h[1] = 0 /\ h[2] = flags /\ h[3] = 60 /\ h[4] = l
    <3>1. /\ <<0, flags, 60, l>> \in Seq(Nat) /\ Len(<<0, flags, 60, l>>) = 4
          /\ <<0, flags, 60, l>>[1] = 0 /\ <<0, flags, 60, l>>[2] = flags
          /\ <<0, flags, 60, l>>[3] = 60 /\ <<0, flags, 60, l>>[4] = l
        OBVIOUS
    <3> QED
        BY <3>1
  <2>3. PICK b : b = h \o Id(i) \o t
      OBVIOUS
  <2>4. Framed(b, h, i, t)
      BY <2>3, FieldsOfFramed
  <2>5. /\ b \in Seq(Nat) /\ Len(b) = header
        /\ b[1] = 0 /\ b[2] = flags /\ b[3] = 60 /\ b[4] = l /\ b[5] = i
    <3>1. 1 \in 1..Len(h) /\ 2 \in 1..Len(h) /\ 3 \in 1..Len(h) /\ 4 \in 1..Len(h)
        BY <2>2
    <3>2. b \in Seq(Nat) /\ Len(b) = header /\ b[5] = i
        BY <1>2, <2>2, <2>4 DEF Framed
    <3> QED
        BY <2>2, <2>4, <3>1, <3>2 DEF Framed
  <2>6. \A k \in 1..Len(t) : b[4 + IdLen + k] = t[k]
      BY <2>2, <2>4 DEF Framed
  <2>7. PICK d : d = b \o Payload(n)
      OBVIOUS
  <2>8. d \in Seq(Nat) /\ Len(d) = header + n /\ \A k \in 1..header : d[k] = b[k]
    <3>1. PICK p \in Seq(Nat) : p = Payload(n) /\ Len(p) = n
        BY PayloadIs
    <3>2. Joined(d, b, p)
        BY <2>5, <2>7, <3>1, Concatenation
    <3> QED
        BY <2>5, <3>1, <3>2 DEF Joined
  <2>9. d[1] = 0 /\ d[2] = flags /\ d[3] = 60 /\ d[4] = l /\ d[5] = i
    <3>1. /\ 1 \in 1..header /\ 2 \in 1..header /\ 3 \in 1..header /\ 4 \in 1..header
          /\ 5 \in 1..header
        BY <1>2
    <3> QED
        BY <2>5, <2>8, <3>1
  <2>10. SubSeq(d, 5 + IdLen, header) = t
    <3>1. ASSUME NEW k \in 1..Len(t) PROVE d[5 + IdLen + k - 1] = t[k]
      <4>1. k \in 1..Len(t)
          OBVIOUS
      <4>2. 5 + IdLen + k - 1 = 4 + IdLen + k /\ 4 + IdLen + k \in 1..header
          BY ONLY <1>2, <4>1
      <4> QED
          BY <2>6, <2>8, <4>1, <4>2
    <3>2. 5 + IdLen \in Nat \ {0} /\ header = 5 + IdLen + Len(t) - 1
        BY ONLY <1>2
    <3>3. header <= Len(d)
        BY <1>2, <2>8
    <3> QED
        BY <1>2, <2>8, <3>1, <3>2, <3>3, PartOfCells
  <2>11. DemuxV3(d) = UnmarshalRegistration(d)
      BY <2>9 DEF DemuxV3
  <2>12. UnmarshalRegistration(d)
           = Registration(i, v6, t, traced, [seconds |-> l, fraction |-> FALSE], n)
    <3>1. header = IF flags % 2 = 1 THEN V6Header ELSE V4Header
        BY <1>1, <2>1
    <3>2. n = IF flags \div 4 = 1 /\ Len(d) >= header THEN Len(d) - header ELSE 0
      <4>1. header \in Nat /\ Len(d) = header + n
          BY <1>2, <2>8
      <4>2. flags \div 4 = 1 <=> n > 0
          BY <2>1
      <4>3. Len(d) >= header /\ Len(d) - header = n
          BY ONLY <4>1
      <4> QED
          BY <4>2, <4>3
    <3> QED
        BY <2>1, <2>9, <2>10, <3>1, <3>2 DEF UnmarshalRegistration, Registration
  <2>13. MarshalRegistration(m) = d
      BY <1>1, <1>2, <1>4, <1>6, <1>7, <2>1, <2>2, <2>3, <2>7 DEF MarshalRegistration
  <2> QED
      BY <1>3, <1>7, <2>8, <2>11, <2>12, <2>13
<1> QED
    BY <1>5, <1>6

\* The message that arrives: a hint has lost its fraction and what a uint16 does not hold.
Arrives(m) ==
    IF m.kind = "registration"
    THEN [m EXCEPT !.idle = [seconds |-> IdleHint(m.idle), fraction |-> FALSE]]
    ELSE m

\* What datagrams v3 write is read as it was, but for the hint.
EncodeV3(m) ==
    CASE m.kind = "registration" -> MarshalRegistration(m)
      [] m.kind = "payload" -> MarshalPayload(m)
      [] m.kind = "response" -> MarshalResponse(m)
      [] OTHER -> MarshalICMP(m)

LEMMA ReadsV3 ==
    ASSUME NEW m \in V3Messages
    PROVE  LET d == EncodeV3(m) IN d \in Seq(Nat) /\ (d # <<>> => DemuxV3(d) = Arrives(m))
<1>1. Ids \subseteq Nat /\ Lens \subseteq Nat
    BY WireAssumption DEF Lens
<1>2. CASE m \in [kind : {"registration"}, id : Ids, dest : TargetAddresses, port : {60},
                  traced : BOOLEAN, idle : [seconds : Hints, fraction : BOOLEAN], n : Lens]
  <2>1. PICK i \in Nat, a \in TargetAddresses, traced \in BOOLEAN, s \in Nat, f \in BOOLEAN,
             n \in Nat :
            m = [kind |-> "registration", id |-> i, dest |-> a, port |-> 60,
                 traced |-> traced, idle |-> [seconds |-> s, fraction |-> f], n |-> n]
    <3>1. m = [kind |-> "registration", id |-> m.id, dest |-> m.dest, port |-> 60,
               traced |-> m.traced, idle |-> m.idle, n |-> m.n]
        BY <1>2
    <3>2. /\ m.id \in Ids /\ m.dest \in TargetAddresses /\ m.traced \in BOOLEAN
          /\ m.idle \in [seconds : Hints, fraction : BOOLEAN] /\ m.n \in Lens
        BY <1>2
    <3>3. PICK s \in Hints, f \in BOOLEAN : m.idle = [seconds |-> s, fraction |-> f]
        BY <3>2
    <3>4. m.id \in Nat /\ m.n \in Nat /\ s \in Nat
        BY <1>1, <3>2, WireAssumption
    <3> QED
        BY <3>1, <3>2, <3>3, <3>4
  <2>2. PICK v6 \in BOOLEAN, t \in Seq(Nat) :
            a = [v6 |-> v6, cells |-> t] /\ Len(t) = IF v6 THEN 2 ELSE 1
    <3>1. /\ <<70>> \in Seq(Nat) /\ Len(<<70>>) = 1
          /\ <<80, 81>> \in Seq(Nat) /\ Len(<<80, 81>>) = 2
        OBVIOUS
    <3> QED
        BY <3>1 DEF TargetAddresses
  <2>4. PICK idle : idle = [seconds |-> s, fraction |-> f]
      OBVIOUS
  <2>5. IdleHint(idle) \in Nat
      BY <2>1, <2>4 DEF IdleHint
  <2>6. PICK r : r = [seconds |-> IdleHint(idle), fraction |-> FALSE]
      OBVIOUS
  <2>7. m = Registration(i, v6, t, traced, idle, n)
      BY <2>1, <2>2, <2>4 DEF Registration
  <2>8. m.kind = "registration" /\ m.idle = idle
      BY <2>7 DEF Registration
  <2>9. Arrives(m) = Registration(i, v6, t, traced, r, n)
      BY <2>6, <2>7, <2>8 DEF Arrives, Registration
  <2>3. LET d == MarshalRegistration(m)
        IN  d \in Seq(Nat) /\ (d # <<>> => DemuxV3(d) = Arrives(m))
      BY <2>2, <2>5, <2>6, <2>7, <2>9, ReadsRegistration
  <2> QED
      BY <2>3, <2>8 DEF EncodeV3
<1>3. CASE m \in [kind : {"payload"}, id : Ids, n : Lens]
  <2>1. PICK i \in Nat, n \in Nat : m = [kind |-> "payload", id |-> i, n |-> n]
      BY <1>1, <1>3
  <2>2. LET d == MarshalPayload(m) IN d \in Seq(Nat) /\ (d # <<>> => DemuxV3(d) = m)
      BY <2>1, ReadsPayload
  <2> QED
      BY <2>1, <2>2 DEF EncodeV3, Arrives
<1>4. CASE m \in [kind : {"icmp"}, n : Lens]
  <2>1. PICK n \in Nat : m = [kind |-> "icmp", n |-> n]
      BY <1>1, <1>4
  <2>2. LET d == MarshalICMP(m) IN d \in Seq(Nat) /\ (d # <<>> => DemuxV3(d) = m)
      BY <2>1, ReadsICMP
  <2> QED
      BY <2>1, <2>2 DEF EncodeV3, Arrives
<1>5. CASE m \in [kind : {"response"}, id : Ids, type : ResponseTypes, n : Lens]
  <2>1. PICK i \in Nat, type \in Nat, n \in Nat :
            m = [kind |-> "response", id |-> i, type |-> type, n |-> n]
    <3>1. ResponseTypes \subseteq Nat
        BY DEF ResponseTypes
    <3> QED
        BY <1>1, <1>5, <3>1
  <2>2. LET d == MarshalResponse(m) IN d \in Seq(Nat) /\ (d # <<>> => DemuxV3(d) = m)
      BY <2>1, ReadsResponse
  <2> QED
      BY <2>1, <2>2 DEF EncodeV3, Arrives
<1> QED
    BY <1>2, <1>3, <1>4, <1>5 DEF V3Messages

-----------------------------------------------------------------------------
\* Headers: what InOrder, Split and SerializeHeaders compute.

Rising(s) == \A i, j \in DOMAIN s : i < j => s[i] < s[j]

\* A rising enumeration of a set of numbers is the only one, hence InOrder's.
LEMMA InOrderIs ==
    ASSUME NEW n \in Nat, NEW K, K \subseteq Nat, NEW f \in [1..n -> K], Rising(f),
           \A x \in K : \E k \in 1..n : f[k] = x
    PROVE  InOrder(K) = f
<1>1. f \in Surjection(1..n, K) /\ f \in Injection(1..n, K)
  <2>1. ASSUME NEW i \in 1..n, NEW j \in 1..n, f[i] = f[j] PROVE i = j
    <3>1. f[i] \in Nat /\ f[j] \in Nat
        OBVIOUS
    <3>2. ~(f[i] < f[j]) /\ ~(f[j] < f[i])
        BY <2>1, <3>1
    <3>3. ~(i < j) /\ ~(j < i)
        BY <3>2 DEF Rising
    <3> QED
        BY <3>3
  <2> QED
      BY <2>1 DEF Surjection, Injection, IsInjective
<1>2. IsFiniteSet(1..n) /\ Cardinality(1..n) = n
  <2>1. 1 \in Int /\ n \in Int
      OBVIOUS
  <2>2. n = n - 1 + 1 /\ (1 <= n \/ n = 0)
      OBVIOUS
  <2>3. IsFiniteSet(1..n) /\ Cardinality(1..n) = IF 1 > n THEN 0 ELSE n - 1 + 1
      BY <2>1, FS_Interval
  <2> QED
      BY <2>2, <2>3
<1>3. IsFiniteSet(K) /\ Cardinality(K) = n
    BY <1>1, <1>2, FS_Surjection
<1> DEFINE Fits(s) == s \in [1..n -> K] /\ \A i, j \in 1..n : i < j => s[i] < s[j]
<1>4. Fits(f)
    BY DEF Rising
<1>5. InOrder(K) = CHOOSE s \in [1..n -> K] : \A i, j \in 1..n : i < j => s[i] < s[j]
    BY <1>3 DEF InOrder
<1>6. PICK g : g = InOrder(K) /\ Fits(g)
    BY <1>4, <1>5
<1>7. ASSUME NEW i \in 1..n, NEW j \in 1..n, g[i] = g[j] PROVE i = j
  <2>1. g[i] \in Nat /\ g[j] \in Nat
      BY <1>6
  <2>2. ~(i < j) /\ ~(j < i)
      BY <1>6, <1>7, <2>1
  <2> QED
      BY <2>2
<1>8. \A x \in K : \E k \in 1..n : g[k] = x
  <2>1. g \in Injection(1..n, K)
      BY <1>6, <1>7 DEF Injection, IsInjective
  <2>2. g \in Surjection(1..n, K)
      BY <1>2, <1>3, <2>1, FS_Injection
  <2> QED
      BY <2>2 DEF Surjection
<1>9. ASSUME NEW S, S = {k \in 1..n : g[k] # f[k]}, S # {} PROVE FALSE
  <2>1. PICK k \in S : \A j \in S : k <= j
    <3>1. S \subseteq Nat /\ S # {}
        BY <1>9
    <3>2. Min(S) \in S /\ \A j \in S : Min(S) <= j
        BY <3>1, LeastOfNumbers
    <3> QED
        BY <3>2
  <2>2. k \in 1..n /\ g[k] # f[k] /\ g[k] \in K /\ f[k] \in K /\ g[k] \in Nat /\ f[k] \in Nat
      BY <1>6, <1>9
  <2>3. ASSUME NEW j \in 1..n, j < k PROVE g[j] = f[j]
      BY <1>9, <2>1, <2>2, <2>3
  <2>4. CASE g[k] < f[k]
    <3>1. PICK j \in 1..n : f[j] = g[k]
        BY <2>2
    <3>2. ~(k < j) /\ j # k
        BY <2>2, <2>4, <3>1 DEF Rising
    <3>3. j < k
        BY <2>2, <3>2
    <3>4. g[j] = g[k]
        BY <2>3, <3>1, <3>3
    <3> QED
        BY <1>7, <2>2, <3>3, <3>4
  <2>5. CASE f[k] < g[k]
    <3>1. PICK j \in 1..n : g[j] = f[k]
        BY <1>8, <2>2
    <3>2. ~(k < j) /\ j # k
        BY <1>6, <2>2, <2>5, <3>1
    <3>3. j < k
        BY <2>2, <3>2
    <3>4. f[j] = f[k] /\ f[j] < f[k]
        BY <2>2, <2>3, <3>1, <3>3 DEF Rising
    <3> QED
        BY <2>2, <3>4
  <2> QED
      BY <2>2, <2>4, <2>5
<1>10. \A k \in 1..n : g[k] = f[k]
  <2>1. {k \in 1..n : g[k] # f[k]} = {}
      BY <1>9
  <2> QED
      BY <2>1
<1>11. g = f
    BY <1>6, <1>10
<1> QED
    BY <1>6, <1>11

Cuts(s, c) == {k \in 1..Len(s) : s[k] = c} \cup {0, Len(s) + 1}
Without(w, c) == \A k \in 1..Len(w) : w[k] # c
Enumerates(f, n, K) == f \in [1..n -> K] /\ Rising(f) /\ \A x \in K : \E k \in 1..n : f[k] = x
Between(s, f, n) == [k \in 1..n |-> SubSeq(s, f[k] + 1, f[k + 1] - 1)]

\* words are what is between the separators of s.
SplitsTo(s, c, words) ==
    \E n \in Nat : \E f : Enumerates(f, n + 1, Cuts(s, c)) /\ words = Between(s, f, n)

LEMMA SplitIs ==
    ASSUME NEW s \in Seq(Nat), NEW c, NEW words, SplitsTo(s, c, words)
    PROVE  Split(s, c) = words
<1>0. PICK n \in Nat : \E f : Enumerates(f, n + 1, Cuts(s, c)) /\ words = Between(s, f, n)
    BY DEF SplitsTo
<1>1. PICK f : Enumerates(f, n + 1, Cuts(s, c)) /\ words = Between(s, f, n)
    BY <1>0
<1>2. Cuts(s, c) \subseteq Nat
    BY DEF Cuts
<1>3. InOrder(Cuts(s, c)) = f
  <2>1. n + 1 \in Nat /\ f \in [1..n + 1 -> Cuts(s, c)] /\ Rising(f)
        /\ \A x \in Cuts(s, c) : \E k \in 1..n + 1 : f[k] = x
      BY <1>1 DEF Enumerates
  <2> QED
      BY <1>2, <2>1, InOrderIs
<1>4. Len(f) - 1 = n
    BY <1>1 DEF Enumerates
<1>5. Split(s, c) = [k \in 1..Len(f) - 1 |-> SubSeq(s, f[k] + 1, f[k + 1] - 1)]
    BY <1>3 DEF Split, Cuts
<1> QED
    BY <1>1, <1>4, <1>5 DEF Between

LEMMA OneWord ==
    ASSUME NEW w \in Seq(Nat), NEW c, Without(w, c)
    PROVE  SplitsTo(w, c, <<w>>)
<1>1. PICK l \in Nat : l = Len(w)
    OBVIOUS
<1>2. Cuts(w, c) = {0, l + 1}
    BY <1>1 DEF Cuts, Without
<1>3. PICK f : f = [k \in 1..2 |-> IF k = 1 THEN 0 ELSE l + 1]
    OBVIOUS
<1>4. f[1] = 0 /\ f[2] = l + 1 /\ f \in [1..2 -> {0, l + 1}]
    BY <1>3
<1>5. Rising(f)
    BY <1>1, <1>3, <1>4 DEF Rising
<1>6. Enumerates(f, 2, Cuts(w, c))
    BY <1>2, <1>4, <1>5 DEF Enumerates
<1>7. SubSeq(w, 1, l) = w
    BY <1>1
<1>8. Between(w, f, 1) = <<w>>
  <2>1. SubSeq(w, f[1] + 1, f[1 + 1] - 1) = w
    <3>1. f[1] + 1 = 1 /\ f[1 + 1] - 1 = l
        BY <1>1, <1>4
    <3> QED
        BY <1>7, <3>1
  <2>2. Between(w, f, 1) = [k \in 1..1 |-> w]
      BY <2>1 DEF Between
  <2> QED
      BY <2>2
<1>9. 1 \in Nat /\ 1 + 1 = 2
    OBVIOUS
<1> QED
    BY <1>6, <1>8, <1>9 DEF SplitsTo

\* t begins as s, which has l cells.
Begins(t, s, l) == l = Len(s) /\ l <= Len(t) /\ \A k \in 1..l : t[k] = s[k]

SameParts(t, s, l) ==
    \A i \in Nat, j \in Int :
        1 <= i /\ i <= j + 1 /\ j <= l => SubSeq(t, i, j) = SubSeq(s, i, j)

LEMMA SamePart ==
    ASSUME NEW s \in Seq(Nat), NEW t \in Seq(Nat), NEW l \in Nat, Begins(t, s, l)
    PROVE  SameParts(t, s, l)
<1> SUFFICES ASSUME NEW from \in Nat, NEW to \in Int, 1 <= from, from <= to + 1, to <= l
             PROVE  SubSeq(t, from, to) = SubSeq(s, from, to)
    BY DEF SameParts
<1>1. PICK n \in Nat : n = to - from + 1
    OBVIOUS
<1>2. ASSUME NEW k \in 1..n PROVE t[from + k - 1] = s[from + k - 1]
  <2>1. from + k - 1 \in 1..l
      BY <1>1
  <2> QED
      BY <2>1 DEF Begins
<1>3. SubSeq(t, from, to) = [k \in 1..n |-> t[from + k - 1]]
    BY <1>1
<1>4. SubSeq(s, from, to) = [k \in 1..n |-> s[from + k - 1]]
    BY <1>1 DEF Begins
<1> QED
    BY <1>2, <1>3, <1>4

LEMMA OneAppended ==
    ASSUME NEW n \in Nat, NEW u, DOMAIN u = 1..n, u = [k \in 1..n |-> u[k]], NEW w
    PROVE  Append(u, w) = [k \in 1..n + 1 |-> IF k = n + 1 THEN w ELSE u[k]]
  OBVIOUS

\* The words of s behind which a separator and one more word stand.
LEMMA OneWordMore ==
    ASSUME NEW s \in Seq(Nat), NEW c \in Nat, NEW w \in Seq(Nat), NEW words,
           SplitsTo(s, c, words), Without(w, c)
    PROVE  LET t == s \o <<c>> \o w
           IN  t \in Seq(Nat) /\ t # <<>> /\ SplitsTo(t, c, Append(words, w))
<1>0. PICK n \in Nat : \E f : Enumerates(f, n + 1, Cuts(s, c)) /\ words = Between(s, f, n)
    BY DEF SplitsTo
<1>1. PICK f : Enumerates(f, n + 1, Cuts(s, c)) /\ words = Between(s, f, n)
    BY <1>0
<1>2. PICK l \in Nat, m \in Nat : l = Len(s) /\ m = Len(w)
    OBVIOUS
<1>3. PICK t : t = s \o <<c>> \o w
    OBVIOUS
<1>4. /\ t \in Seq(Nat) /\ Len(t) = l + 1 + m
      /\ \A k \in 1..l : t[k] = s[k]
      /\ t[l + 1] = c
      /\ \A k \in 1..m : t[l + 1 + k] = w[k]
  <2>1. PICK q \in Seq(Nat) : q = <<c>> /\ Len(q) = 1 /\ q[1] = c
    <3>1. <<c>> \in Seq(Nat) /\ Len(<<c>>) = 1 /\ <<c>>[1] = c
        OBVIOUS
    <3> QED
        BY <3>1
  <2>2. PICK b : b = s \o q
      OBVIOUS
  <2>3. Joined(b, s, q)
      BY <2>2, Concatenation
  <2>4. b \in Seq(Nat) /\ Len(b) = l + 1 /\ (\A k \in 1..l : b[k] = s[k]) /\ b[l + 1] = c
    <3>1. 1 \in 1..Len(q)
        BY <2>1
    <3> QED
        BY <1>2, <2>1, <2>3, <3>1 DEF Joined
  <2>5. Joined(t, b, w)
      BY <1>3, <2>1, <2>2, <2>4, Concatenation
  <2>6. t \in Seq(Nat) /\ Len(t) = l + 1 + m /\ (\A k \in 1..l + 1 : t[k] = b[k])
      BY <1>2, <2>4, <2>5 DEF Joined
  <2>7. ASSUME NEW k \in 1..m PROVE t[l + 1 + k] = w[k]
      BY <1>2, <2>4, <2>5 DEF Joined
  <2>8. ASSUME NEW k \in 1..l PROVE t[k] = s[k]
      BY <1>2, <2>4, <2>6
  <2>9. l + 1 \in 1..l + 1
      BY <1>2
  <2> QED
      BY <2>4, <2>6, <2>7, <2>8, <2>9
<1>5. Cuts(t, c) = Cuts(s, c) \cup {l + m + 2}
  <2>1. ASSUME NEW k \in Nat
        PROVE  k \in Cuts(t, c) <=> k \in Cuts(s, c) \/ k = l + m + 2
    <3>1. CASE k = 0
        BY <3>1 DEF Cuts
    <3>2. CASE k \in 1..l
        BY <1>2, <1>4, <3>2 DEF Cuts
    <3>3. CASE k = l + 1
        BY <1>2, <1>4, <3>3 DEF Cuts
    <3>4. CASE k > l + 1 /\ k <= l + 1 + m
      <4>1. k - (l + 1) \in 1..m /\ k = l + 1 + (k - (l + 1))
          BY <1>2, <3>4
      <4>2. PICK j \in 1..m : k = l + 1 + j
          BY <4>1
      <4>3. t[k] = w[j] /\ w[j] # c
          BY <1>2, <1>4, <4>2 DEF Without
      <4> QED
          BY <1>2, <1>4, <3>4, <4>3 DEF Cuts
    <3>5. CASE k > l + 1 + m
        BY <1>2, <1>4, <3>5 DEF Cuts
    <3> QED
        BY <1>2, <3>1, <3>2, <3>3, <3>4, <3>5
  <2>2. Cuts(t, c) \subseteq Nat /\ Cuts(s, c) \subseteq Nat /\ l + m + 2 \in Nat
      BY <1>2, <1>4 DEF Cuts
  <2> QED
      BY <2>1, <2>2
<1>6. /\ f \in [1..n + 1 -> Cuts(s, c)] /\ Rising(f) /\ DOMAIN f = 1..n + 1
      /\ \A x \in Cuts(s, c) : \E k \in 1..n + 1 : f[k] = x
    BY <1>1 DEF Enumerates
<1>7. \A k \in 1..n + 1 : f[k] \in 0..l + 1
    BY <1>2, <1>6 DEF Cuts
<1>8. f[n + 1] = l + 1
  <2>1. PICK k \in 1..n + 1 : f[k] = l + 1
      BY <1>2, <1>6 DEF Cuts
  <2>2. n + 1 \in 1..n + 1
      OBVIOUS
  <2>3. k < n + 1 => f[k] < f[n + 1]
      BY <1>6, <2>2 DEF Rising
  <2> QED
      BY <1>2, <1>7, <2>1, <2>2, <2>3
<1>9. PICK g : g = [k \in 1..n + 2 |-> IF k = n + 2 THEN l + m + 2 ELSE f[k]]
    OBVIOUS
<1>10. g[n + 2] = l + m + 2 /\ \A k \in 1..n + 1 : g[k] = f[k]
    BY <1>9
<1>11. Enumerates(g, n + 2, Cuts(t, c))
  <2>1. g \in [1..n + 2 -> Cuts(t, c)]
    <3>1. ASSUME NEW k \in 1..n + 2 PROVE g[k] \in Cuts(t, c)
      <4>1. k = n + 2 \/ k \in 1..n + 1
          OBVIOUS
      <4> QED
          BY <1>5, <1>6, <1>10, <4>1
    <3> QED
        BY <1>9, <3>1
  <2>2. ASSUME NEW i \in 1..n + 2, NEW j \in 1..n + 2, i < j PROVE g[i] < g[j]
    <3>1. i \in 1..n + 1
        BY <2>2
    <3>2. CASE j = n + 2
        BY <1>2, <1>7, <1>10, <3>1, <3>2
    <3>3. CASE j # n + 2
      <4>1. j \in 1..n + 1
          BY <3>3
      <4> QED
          BY <1>6, <1>10, <2>2, <3>1, <4>1 DEF Rising
    <3> QED
        BY <3>2, <3>3
  <2>3. Rising(g)
      BY <1>9, <2>2 DEF Rising
  <2>4. ASSUME NEW x \in Cuts(t, c) PROVE \E k \in 1..n + 2 : g[k] = x
    <3>1. n + 2 \in 1..n + 2 /\ \A k \in 1..n + 1 : k \in 1..n + 2
        OBVIOUS
    <3>2. CASE x = l + m + 2
        BY <1>10, <3>1, <3>2
    <3>3. CASE x \in Cuts(s, c)
        BY <1>6, <1>10, <3>1, <3>3
    <3> QED
        BY <1>5, <3>2, <3>3
  <2> QED
      BY <2>1, <2>3, <2>4 DEF Enumerates
<1>12. ASSUME NEW k \in 1..n
       PROVE  SubSeq(t, g[k] + 1, g[k + 1] - 1) = SubSeq(s, f[k] + 1, f[k + 1] - 1)
  <2>1. k \in 1..n + 1 /\ k + 1 \in 1..n + 1
      OBVIOUS
  <2>2. PICK from, to : from = f[k] + 1 /\ to = f[k + 1] - 1
      OBVIOUS
  <2>3. from \in Nat /\ to \in Int /\ 1 <= from /\ from <= to + 1 /\ to <= l
    <3>1. f[k] \in 0..l + 1 /\ f[k + 1] \in 0..l + 1 /\ f[k] < f[k + 1]
        BY <1>6, <1>7, <2>1 DEF Rising
    <3>2. PICK x \in Int, y \in Int : x = f[k] /\ y = f[k + 1]
        BY <1>2, <3>1
    <3>3. from = x + 1 /\ to = y - 1 /\ 0 <= x /\ x < y /\ y <= l + 1
        BY <1>2, <2>2, <3>1, <3>2
    <3> QED
        BY <1>2, <3>3
  <2>4. SubSeq(t, from, to) = SubSeq(s, from, to)
    <3>1. t \in Seq(Nat) /\ Begins(t, s, l)
        BY <1>2, <1>4 DEF Begins
    <3>2. from \in Nat /\ to \in Int
        BY <2>3
    <3>3. 1 <= from /\ from <= to + 1 /\ to <= l
        BY <2>3
    <3>4. SameParts(t, s, l)
        BY <1>2, <3>1, SamePart
    <3> QED
        BY <3>2, <3>3, <3>4 DEF SameParts
  <2> QED
      BY <1>10, <2>1, <2>2, <2>4
<1>13. SubSeq(t, g[n + 1] + 1, g[n + 2] - 1) = w
  <2>1. n + 1 \in 1..n + 1
      OBVIOUS
  <2>2. g[n + 1] + 1 = l + 2 /\ g[n + 2] - 1 = l + m + 1
      BY <1>2, <1>8, <1>10, <2>1
  <2>3. ASSUME NEW k \in 1..Len(w) PROVE t[l + 2 + k - 1] = w[k]
    <3>1. l + 2 + k - 1 = l + 1 + k /\ k \in 1..m
        BY <1>2
    <3> QED
        BY <1>4, <3>1
  <2>4. SubSeq(t, l + 2, l + m + 1) = w
    <3>1. l + 2 \in Nat \ {0} /\ l + m + 1 = l + 2 + Len(w) - 1 /\ l + m + 1 <= Len(t)
        BY <1>2, <1>4
    <3>2. l + m + 1 \in Nat /\ t \in Seq(Nat)
        BY <1>2, <1>4
    <3> QED
        BY <2>3, <3>1, <3>2, PartOfCells
  <2> QED
      BY <2>2, <2>4
<1>14. Between(t, g, n + 1) = Append(words, w)
  <2>1. words = [k \in 1..n |-> SubSeq(s, f[k] + 1, f[k + 1] - 1)]
      BY <1>1 DEF Between
  <2>2. /\ DOMAIN words = 1..n
        /\ Append(words, w) = [k \in 1..n + 1 |-> IF k = n + 1 THEN w ELSE words[k]]
    <3>1. DOMAIN words = 1..n /\ words = [k \in 1..n |-> words[k]]
        BY <2>1
    <3> QED
        BY <3>1, OneAppended
  <2>3. ASSUME NEW k \in 1..n + 1
        PROVE  SubSeq(t, g[k] + 1, g[k + 1] - 1) = IF k = n + 1 THEN w ELSE words[k]
    <3>1. CASE k = n + 1
      <4>1. n + 1 + 1 = n + 2
          OBVIOUS
      <4> QED
          BY <1>13, <3>1, <4>1
    <3>2. CASE k # n + 1
      <4>1. k \in 1..n
          BY <3>2
      <4> QED
          BY <1>12, <2>1, <3>2, <4>1
    <3> QED
        BY <3>1, <3>2
  <2> QED
      BY <2>2, <2>3 DEF Between
<1>15. n + 1 \in Nat /\ n + 1 + 1 = n + 2
    OBVIOUS
<1>16. SplitsTo(t, c, Append(words, w))
    BY <1>11, <1>14, <1>15 DEF SplitsTo
<1>17. t # <<>>
    BY <1>2, <1>4
<1> QED
    BY <1>3, <1>4, <1>16, <1>17

ButLast(list) == SubSeq(list, 1, Len(list) - 1)
Following(s, h) == (IF s = <<>> THEN <<>> ELSE s \o <<Semicolon>>) \o Pair(h)
OneMore(f, list) == IF list = <<>> THEN <<>> ELSE Following(f[ButLast(list)], list[Len(list)])

LEMMA ListOfHeaders ==
    ASSUME NEW list \in HeaderLists
    PROVE  /\ list \in Seq(Headers) /\ Len(list) \in 0..MaxHeaders
           /\ list = <<>> <=> Len(list) = 0
           /\ list # <<>> => /\ ButLast(list) \in HeaderLists /\ Len(ButLast(list)) = Len(list) - 1
                             /\ list[Len(list)] \in Headers
                             /\ list = Append(ButLast(list), list[Len(list)])
<1>1. PICK n \in 0..MaxHeaders : list \in [1..n -> Headers]
    BY DEF HeaderLists
<1>2. MaxHeaders \in Nat
    BY WireAssumption
<1>3. list \in Seq(Headers) /\ Len(list) = n
    BY <1>1, <1>2
<1>4. ASSUME n # 0
      PROVE  /\ ButLast(list) \in HeaderLists /\ Len(ButLast(list)) = n - 1
             /\ list[n] \in Headers /\ list = Append(ButLast(list), list[n])
  <2>1. ButLast(list) = [k \in 1..n - 1 |-> list[k]]
      BY <1>1, <1>2, <1>3, <1>4 DEF ButLast
  <2>2. ButLast(list) \in [1..n - 1 -> Headers] /\ n - 1 \in 0..MaxHeaders
      BY <1>1, <1>2, <1>4, <2>1
  <2>3. ButLast(list) \in HeaderLists
      BY <2>2 DEF HeaderLists
  <2>4. Len(ButLast(list)) = n - 1 /\ ButLast(list) \in Seq(Headers)
      BY <1>2, <1>4, <2>2
  <2>5. list[n] \in Headers
      BY <1>1, <1>2, <1>4
  <2>6. list = Append(ButLast(list), list[n])
      BY <1>1, <1>3, <1>4, <2>1, <2>4, <2>5
  <2> QED
      BY <2>3, <2>4, <2>5, <2>6
<1>5. list = <<>> <=> n = 0
    BY <1>1, <1>3
<1> QED
    BY <1>2, <1>3, <1>4, <1>5

Serializes(f, n) ==
    /\ f = [list \in HeaderLists |-> f[list]]
    /\ \A list \in HeaderLists : Len(list) <= n => f[list] = OneMore(f, list)

\* The recursion of the loop over the headers has a solution, for it goes to shorter lists.
LEMMA SerializationExists ==
    ASSUME NEW n \in Nat
    PROVE  \E f : Serializes(f, n)
<1> DEFINE S == {k \in Nat : ~ \E f : Serializes(f, k)}
<1>1. SUFFICES ASSUME S # {} PROVE FALSE
    OBVIOUS
<1>2. PICK m \in Nat : m \in S /\ \A j \in S : m <= j
  <2>1. S \subseteq Nat
      OBVIOUS
  <2>2. Min(S) \in S /\ \A j \in S : Min(S) <= j
      BY <1>1, <2>1, LeastOfNumbers
  <2> QED
      BY <2>1, <2>2
<1>3. CASE m = 0
  <2>1. PICK f : f = [list \in HeaderLists |-> <<>>]
      OBVIOUS
  <2>2. ASSUME NEW list \in HeaderLists, Len(list) <= 0 PROVE f[list] = OneMore(f, list)
    <3>1. list = <<>>
        BY <2>2, ListOfHeaders
    <3> QED
        BY <2>1, <3>1 DEF OneMore
  <2>3. Serializes(f, 0)
      BY <2>1, <2>2 DEF Serializes
  <2> QED
      BY <1>2, <1>3, <2>3
<1>4. CASE m # 0
  <2>1. m - 1 \in Nat /\ ~(m <= m - 1)
      BY <1>4
  <2>2. PICK f : Serializes(f, m - 1)
      BY <1>2, <2>1
  <2>3. PICK g : g = [list \in HeaderLists |-> OneMore(f, list)]
      OBVIOUS
  <2>4. ASSUME NEW list \in HeaderLists, Len(list) <= m PROVE g[list] = OneMore(g, list)
    <3>1. g[list] = OneMore(f, list)
        BY <2>3
    <3>2. CASE list = <<>>
        BY <3>1, <3>2 DEF OneMore
    <3>3. CASE list # <<>>
      <4>1. ButLast(list) \in HeaderLists /\ Len(ButLast(list)) = Len(list) - 1 /\ Len(list) \in 0..MaxHeaders
          BY <3>3, ListOfHeaders
      <4>2. MaxHeaders \in Nat
          BY WireAssumption
      <4>3. Len(ButLast(list)) <= m - 1
          BY <2>4, <4>1, <4>2
      <4>4. f[ButLast(list)] = OneMore(f, ButLast(list))
          BY <2>2, <4>1, <4>3 DEF Serializes
      <4>5. g[ButLast(list)] = f[ButLast(list)]
          BY <2>3, <4>1, <4>4
      <4> QED
          BY <3>1, <3>3, <4>5 DEF OneMore
    <3> QED
        BY <3>2, <3>3
  <2>5. Serializes(g, m)
      BY <2>3, <2>4 DEF Serializes
  <2> QED
      BY <1>2, <2>5
<1> QED
    BY <1>3, <1>4

LEMMA SerializeHeadersIs ==
    ASSUME NEW list \in HeaderLists
    PROVE  SerializeHeaders[list] = OneMore(SerializeHeaders, list)
<1>1. MaxHeaders \in Nat
    BY WireAssumption
<1>2. PICK f : Serializes(f, MaxHeaders)
    BY <1>1, SerializationExists
<1>3. f = [l \in HeaderLists |-> OneMore(f, l)]
  <2>1. \A l \in HeaderLists : f[l] = OneMore(f, l)
    <3>1. ASSUME NEW l \in HeaderLists PROVE Len(l) <= MaxHeaders
        BY <1>1, ListOfHeaders
    <3> QED
        BY <1>2, <3>1 DEF Serializes
  <2>2. f = [l \in HeaderLists |-> f[l]]
      BY <1>2 DEF Serializes
  <2> QED
      BY <2>1, <2>2
<1>4. SerializeHeaders = CHOOSE g : g = [l \in HeaderLists |-> OneMore(g, l)]
    BY DEF SerializeHeaders, OneMore, Following, ButLast
<1>5. SerializeHeaders = [l \in HeaderLists |-> OneMore(SerializeHeaders, l)]
    BY <1>3, <1>4
<1> QED
    BY <1>5

LEMMA NoneInEither ==
    ASSUME NEW d, NEW p \in Seq(Nat), NEW q \in Seq(Nat), NEW c, Joined(d, p, q),
           Without(p, c), Without(q, c)
    PROVE  Without(d, c)
<1>1. SUFFICES ASSUME NEW k \in 1..Len(d) PROVE d[k] # c
    BY DEF Without
<1>2. PICK m \in Nat, n \in Nat : m = Len(p) /\ n = Len(q)
    OBVIOUS
<1>3. Len(d) = m + n
    BY <1>2 DEF Joined
<1>4. CASE k <= m
  <2>1. k \in 1..m
      BY <1>2, <1>3, <1>4
  <2> QED
      BY <1>2, <2>1 DEF Joined, Without
<1>5. CASE k > m
  <2>1. PICK j \in 1..n : k = m + j
    <3>1. k - m \in 1..n /\ k = m + (k - m)
        BY <1>2, <1>3, <1>5
    <3> QED
        BY <3>1
  <2> QED
      BY <1>2, <2>1 DEF Joined, Without
<1> QED
    BY <1>2, <1>3, <1>4, <1>5

LEMMA TwoWords ==
    ASSUME NEW x, NEW y
    PROVE  Append(<<x>>, y) = <<x, y>>
<1>1. PICK u : u = <<x>> /\ Len(u) = 1 /\ u[1] = x
  <2>1. Len(<<x>>) = 1 /\ <<x>>[1] = x
    OBVIOUS
  <2> QED BY <2>1
<1>2. DOMAIN u = 1..1 /\ u = [k \in 1..1 |-> u[k]]
  BY <1>1
<1>3. Append(u, y) = [k \in 1..2 |-> IF k = 2 THEN y ELSE u[k]]
  BY <1>2
<1>4. [k \in 1..2 |-> IF k = 2 THEN y ELSE u[k]] = <<x, y>>
  BY <1>1
<1> QED BY <1>1, <1>3, <1>4

\* A pair is not empty, has no ";", and its name and value are what ":" separates.
LEMMA PairIs ==
    ASSUME NEW h \in Headers
    PROVE  /\ Pair(h) \in Seq(Nat) /\ Pair(h) # <<>> /\ Without(Pair(h), Semicolon)
           /\ Split(Pair(h), Colon) = <<h.name, h.value>>
<1>1. PICK x, y : x = h.name /\ y = h.value
    OBVIOUS
<1>2. ASSUME NEW w \in Words PROVE w \in Seq(Nat) /\ Without(w, Colon) /\ Without(w, Semicolon)
  <2>1. w \in Seq(Nat \ {Colon, Semicolon})
      BY WireAssumption
  <2>2. \A k \in 1..Len(w) : w[k] \in Nat /\ w[k] # Colon /\ w[k] # Semicolon
      BY <2>1
  <2>3. w \in Seq(Nat)
      BY <2>1
  <2> QED
      BY <2>2, <2>3 DEF Without
<1>3. /\ x \in Seq(Nat) /\ Without(x, Colon) /\ Without(x, Semicolon)
      /\ y \in Seq(Nat) /\ Without(y, Colon) /\ Without(y, Semicolon)
  <2>1. x \in Words /\ y \in Words
      BY <1>1 DEF Headers
  <2> QED
      BY <1>2, <2>1
<1>4. PICK p : p = Pair(h)
    OBVIOUS
<1>5. p = x \o <<Colon>> \o y
    BY <1>1, <1>4 DEF Pair
<1>6. Colon \in Nat /\ Semicolon \in Nat /\ Colon # Semicolon
    BY DEF Colon, Semicolon
<1>7. SplitsTo(x, Colon, <<x>>)
    BY <1>3, <1>6, OneWord
<1>8. p \in Seq(Nat) /\ p # <<>> /\ SplitsTo(p, Colon, Append(<<x>>, y))
    BY <1>3, <1>5, <1>6, <1>7, OneWordMore
<1>9. Split(p, Colon) = Append(<<x>>, y)
    BY <1>8, SplitIs
<1>10. Append(<<x>>, y) = <<x, y>>
    BY TwoWords
<1>11. Without(p, Semicolon)
  <2>1. PICK q \in Seq(Nat) : q = <<Colon>> /\ Len(q) = 1 /\ q[1] = Colon
    <3>1. <<Colon>> \in Seq(Nat) /\ Len(<<Colon>>) = 1 /\ <<Colon>>[1] = Colon
        BY <1>6
    <3> QED
        BY <3>1
  <2>2. PICK b : b = x \o q
      OBVIOUS
  <2>3. Joined(b, x, q)
      BY <1>3, <2>2, Concatenation
  <2>4. b \in Seq(Nat) /\ p = b \o y
      BY <1>5, <2>1, <2>2, <2>3 DEF Joined
  <2>5. Joined(p, b, y)
      BY <1>3, <2>4, Concatenation
  <2>6. Without(q, Semicolon)
      BY <1>6, <2>1 DEF Without
  <2>7. Without(b, Semicolon)
      BY <1>3, <2>3, <2>6, NoneInEither
  <2> QED
      BY <1>3, <2>4, <2>5, <2>7, NoneInEither
<1> QED
    BY <1>1, <1>4, <1>8, <1>9, <1>10, <1>11

Pairs(list) == [k \in 1..Len(list) |-> Pair(list[k])]
Serialized(s, list) ==
    s \in Seq(Nat) /\ s # <<>> /\ SplitsTo(s, Semicolon, Pairs(list))

\* One header more is one pair more.
LEMMA OnePairMore ==
    ASSUME NEW l, NEW h \in Headers, l \in Seq(Headers), NEW s, Serialized(s, l)
    PROVE  Serialized(Following(s, h), Append(l, h))
<1>1. Pair(h) \in Seq(Nat) /\ Without(Pair(h), Semicolon)
    BY PairIs
<1>2. Semicolon \in Nat
    BY DEF Semicolon
<1>3. s \in Seq(Nat) /\ s # <<>> /\ SplitsTo(s, Semicolon, Pairs(l))
    BY DEF Serialized
<1>4. PICK t : t = s \o <<Semicolon>> \o Pair(h)
    OBVIOUS
<1>5. t \in Seq(Nat) /\ t # <<>> /\ SplitsTo(t, Semicolon, Append(Pairs(l), Pair(h)))
    BY <1>1, <1>2, <1>3, <1>4, OneWordMore
<1>6. t = Following(s, h)
    BY <1>3, <1>4 DEF Following
<1>7. Append(Pairs(l), Pair(h)) = Pairs(Append(l, h))
  <2>1. PICK n \in Nat : n = Len(l)
      OBVIOUS
  <2>2. PICK u : u = Pairs(l)
      OBVIOUS
  <2>3. DOMAIN u = 1..n /\ u = [k \in 1..n |-> u[k]] /\ \A k \in 1..n : u[k] = Pair(l[k])
      BY <2>1, <2>2 DEF Pairs
  <2>4. Append(u, Pair(h)) = [k \in 1..n + 1 |-> IF k = n + 1 THEN Pair(h) ELSE u[k]]
      BY <2>3, OneAppended
  <2>5. PICK m : m = Append(l, h)
      OBVIOUS
  <2>6. Len(m) = n + 1 /\ m[n + 1] = h /\ \A k \in 1..n : m[k] = l[k]
      BY <2>1, <2>5
  <2>7. ASSUME NEW k \in 1..n + 1
        PROVE  Pair(m[k]) = IF k = n + 1 THEN Pair(h) ELSE u[k]
    <3>1. k = n + 1 \/ k \in 1..n
        OBVIOUS
    <3>2. ASSUME k \in 1..n PROVE k # n + 1 /\ Pair(m[k]) = u[k]
        BY <2>3, <2>6, <3>2
    <3>3. k = n + 1 => Pair(m[k]) = Pair(h)
        BY <2>6
    <3> QED
        BY <3>1, <3>2, <3>3
  <2>8. Pairs(m) = [k \in 1..n + 1 |-> IF k = n + 1 THEN Pair(h) ELSE u[k]]
      BY <2>6, <2>7 DEF Pairs
  <2> QED
      BY <2>2, <2>4, <2>5, <2>8
<1> QED
    BY <1>5, <1>6, <1>7 DEF Serialized

LEMMA OnePair ==
    ASSUME NEW l, NEW h \in Headers, l = <<>>
    PROVE  Serialized(Following(<<>>, h), Append(l, h))
<1>1. Pair(h) \in Seq(Nat) /\ Pair(h) # <<>> /\ Without(Pair(h), Semicolon)
    BY PairIs
<1>2. Semicolon \in Nat
    BY DEF Semicolon
<1>3. SplitsTo(Pair(h), Semicolon, <<Pair(h)>>)
    BY <1>1, <1>2, OneWord
<1>4. Following(<<>>, h) = Pair(h)
    BY <1>1 DEF Following
<1>5. Pairs(Append(l, h)) = <<Pair(h)>>
  <2>1. Append(l, h) = <<h>>
      OBVIOUS
  <2>2. PICK m : m = <<h>> /\ Len(m) = 1 /\ m[1] = h
    <3>1. Len(<<h>>) = 1 /\ <<h>>[1] = h
        OBVIOUS
    <3> QED
        BY <3>1
  <2>3. Pairs(m) = [k \in 1..1 |-> Pair(h)]
      BY <2>2 DEF Pairs
  <2>4. [k \in 1..1 |-> Pair(h)] = <<Pair(h)>>
      OBVIOUS
  <2> QED
      BY <2>1, <2>2, <2>3, <2>4
<1> QED
    BY <1>1, <1>3, <1>4, <1>5 DEF Serialized

\* What the loop over the headers writes is its pairs with ";" between them.
LEMMA SerializedList ==
    ASSUME NEW list \in HeaderLists, list # <<>>
    PROVE  Serialized(SerializeHeaders[list], list)
<1> DEFINE Bad == {l \in HeaderLists : l # <<>> /\ ~Serialized(SerializeHeaders[l], l)}
           S == {Len(l) : l \in Bad}
<1>1. SUFFICES ASSUME Bad # {} PROVE FALSE
    OBVIOUS
<1>2. S \subseteq Nat /\ S # {}
  <2>1. ASSUME NEW l \in HeaderLists PROVE Len(l) \in Nat
      BY ListOfHeaders, WireAssumption
  <2> QED
      BY <1>1, <2>1
<1>3. Min(S) \in S /\ \A j \in S : Min(S) <= j
    BY <1>2, LeastOfNumbers
<1>4. PICK l \in Bad : Len(l) = Min(S)
    BY <1>3
<1>5. \A m \in Bad : Len(l) <= Len(m)
    BY <1>3, <1>4
<1>6. l \in HeaderLists /\ l # <<>> /\ ~Serialized(SerializeHeaders[l], l)
    BY <1>4
<1>7. PICK m, h : m = ButLast(l) /\ h = l[Len(l)]
    OBVIOUS
<1>8. /\ m \in HeaderLists /\ Len(m) = Len(l) - 1 /\ h \in Headers /\ l = Append(m, h)
      /\ Len(l) \in 0..MaxHeaders
    BY <1>6, <1>7, ListOfHeaders
<1>9. m \in Seq(Headers) /\ Len(l) \in Nat
    BY <1>8, ListOfHeaders, WireAssumption
<1>10. SerializeHeaders[l] = Following(SerializeHeaders[m], h)
    BY <1>6, <1>7, SerializeHeadersIs DEF OneMore
<1>11. CASE m = <<>>
  <2>1. SerializeHeaders[m] = <<>>
      BY <1>8, <1>11, SerializeHeadersIs DEF OneMore
  <2> QED
      BY <1>6, <1>8, <1>10, <1>11, <2>1, OnePair
<1>12. CASE m # <<>>
  <2>1. m \notin Bad
      BY <1>5, <1>8, <1>9
  <2>2. Serialized(SerializeHeaders[m], m)
      BY <1>8, <1>12, <2>1
  <2> QED
      BY <1>6, <1>8, <1>9, <1>10, <2>2, OnePairMore
<1> QED
    BY <1>11, <1>12

Full(pairs) == InOrder({k \in 1..Len(pairs) : pairs[k] # <<>>})
WordsOf(pairs, full) == [k \in 1..Len(full) |-> Split(pairs[full[k]], Colon)]
ListOf(words) ==
    IF \E k \in 1..Len(words) : Len(words[k]) # 2 THEN Unread
    ELSE [kind |-> "headers",
          list |-> [k \in 1..Len(words) |-> [name |-> words[k][1], value |-> words[k][2]]]]

\* The list that was folded is the list that is read.
LEMMA ReadsHeaders ==
    ASSUME NEW list \in HeaderLists, list # <<>>
    PROVE  DeserializeHeaders(SerializeHeaders[list]) = [kind |-> "headers", list |-> list]
<1>1. PICK s : s = SerializeHeaders[list]
    OBVIOUS
<1>2. s \in Seq(Nat) /\ SplitsTo(s, Semicolon, Pairs(list))
    BY <1>1, SerializedList DEF Serialized
<1>3. Split(s, Semicolon) = Pairs(list)
    BY <1>2, SplitIs
<1>4. PICK n \in Nat : n = Len(list)
    BY ListOfHeaders
<1>5. list \in [1..n -> Headers]
    BY <1>4, ListOfHeaders
<1>6. PICK p : p = Pairs(list)
    OBVIOUS
<1>7. Len(p) = n /\ \A k \in 1..n : p[k] = Pair(list[k])
    BY <1>4, <1>6 DEF Pairs
<1>8. \A k \in 1..n : p[k] # <<>> /\ Split(p[k], Colon) = <<list[k].name, list[k].value>>
  <2>1. ASSUME NEW k \in 1..n PROVE p[k] # <<>> /\ Split(p[k], Colon) = <<list[k].name, list[k].value>>
    <3>1. list[k] \in Headers
        BY <1>5
    <3> QED
        BY <1>7, <3>1, PairIs
  <2> QED
      BY <2>1
<1>9. {k \in 1..Len(p) : p[k] # <<>>} = 1..n
    BY <1>7, <1>8
<1>10. PICK f : f = [k \in 1..n |-> k]
    OBVIOUS
<1>11. InOrder(1..n) = f
  <2>1. 1..n \subseteq Nat /\ f \in [1..n -> 1..n]
      BY <1>10
  <2>2. Rising(f)
      BY <1>10 DEF Rising
  <2>3. \A x \in 1..n : \E k \in 1..n : f[k] = x
      BY <1>10
  <2> QED
      BY <2>1, <2>2, <2>3, InOrderIs
<1>12. PICK words : words = [k \in 1..n |-> <<list[k].name, list[k].value>>]
    OBVIOUS
<1>13. [k \in 1..Len(f) |-> Split(p[f[k]], Colon)] = words
  <2>1. Len(f) = n /\ \A k \in 1..n : f[k] = k
      BY <1>10
  <2>2. \A k \in 1..n : Split(p[f[k]], Colon) = <<list[k].name, list[k].value>>
      BY <1>8, <2>1
  <2> QED
      BY <1>12, <2>1, <2>2
<1>14. Len(words) = n /\ \A k \in 1..n : words[k] = <<list[k].name, list[k].value>>
    BY <1>12
<1>15. ~ \E k \in 1..Len(words) : Len(words[k]) # 2
  <2>1. ASSUME NEW k \in 1..n PROVE Len(words[k]) = 2
    <3>1. Len(<<list[k].name, list[k].value>>) = 2
        OBVIOUS
    <3> QED
        BY <1>14, <3>1
  <2> QED
      BY <1>14, <2>1
<1>16. [k \in 1..Len(words) |-> [name |-> words[k][1], value |-> words[k][2]]] = list
  <2>1. ASSUME NEW k \in 1..n PROVE [name |-> words[k][1], value |-> words[k][2]] = list[k]
    <3>1. list[k] \in Headers
        BY <1>5
    <3>2. list[k] = [name |-> list[k].name, value |-> list[k].value]
        BY <3>1 DEF Headers
    <3>3. words[k][1] = list[k].name /\ words[k][2] = list[k].value
        BY <1>14
    <3> QED
        BY <3>2, <3>3
  <2> QED
      BY <1>5, <1>14, <2>1
<1>17. DeserializeHeaders(s) = ListOf(words)
  <2>1. DeserializeHeaders(s) =
            ListOf(WordsOf(Split(s, Semicolon), Full(Split(s, Semicolon))))
      BY DEF DeserializeHeaders, ListOf, WordsOf, Full
  <2>2. Full(p) = f
      BY <1>9, <1>11 DEF Full
  <2>3. WordsOf(p, f) = words
      BY <1>13 DEF WordsOf
  <2> QED
      BY <1>3, <1>6, <2>1, <2>2, <2>3
<1>18. ListOf(words) = [kind |-> "headers", list |-> list]
    BY <1>15, <1>16 DEF ListOf
<1> QED
    BY <1>1, <1>17, <1>18

KindIsV2(m) == m.kind \in {"session", "ip", "ipWithTrace", "span"}
KindIsV3(m) == m.kind \in {"registration", "payload", "icmp", "response"}

LEMMA KindOfMessage ==
    ASSUME NEW m
    PROVE  /\ m \in V2Messages => KindIsV2(m)
           /\ m \in V3Messages => KindIsV3(m)
           /\ m \in HeaderMessages => m.kind = "headers"
           /\ m \in Hops => m.kind = "hop"
<1>1. ASSUME m \in V2Messages PROVE KindIsV2(m)
    BY <1>1 DEF V2Messages, KindIsV2
<1>2. ASSUME m \in V3Messages PROVE KindIsV3(m)
  <2>1. CASE m \in [kind : {"registration"}, id : Ids, dest : TargetAddresses, port : {60},
                    traced : BOOLEAN, idle : [seconds : Hints, fraction : BOOLEAN], n : Lens]
      BY <2>1 DEF KindIsV3
  <2>2. CASE m \in [kind : {"payload"}, id : Ids, n : Lens] \cup [kind : {"icmp"}, n : Lens]
      BY <2>2 DEF KindIsV3
  <2>3. CASE m \in [kind : {"response"}, id : Ids, type : ResponseTypes, n : Lens]
      BY <2>3 DEF KindIsV3
  <2> QED
      BY <1>2, <2>1, <2>2, <2>3 DEF V3Messages
<1>3. m \in HeaderMessages => m.kind = "headers"
    BY DEF HeaderMessages
<1>4. m \in Hops => m.kind = "hop"
    BY DEF Hops
<1> QED
    BY <1>1, <1>2, <1>3, <1>4

\* The datagram of m, when it is not refused.
IsEncoded(d, m) ==
    \/ m \in V2Messages /\ d = EncodeV2(m)
    \/ m \in V3Messages /\ d = EncodeV3(m)
    \/ m \in HeaderMessages /\ d = SerializeHeaders[m.list]

Decode(d, m) ==
    CASE m \in V2Messages -> DemuxV2(d)
      [] m \in V3Messages -> DemuxV3(d)
      [] OTHER -> DeserializeHeaders(d)

LEMMA ReadsMessage ==
    ASSUME NEW m, NEW d, IsEncoded(d, m)
    PROVE  /\ d # <<>> => Decode(d, m) = Arrives(m)
           /\ m \in V2Messages => Len(d) <= FrameSize
           /\ d \in Seq(Nat) /\ m \notin Hops
<1>1. /\ m \in V2Messages => KindIsV2(m)
      /\ m \in V3Messages => KindIsV3(m)
      /\ m \in HeaderMessages => m.kind = "headers"
      /\ m \in Hops => m.kind = "hop"
    BY KindOfMessage
<1>2. /\ m \in V2Messages => m \notin V3Messages /\ m \notin HeaderMessages /\ m \notin Hops
      /\ m \in V3Messages => m \notin HeaderMessages /\ m \notin Hops
      /\ m \in HeaderMessages => m \notin Hops
    BY <1>1 DEF KindIsV2, KindIsV3
<1>3. CASE m \in V2Messages
  <2>1. d = EncodeV2(m)
      BY <1>2, <1>3 DEF IsEncoded
  <2>2. d \in Seq(Nat) /\ Len(d) <= FrameSize /\ (d # <<>> => DemuxV2(d) = m)
      BY <1>3, <2>1, ReadsV2
  <2>3. Decode(d, m) = DemuxV2(d)
      BY <1>3 , <1>2 DEF Decode
  <2>4. Arrives(m) = m
      BY <1>1, <1>3 DEF Arrives, KindIsV2
  <2> QED
      BY <1>2, <1>3, <2>2, <2>3, <2>4
<1>4. CASE m \in V3Messages
  <2>1. d = EncodeV3(m)
      BY <1>2, <1>4 DEF IsEncoded
  <2>2. d \in Seq(Nat) /\ (d # <<>> => DemuxV3(d) = Arrives(m))
      BY <1>4, <2>1, ReadsV3
  <2>3. Decode(d, m) = DemuxV3(d)
      BY <1>4, <1>2 DEF Decode
  <2> QED
      BY <1>2, <1>4, <2>2, <2>3
<1>5. CASE m \in HeaderMessages
  <2>1. PICK l : l = m.list
      OBVIOUS
  <2>2. l \in HeaderLists /\ m = [kind |-> "headers", list |-> l]
      BY <1>5, <2>1 DEF HeaderMessages
  <2>3. d = SerializeHeaders[l]
      BY <1>2, <1>5, <2>1 DEF IsEncoded
  <2>4. Decode(d, m) = DeserializeHeaders(d)
      BY <1>2, <1>5 DEF Decode
  <2>5. CASE l = <<>>
    <3>1. d = <<>>
        BY <2>2, <2>3, <2>5, SerializeHeadersIs DEF OneMore
    <3> QED
        BY <1>2, <1>5, <3>1
  <2>6. CASE l # <<>>
    <3>1. d \in Seq(Nat)
        BY <2>2, <2>3, <2>6, SerializedList DEF Serialized
    <3>2. DeserializeHeaders(d) = m
        BY <2>2, <2>3, <2>6, ReadsHeaders
    <3>3. Arrives(m) = m
        BY <1>1, <1>5 DEF Arrives
    <3> QED
        BY <1>2, <1>5, <2>4, <3>1, <3>2, <3>3
  <2> QED
      BY <2>5, <2>6
<1> QED
    BY <1>3, <1>4, <1>5 DEF IsEncoded

\* A packet that goes on has hops left; an error fits, and quotes as much as fits.
LEMMA HopIsSound ==
    ASSUME NEW m \in Hops
    PROVE  /\ Hop(m).kind = "hop" => Hop(m).ttl > 0 /\ Hop(m).n = m.n
           /\ Hop(m).kind = "exceeded" =>
                 /\ Hop(m).n <= MinMtu(m.v6)
                 /\ Hop(m).quoted = m.n \/ Hop(m).n = MinMtu(m.v6)
<1>1. PICK v6 \in BOOLEAN, ttl \in 0..2, n \in Nat :
          m = [kind |-> "hop", v6 |-> v6, ttl |-> ttl, n |-> n]
  <2>1. Lens \subseteq Nat
      BY WireAssumption DEF Lens
  <2>2. /\ m.v6 \in BOOLEAN /\ m.ttl \in 0..2 /\ m.n \in Nat
        /\ m = [kind |-> "hop", v6 |-> m.v6, ttl |-> m.ttl, n |-> m.n]
      BY <2>1 DEF Hops
  <2> QED
      BY <2>2
<1>2. m.ttl = ttl /\ m.n = n /\ m.v6 = v6
    BY <1>1
<1>3. CASE ttl <= 1
  <2>1. PICK q, k : q = OriginalDatagram(v6, n) /\ k = OwnHeaders(v6) + q
      OBVIOUS
  <2>2. Hop(m) = [kind |-> "exceeded", v6 |-> v6, ttl |-> 255, quoted |-> q, n |-> k]
      BY <1>2, <1>3, <2>1 DEF Hop, TTLExceeded
  <2>3. k <= MinMtu(v6) /\ (q = n \/ k = MinMtu(v6))
    <3>1. Mtu \in Nat /\ Mtu >= 4
        BY WireAssumption
    <3> QED
        BY <2>1, <3>1 DEF OriginalDatagram, MinMtu, OwnHeaders
  <2>4. Hop(m).kind = "exceeded" /\ Hop(m).quoted = q /\ Hop(m).n = k
      BY <2>2
  <2> QED
      BY <1>2, <2>3, <2>4
<1>4. CASE ttl = 2
  <2>1. Hop(m) = [m EXCEPT !.ttl = @ - 1]
      BY <1>2, <1>4 DEF Hop
  <2>2. Hop(m) = [kind |-> "hop", v6 |-> v6, ttl |-> ttl - 1, n |-> n]
      BY <1>1, <2>1
  <2> QED
      BY <1>2, <1>4, <2>2
<1> QED
    BY <1>3, <1>4

\* What arrives is what was sent, but for the hint.
LEMMA ArrivesAsWritten ==
    ASSUME NEW m \in WireMessages, m \notin Hops
    PROVE  ReadAs(m, Arrives(m))
<1>1. CASE m.kind # "registration"
    BY <1>1 DEF ReadAs, Arrives
<1>2. CASE m.kind = "registration"
  <2>1. m \in [kind : {"registration"}, id : Ids, dest : TargetAddresses, port : {60},
              traced : BOOLEAN, idle : [seconds : Hints, fraction : BOOLEAN], n : Lens]
      BY <1>2 DEF WireMessages, V2Messages, V3Messages, HeaderMessages, Hops
  <2>2. PICK s : s = m.idle.seconds
      OBVIOUS
  <2>3. s \in Nat
    <3>1. m.idle \in [seconds : Hints, fraction : BOOLEAN]
        BY <2>1
    <3> QED
        BY <2>2, <3>1, WireAssumption
  <2>9. PICK c : c = IdleHint(m.idle) /\ (s < 65536 => c = s)
      BY <2>2, <2>3 DEF IdleHint
  <2>4. PICK g : g = [seconds |-> c, fraction |-> FALSE]
      OBVIOUS
  <2>5. Arrives(m) = [m EXCEPT !.idle = g]
      BY <1>2, <2>4, <2>9 DEF Arrives
  <2>6. Arrives(m).idle = g
      BY <2>1, <2>5
  <2>7. ~g.fraction /\ g.seconds = c
      BY <2>4
  <2> QED
      BY <1>2, <2>2, <2>5, <2>6, <2>7, <2>9 DEF ReadAs
<1> QED
    BY <1>1, <1>2

\* What is written is what the message is coded as, and what was read is how that arrives.
WireInv ==
    /\ message \in WireMessages
    /\ datagram = <<>> \/ IsEncoded(datagram, message)
    /\ \/ got = Unread
       \/ message \notin Hops /\ got = Arrives(message)
       \/ message \in Hops /\ got = Hop(message)

LEMMA WireInvInductive == WireInv /\ [WireNext]_wireVars => WireInv'
<1> SUFFICES ASSUME WireInv, [WireNext]_wireVars PROVE WireInv'
    OBVIOUS
<1> USE DEF WireInv
<1>1. CASE Send
  <2>1. message' = message /\ got' = got
      BY <1>1 DEF Send
  <2>2. CASE SendV2
    <3>1. message \in V2Messages /\ datagram' = EncodeV2(message)
        BY <2>2 DEF SendV2, EncodeV2
    <3>2. IsEncoded(datagram', message)
        BY <3>1 DEF IsEncoded
    <3> QED
        BY <2>1, <3>2
  <2>3. CASE SendV3
    <3>1. message \in V3Messages /\ datagram' = EncodeV3(message)
        BY <2>3 DEF SendV3, EncodeV3
    <3>2. IsEncoded(datagram', message)
        BY <3>1 DEF IsEncoded
    <3> QED
        BY <2>1, <3>2
  <2>4. CASE SendHeaders
    <3>1. message \in HeaderMessages /\ datagram' = SerializeHeaders[message.list]
        BY <2>4 DEF SendHeaders
    <3>2. IsEncoded(datagram', message)
        BY <3>1 DEF IsEncoded
    <3> QED
        BY <2>1, <3>2
  <2> QED
      BY <1>1, <2>2, <2>3, <2>4 DEF Send
<1>2. CASE Receive
  <2>1. datagram # <<>> /\ message' = message /\ datagram' = datagram
      BY <1>2 DEF Receive
  <2>2. got' = Decode(datagram, message)
      BY <1>2 DEF Receive, Decode
  <2>3. IsEncoded(datagram, message)
      BY <2>1
  <2>4. Decode(datagram, message) = Arrives(message) /\ message \notin Hops
      BY <2>1, <2>3, ReadsMessage
  <2> QED
      BY <2>1, <2>2, <2>3, <2>4
<1>3. CASE Route
    BY <1>3 DEF Route
<1>4. CASE UNCHANGED wireVars
    BY <1>4 DEF wireVars
<1> QED
    BY <1>1, <1>2, <1>3, <1>4 DEF WireNext

LEMMA WireInvReadsAsWritten == WireInv => ReadAsWritten
<1> SUFFICES ASSUME WireInv PROVE ReadAsWritten
    OBVIOUS
<1>1. got # Unread /\ message \notin Hops => ReadAs(message, got)
    BY ArrivesAsWritten DEF WireInv
<1>2. message \in V2Messages => Len(datagram) <= FrameSize
  <2>1. CASE datagram = <<>>
      BY <2>1, WireAssumption
  <2>2. CASE IsEncoded(datagram, message)
      BY <2>2, ReadsMessage
  <2> QED
      BY <2>1, <2>2 DEF WireInv
<1>3. ASSUME got # Unread, message \in Hops
      PROVE  /\ got.kind = "hop" => got.ttl > 0 /\ got.n = message.n
             /\ got.kind = "exceeded" =>
                   /\ got.n <= MinMtu(message.v6)
                   /\ got.quoted = message.n \/ got.n = MinMtu(message.v6)
  <2>1. got = Hop(message)
      BY <1>3 DEF WireInv
  <2> QED
      BY <1>3, <2>1, HopIsSound
<1> QED
    BY <1>1, <1>2, <1>3 DEF ReadAsWritten

\* Whatever cloudflared and the edge write into a datagram of either version or fold into
\* a header, for every id, size and list of headers, the other end reads as it was, but for
\* the fraction of a hint and what a uint16 does not hold of it; no datagram of v2 outgrows
\* a frame; and a packet loses a hop or is answered with an error that fits the least MTU
\* of its family and quotes all of it or as much as fits (SendToSession, MarshalBinary,
\* SerializeHeaders, writeICMPPacket and what reads them).
THEOREM WireIsReadAsWritten == WireSpec => []ReadAsWritten
<1>1. WireInit => WireInv
    BY DEF WireInit, WireInv
<1>2. WireSpec => []WireInv
    BY <1>1, WireInvInductive, PTL DEF WireSpec
<1> QED
    BY <1>2, WireInvReadsAsWritten, PTL
=============================================================================
