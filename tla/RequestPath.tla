----------------------------- MODULE RequestPath -----------------------------
(* The way of a request from the edge to an origin and back: the stream is
   accepted by an HTTP/2 connection (connection/http2.go) or a QUIC connection
   (connection/quic_connection.go), dispatched to the proxy (proxy/proxy.go),
   which finds a rule, applies its middleware and speaks to the service of the
   rule (ingress/origin_proxy.go, origin_connection.go) or, for a private
   network, to the destination itself, and copies both ways (stream/stream.go).
   The proxy is there: module Orchestrator.                                  *)
EXTENDS Naturals, FiniteSets

CONSTANTS Reqs,     \* requests
          Limit     \* of the flow limiter

\* what a rule, or a TCP request without one, leads to
Services == {"http", "stream", "local", "tcp"}

VARIABLES
    at,         \* where the handler of the request is, "ended" when it returned
    over,       \* the transport of the request
    service,
    heads,      \* response heads (status or connect response) sent for it
    head,       \* the last of them
    whole,      \* was the whole body of the origin copied, or a pipe closed
    end,        \* how the stream ended: "open", "clean", "reset"
    pipe,       \* the directions of a pipe that still copy
    active      \* TCP flows counted by the limiter

proxyVars == <<at, over, service, heads, head, whole, end, pipe, active>>

PathTypeOK ==
    /\ at \in [Reqs -> {"new", "rule", "acquire", "origin", "upgrade", "head", "copy",
                        "pipe", "error", "refused", "ended"}]
    /\ over \in [Reqs -> {"http2", "quic"}] /\ service \in [Reqs -> Services]
    /\ heads \in [Reqs -> 0..2] /\ head \in [Reqs -> {"none", "origin", "filtered", "error"}]
    /\ whole \in [Reqs -> BOOLEAN] /\ end \in [Reqs -> {"open", "clean", "reset"}]
    /\ pipe \in [Reqs -> SUBSET {"up", "down"}] /\ active \in 0..Limit

PathInit ==
    /\ at = [r \in Reqs |-> "new"] /\ over = [r \in Reqs |-> "quic"]
    /\ service = [r \in Reqs |-> "http"] /\ heads = [r \in Reqs |-> 0]
    /\ head = [r \in Reqs |-> "none"] /\ whole = [r \in Reqs |-> FALSE]
    /\ end = [r \in Reqs |-> "open"] /\ pipe = [r \in Reqs |-> {}] /\ active = 0

Goto(r, where) == at' = [at EXCEPT ![r] = where]
SendHead(r, h) == heads' = [heads EXCEPT ![r] = @ + 1] /\ head' = [head EXCEPT ![r] = h]
NoHead == UNCHANGED <<heads, head>>

\* the handler returns; its deferred calls release the flow
Released(r) == active - (IF service[r] = "tcp" /\ at[r] # "refused" THEN 1 ELSE 0)
Returns(r, how) ==
    /\ Goto(r, "ended") /\ end' = [end EXCEPT ![r] = how]

-----------------------------------------------------------------------------
\* ServeHTTP, runStream and dispatchRequest; a request that cannot be built,
\* or has no destination, fails before anything is sent
Dispatch(r) ==
    /\ at[r] = "new"
    /\ \E t \in {"http2", "quic"} : over' = [over EXCEPT ![r] = t]
    /\ \E s \in Services :
          /\ service' = [service EXCEPT ![r] = s]
          /\ \E where \in IF s = "tcp" THEN {"acquire"} ELSE {"rule", "error"} : Goto(r, where)
    /\ UNCHANGED <<heads, head, whole, end, pipe, active>>

\* applyIngressMiddleware: a handler may answer in the place of the origin
Middleware(r) ==
    /\ at[r] = "rule"
    /\ \/ Goto(r, "origin") /\ NoHead /\ UNCHANGED end
       \/ Goto(r, "error") /\ NoHead /\ UNCHANGED end
       \/ SendHead(r, "filtered") /\ Returns(r, "clean")
    /\ UNCHANGED <<over, service, whole, pipe, active>>

\* ProxyTCP takes a flow of the limiter or is refused
Acquire(r) ==
    /\ at[r] = "acquire"
    /\ IF active < Limit THEN Goto(r, "origin") /\ active' = active + 1
                         ELSE Goto(r, "refused") /\ UNCHANGED active
    /\ UNCHANGED <<over, service, heads, head, whole, end, pipe>>

\* RoundTrip, EstablishConnection or DialTCP; the origin may switch protocols
Origin(r) ==
    /\ at[r] = "origin" /\ service[r] # "local"
    /\ \E where \in {"error", IF service[r] = "http" THEN "head" ELSE "upgrade", "upgrade"} :
          Goto(r, where)
    /\ UNCHANGED <<over, service, heads, head, whole, end, pipe, active>>

\* proxyLocalRequest: the handler answers in every case
Local(r) ==
    /\ at[r] = "origin" /\ service[r] = "local"
    /\ SendHead(r, "origin") /\ whole' = [whole EXCEPT ![r] = TRUE] /\ Returns(r, "clean")
    /\ UNCHANGED <<over, service, pipe, active>>

\* WriteRespHeaders and AckConnection: over QUIC the write may fail, and the
\* response counts as sent; over HTTP/2 it does not fail
WriteRespHeaders(r) ==
    /\ at[r] \in {"head", "upgrade"}
    /\ SendHead(r, "origin")
    /\ \/ /\ Goto(r, IF at[r] = "head" THEN "copy" ELSE "pipe")
          /\ pipe' = [pipe EXCEPT ![r] = IF at[r] = "upgrade" THEN {"up", "down"} ELSE {}]
       \/ /\ over[r] = "quic" \/ service[r] = "http"    \* or no ReadWriteCloser
          /\ Goto(r, "error") /\ UNCHANGED pipe
    /\ UNCHANGED <<over, service, whole, end, active>>

\* cfio.Copy of the body and the trailers, or an error part-way
CopyBody(r) ==
    /\ at[r] = "copy"
    /\ \/ whole' = [whole EXCEPT ![r] = TRUE] /\ Returns(r, "clean")
       \/ Goto(r, "error") /\ UNCHANGED <<whole, end>>
    /\ UNCHANGED <<over, service, heads, head, pipe, active>>

\* Pipe returns as soon as one direction ends, and says nothing of errors;
\* the other direction goes on for a while with a stream that is closed: a
\* panic of it is recovered
PipeEnds(r) ==
    \E d \in pipe[r] :
        /\ pipe' = [pipe EXCEPT ![r] = @ \ {d}]
        /\ IF at[r] = "pipe"
             THEN /\ whole' = [whole EXCEPT ![r] = TRUE] /\ Returns(r, "clean")
                  /\ active' = Released(r)
             ELSE UNCHANGED <<whole, at, end, active>>
        /\ UNCHANGED <<over, service, heads, head>>

\* the mutant answers whatever was sent before
FailAnswers(r) ==
    /\ at[r] \in {"error", "refused"}
    /\ SendHead(r, "error") /\ Returns(r, "clean")
    /\ active' = Released(r)
    /\ UNCHANGED <<over, service, whole, pipe>>

\* the error is answered while nothing was sent, which over QUIC may fail;
\* afterwards the handler is aborted (HTTP/2) or the stream reset (QUIC)
Fail(r) ==
    /\ at[r] \in {"error", "refused"}
    /\ IF heads[r] = 0
         THEN /\ SendHead(r, "error")
              /\ \E how \in {"clean"} \cup (IF over[r] = "quic" THEN {"reset"} ELSE {}) :
                    Returns(r, how)
         ELSE NoHead /\ Returns(r, "reset")
    /\ active' = Released(r)
    /\ UNCHANGED <<over, service, whole, pipe>>

PathNext == \E r \in Reqs :
    \/ Dispatch(r) \/ Middleware(r) \/ Acquire(r) \/ Origin(r) \/ Local(r)
    \/ WriteRespHeaders(r) \/ CopyBody(r) \/ PipeEnds(r) \/ Fail(r)

PathSpec == PathInit /\ [][PathNext]_proxyVars

-----------------------------------------------------------------------------
(* The client can trust the end of a stream: at most one head is sent, and a
   stream that ends cleanly after the head of the origin carried the whole
   body, or was a pipe; a body cut short ends in a reset (WriteErrorResponse,
   handleDataStream).  The flows of the limiter are those still handled.     *)
EndIsHonest ==
    /\ \A r \in Reqs : heads[r] <= 1
    /\ \A r \in Reqs : end[r] = "clean" /\ head[r] = "origin" => whole[r]
    /\ \A r \in Reqs : at[r] = "ended" => heads[r] = 1 /\ end[r] # "open"
    /\ active = Cardinality({r \in Reqs : service[r] = "tcp" /\
                                at[r] \in {"origin", "upgrade", "pipe", "error"}})
=============================================================================
