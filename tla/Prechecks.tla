------------------------------ MODULE Prechecks ------------------------------
(* The connectivity checks that `cloudflared tunnel run` makes beside the start
   of the tunnel (prechecks/): the edge is resolved, each transport is tried on
   each target with retries until the deadline of the suite, and a report says
   what failed and which protocol to expect.                                 *)
EXTENDS Naturals, FiniteSets

CONSTANTS MaxRetries, NoResult

ASSUME PrechecksAssumption == NoResult \notin {"pass", "fail", "skip", "quic", "http2"}

Families == {"v4", "v6"}
Protocols == {"quic", "http2"}
Targets == 1..2                      \* the regions, or the addresses of --edge
Versions == {Families, {"v4"}, {"v6"}}          \* auto, IPv4Only, IPv6Only
Statuses == {"pass", "fail", "skip"}

VARIABLES
    main,       \* Run: "dns", "probe" or "reported"
    prechecksTries,      \* failed attempts of what each loop is at, "dns" included
    dns,        \* target -> what its row says; its domain is what was resolved
    prechecksLeft,       \* protocol -> target -> addresses that are still to be tried
    rows,       \* protocol -> target -> result, NoResult before there is one
    mgmt,       \* the row of the management API
    prechecksDone,       \* has the deadline of the suite passed
    report,     \* [suggested, hard, warn] when reported
    reached     \* ghost: protocol -> targets whose handshake succeeded

prechecksVars == <<main, prechecksTries, dns, prechecksLeft, rows, mgmt, prechecksDone, report,
                   reached>>

NoneLeft == [p \in Protocols |-> [t \in Targets |-> 0]]

PrechecksTypeOK ==
    /\ main \in {"dns", "probe", "reported"}
    /\ prechecksTries \in [Protocols \cup {"dns"} -> 0..MaxRetries]
    /\ dns \in UNION {[1..n -> Statuses] : n \in 0..2}
    /\ prechecksLeft \in [Protocols -> [Targets -> 0..2]]
    /\ rows \in [Protocols -> [Targets -> Statuses \cup {NoResult}]]
    /\ mgmt \in {"pass", "fail", NoResult} /\ prechecksDone \in BOOLEAN
    /\ reached \in [Protocols -> SUBSET Targets]

PrechecksInit ==
    /\ main = "dns" /\ prechecksTries = [l \in Protocols \cup {"dns"} |-> 0]
    /\ dns = <<>> /\ prechecksLeft = NoneLeft
    /\ rows = [p \in Protocols |-> [t \in Targets |-> NoResult]]
    /\ mgmt = NoResult /\ prechecksDone = FALSE /\ report = NoResult
    /\ reached = [p \in Protocols |-> {}]

Deadline ==
    /\ main # "reported" /\ ~prechecksDone /\ prechecksDone' = TRUE
    /\ UNCHANGED <<main, prechecksTries, dns, prechecksLeft, rows, mgmt, report, reached>>

\* withRetry: another attempt follows a failed one unless it was the last, or
\* the deadline has come
AgainAfter(l) == prechecksTries[l] < MaxRetries /\ ~prechecksDone

-----------------------------------------------------------------------------
(* The first rows of the transports, once the edge is resolved to found: each
   target -> the families it has an address of.  An address of each family that
   the configured version allows is tried.                                   *)
ToTry(found, version) == [t \in Targets |->
    IF t \in DOMAIN found THEN Cardinality(found[t] \cap version) ELSE 0]

DnsRows(found) == [t \in DOMAIN found |-> IF found[t] = {} THEN "fail" ELSE "pass"]

StartProbes(found) ==
    \E version \in Versions, badTLS \in SUBSET Protocols :
        LET some  == \E t \in DOMAIN found : found[t] # {}
            first(p, t) ==
                IF t \notin DOMAIN found THEN NoResult
                ELSE IF ~some \/ (p \notin badTLS /\ found[t] \cap version = {}) THEN "skip"
                ELSE IF p \in badTLS THEN "fail" ELSE NoResult
        IN  /\ main' = "probe"
            /\ rows' = [p \in Protocols |-> [t \in Targets |-> first(p, t)]]
            /\ prechecksLeft' = [p \in Protocols |->
                                   IF p \in badTLS THEN [t \in Targets |-> 0]
                                                   ELSE ToTry(found, version)]

\* an attempt of runDNSProbe: each attempt replaces what the one before found;
\* the resolver has no context and may answer after the deadline
ResolveEdge ==
    /\ main = "dns" /\ (prechecksTries["dns"] = 0 \/ ~prechecksDone)
    /\ \E found \in [1..1 -> SUBSET Families] \cup [1..2 -> SUBSET Families] :
          /\ dns' = DnsRows(found)
          /\ IF (\E t \in DOMAIN found : found[t] = {}) /\ AgainAfter("dns")
               THEN /\ prechecksTries' = [prechecksTries EXCEPT !["dns"] = @ + 1]
                    /\ UNCHANGED <<main, rows, prechecksLeft>>
               ELSE StartProbes(found) /\ UNCHANGED prechecksTries
    /\ UNCHANGED <<mgmt, prechecksDone, report, reached>>

\* the deadline ends the wait between two attempts: the last one failed, and
\* what it found of the other region is used
StopResolving ==
    /\ main = "dns" /\ prechecksTries["dns"] > 0 /\ prechecksDone
    /\ \E found \in [DOMAIN dns -> SUBSET Families] :
          DnsRows(found) = dns /\ StartProbes(found)
    /\ UNCHANGED <<prechecksTries, dns, mgmt, prechecksDone, report, reached>>

\* --edge: one address for each value, and no second attempt
ResolveStaticEdge ==
    /\ main = "dns" /\ dns = <<>>
    /\ \E n \in 1..2 : \E found \in [1..n -> {{}, {"v4"}, {"v6"}}] :
          dns' = DnsRows(found) /\ StartProbes(found)
    /\ UNCHANGED <<prechecksTries, mgmt, prechecksDone, report, reached>>

-----------------------------------------------------------------------------
(* probeAllTargets of protocol p, in a goroutine of its own: the targets one
   after the other, the addresses of a target one after the other.           *)
IsNext(p, t) ==
    /\ main = "probe" /\ prechecksLeft[p][t] > 0
    /\ \A u \in Targets : u < t => prechecksLeft[p][u] = 0

\* probeTarget keeps the best of the addresses
Best(before, now) == IF before = "pass" THEN "pass" ELSE now

NextAddress(p, t, result) ==
    /\ rows' = [rows EXCEPT ![p][t] = Best(@, result)]
    /\ prechecksLeft' = [prechecksLeft EXCEPT ![p][t] = @ - 1]
    /\ prechecksTries' = [prechecksTries EXCEPT ![p] = 0]

\* a handshake succeeds, which it cannot once the context is done
ProbePasses(p, t) ==
    /\ IsNext(p, t) /\ ~prechecksDone
    /\ reached' = [reached EXCEPT ![p] = @ \cup {t}]
    /\ NextAddress(p, t, "pass")
    /\ UNCHANGED <<main, dns, mgmt, prechecksDone, report>>

ProbeFails(p, t) ==
    /\ IsNext(p, t)
    /\ IF AgainAfter(p)
         THEN /\ prechecksTries' = [prechecksTries EXCEPT ![p] = @ + 1]
              /\ UNCHANGED <<rows, prechecksLeft>>
         ELSE NextAddress(p, t, "fail")
    /\ UNCHANGED <<main, dns, mgmt, prechecksDone, report, reached>>

\* probeManagementAPIWithRetry: the result of its last attempt
ProbeManagementAPI ==
    /\ main # "dns" /\ mgmt = NoResult
    /\ mgmt' \in {"pass", "fail"} /\ (prechecksDone => mgmt' = "fail")
    /\ UNCHANGED <<main, prechecksTries, dns, prechecksLeft, rows, prechecksDone, report,
                   reached>>

-----------------------------------------------------------------------------
Rows(p) == {rows[p][t] : t \in DOMAIN dns}

\* Fail > Pass > Skip; the mutant takes a pass for the worst
WorstStatusBest(s) == IF "pass" \in s THEN "pass" ELSE IF "fail" \in s THEN "fail" ELSE "skip"
WorstStatus(s) == IF "fail" \in s THEN "fail" ELSE IF "pass" \in s THEN "pass" ELSE "skip"

\* suggestProtocol: --protocol unless it failed, else QUIC, else HTTP/2
SuggestProtocol(override) ==
    IF override # NoResult /\ WorstStatus(Rows(override)) # "fail" THEN override
    ELSE IF WorstStatus(Rows("quic")) = "pass" THEN "quic"
    ELSE IF WorstStatus(Rows("http2")) = "pass" THEN "http2" ELSE NoResult

HasHardFail ==
    \/ \E t \in DOMAIN dns : dns[t] = "fail"
    \/ \A p \in Protocols : "fail" \in Rows(p)

HasWarn ==
    /\ ~HasHardFail
    /\ mgmt = "fail" \/ "fail" \in Rows("quic") \cup Rows("http2")

Collect ==
    /\ main = "probe" /\ mgmt # NoResult /\ prechecksLeft = NoneLeft
    /\ \E override \in Protocols \cup {NoResult} :
          report' = [override |-> override, suggested |-> SuggestProtocol(override),
                     hard |-> HasHardFail, warn |-> HasWarn]
    /\ main' = "reported"
    /\ UNCHANGED <<prechecksTries, dns, prechecksLeft, rows, mgmt, prechecksDone, reached>>

PrechecksNext ==
    \/ ResolveEdge \/ StopResolving \/ ResolveStaticEdge \/ ProbeManagementAPI \/ Collect
    \/ Deadline
    \/ \E p \in Protocols, t \in Targets : ProbePasses(p, t) \/ ProbeFails(p, t)

PrechecksSpec == PrechecksInit /\ [][PrechecksNext]_prechecksVars

-----------------------------------------------------------------------------
(* The report says what happened, however attempts, retries and the deadline
   fell: a row passes exactly if a handshake with its target succeeded; a
   suggested protocol failed nowhere, and succeeded somewhere unless it was
   asked for; with the edge resolved, a hard failure suggests nothing; and
   when neither is reported, nothing that was tried succeeded (probeTarget,
   suggestProtocol, hasHardFail).                                            *)
ReportIsHonest ==
    main = "reported" =>
        LET s == report.suggested
            unresolved == \E t \in DOMAIN dns : dns[t] = "fail"
        IN  /\ \A p \in Protocols, t \in Targets : rows[p][t] = "pass" <=> t \in reached[p]
            /\ s # NoResult => /\ "fail" \notin Rows(s)
                               /\ reached[s] = {} => s = report.override
            /\ report.hard /\ ~unresolved => s = NoResult
            /\ ~report.hard /\ s = NoResult => \A p \in Protocols : reached[p] = {}
=============================================================================
