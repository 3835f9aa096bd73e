# ProPotato and its bundled cloudflared: models, checks and proofs

This directory holds TLA+ models of the parts of the repository where the order
of events decides whether the program is right, the TLC configurations that
check them on small instances, and TLAPS proofs of some of their properties for
every size. Paths below are relative to the repository root; `cf/` stands for
`src/cloudflared-2026.6.1/`.

## 1. The system

The repository has three programs.

- **The Flask server**, `src/app.py`: chats with an AI service. It stores each
  chat as one JSON file, remembers messages in an SQLite table, and limits how
  often a client may ask. `app.run` serves every request on a thread of its own
  and nothing but the GIL orders them.
- **The workspace apps** under `src/artifacts`: an Express server
  (`api-server`) that does the same work over Postgres, and a React page
  (`local-ai-chat`).
- **cloudflared**, `cf/`: the tunnel client that exposes the server. It keeps
  several connections to Cloudflare's edge (the *HA connections*), restarts
  those that fail, and carries requests, packets and UDP sessions over them. Its
  command line also logs users in and manages tunnels, networks and services.

### Inventory

| component | state | operations | what is hard | what makes it correct |
|---|---|---|---|---|
| rate limiter (`src/app.py` l.172-185) | one deque of time stamps per client | `is_rate_limited` | two calls between the length test and the append; a deque emptied under a reader | no more than the limit in any window; a refusal only at the limit; every call ends |
| chat histories (`src/app.py`) | one file per chat | chat, rename, new, delete, export, load | read-modify-write over a streamed answer; `open(path, "w")` empties first; crash, disk error, client that leaves | a chat is one log; order is kept |
| memory table (`src/app.py`) | rows with a one-second time stamp | `save_to_memory`, `prune_old_memory`, `get_memory_context` | ties of the clock; pruning beside inserts | the recall runs forward; pruning takes nothing the recall would show |
| api-server (`src/artifacts/api-server`) | tables of sessions, messages, settings | the routes of `propotato.ts` | every `await` is a point where requests interleave; no transactions | a deletion leaves nothing behind; histories only grow; a title stands until another is asked for |
| `Supervisor.Run` (`cf/supervisor/supervisor.go`) | counter, waiting list, backoff timer, signals | the cases of its `select` | tunnels that end, connect and restart in any order around a shutdown | the counter counts; no tunnel is forgotten or doubled; Run returns when asked |
| `EdgeTunnelServer.Serve` (`cf/supervisor/tunnel.go`), tracker, observer, selector | retries and protocol of each connection, a channel of 16 events | one call per connection attempt | errors decide between a new address, a new protocol and waiting; events are dropped | a protocol is given up only when it does not work, and then it is |
| address pool (`cf/edgediscovery`) | who uses which address, the active set of each region | `GetAddr`, `GetDifferentAddr`, `GiveBack` | regions move between IPv6 and IPv4 while addresses are held | no address twice; an address for everybody; broken IPv6 is given up |
| a connection (`cf/connection`) | control stream, goroutines of two error groups | register, serve, unregister | every end is discovered by another goroutine first | nil means shutdown; a cancelled connection ends |
| UDP sessions (`cf/quic/v3`, `cf/datagramsession`, `cf/flow`) | maps of sessions, limiter, channels | register, retry, migrate, unregister, the loops | several goroutines of one id; connections lost and replaced; unbuffered channels | maps hold the living; no slot leaks; a session ends with its connection |
| ICMP (`cf/packet`, `cf/ingress/icmp_*`) | funnels, echo ids, sockets | request, reply, expiry | a flow is replaced while it listens, sends or expires | a reply goes to who asked last; ids are unique |
| requests (`cf/proxy`, `cf/stream`, `cf/ingress`) | rules, the response, the flow limiter | match, middleware, dial, copy | failures after the head was sent | each request meets its rule and its end is honest |
| orchestrator (`cf/orchestration`) | version, proxy, limit | `UpdateConfig`, shutdown | updates that fail half-way or meet a shutdown | the loaded proxy runs; one version is in force |
| origin dials, SOCKS (`cf/ingress/origin*`, `cf/socks`) | remembered resolver, default dialer; a handshake | dial, refresh, update | what a name means changes between look-up and dial | a dial goes where it was allowed to go |
| calls, coding, settings (`cf/tunnelrpc`, `cf/quic`, `cf/connection`, `cf/features`) | one stream; datagrams; flags and record | call, encode, decode, refresh | losses and time-outs; lengths at a boundary; a refresh beside a dial | callers are told the truth; what is read was written; both ends agree |
| management (`cf/management`, `cf/cmd/cloudflared/tail`) | sessions, listeners, filters | connect, start, stop, write | restart and takeover beside a stream | the log goes to one actor, as asked |
| the process (`cf/cmd/cloudflared`) | goroutines, the program's file, services | run, update, reload, install | crash between two renames; half an installation | a program is always left; reports are true |
| user commands (`cf/token`, `cf/cmd/cloudflared/tunnel`, `cf/diagnostic`, `cf/prechecks`) | files, lock files, the account at the API | login, create, delete, route, diagnose | processes side by side; calls that fail half-way | no lock twice; tunnels stay usable; effects are as asked |

`PROJECT.json` lists every part, also those that have no model, with the reason.

### How the components interact

- `chat_endpoint` calls the limiter first, then reads and saves the history,
  writes the memory table and streams; the second save runs inside the
  generator, after the last token. `FlaskChat` instantiates `ChatMemory` for the
  table and `ChatLog` for the promise, which `ApiServer` shares.
- `Supervisor.Run` starts one goroutine per HA connection. Each calls `Serve`
  (`EdgeTunnel`), which takes an address from the pool (`EdgeAddrs`) and runs a
  connection (`EdgeConnection`). Run learns of connections through signals that are
  closed, and of ends through the unbuffered channel `tunnelErrors`. Serve's results
  are an input of `Supervisor`; that nil means a shutdown is `NilMeansShutdown`.
- A connection serves requests (`RequestPath`, with the rules of `IngressRules`),
  calls of the edge (`Calls`) and datagrams (`Wire`), which belong to UDP sessions
  (`DatagramsV2`, or `SessionsV3` with the loops of `DatagramsV3`) or to ICMP flows
  (`IcmpLinux`, `IcmpDarwin`).
- The edge sends configurations to the orchestrator (`Orchestrator`), which
  replaces the proxy and the limit that requests and sessions share. `SessionsV3`
  takes that limit as an input that may change at any time.
- `TunnelConfig` makes of flags and records what each of these parts is told.
  `TunnelProcess` starts and ends all of them.

## 2. Modules

Each module models one component; the `MC` modules put parts that share no variable
side by side, and a variable `part` names the one that runs. An
invariant of a part that does not run holds of its initial state. `MCSteps` and
`MCCommands` extend the modules of their parts, so that the properties that TLC
checks there and the theorems are about the same definitions; the names of what a part
has in common with another (its constants for "none", its counters) therefore differ.

| module | models |
|---|---|
| `RateLimiter`, `ChatMemory`, `FlaskChat` | the Flask server: limiter, memory table, history files and every route that touches them |
| `ChatLog` | the promise of one log per chat, implemented by `FlaskChat` and `ApiServer` |
| `ApiServer` | the chats and settings of the workspace server, one step per awaited statement |
| `Supervisor` | `initialize`, the loop of `Run`, the tunnel goroutines |
| `EdgeTunnel` | `Serve` with its retries, the protocol fallback, the selector, the observer and the tracker |
| `EdgeAddrs` | the pool of edge addresses and Serve's calls to it |
| `EdgeConnection` | the goroutines of one connection over QUIC or HTTP/2 |
| `SessionsV3`, `DatagramsV3` | UDP sessions v3: their registration and migration; their loops and the muxer |
| `DatagramsV2` | UDP sessions v2: the event loop of the manager |
| `IcmpLinux`, `IcmpDarwin` | the funnels of ICMP flows, and the echo ids of Darwin |
| `RequestPath`, `IngressRules` | a request from the edge to an origin and back; the rules |
| `OriginDialer`, `Socks` | dials, the DNS resolver; the SOCKS server |
| `Orchestrator` | versions of the configuration, the proxy and its origins |
| `Calls`, `Wire`, `TunnelConfig` | calls between both ends; coding of datagrams and headers; settings |
| `Management`, `LogTail` | sessions of the log at the daemon; filters, the tail and the page |
| `TunnelProcess`, `ServiceMode` | the process of `tunnel run` with its updater; cloudflared without arguments |
| `Token` | access tokens and their lock files |
| `TunnelAdmin`, `NetworkAdmin`, `ServiceInstall`, `Prechecks`, `Diagnostic` | commands |
| `MC*` | instances for TLC: `MCFlaskChat`, `MCFlaskLimits`, `MCSupervisor`, `MCSessionsV3`, `MCDaemon`, `MCSteps`, `MCCommands` |
| `RateLimiterProofs`, `SupervisorProofs`, `SessionsV3Proofs`, `FlaskChatProofs` | theorems about the module of that name; the first also about `ChatMemory`, the second about `EdgeTunnel` |
| `DaemonProofs` | theorems about the parts of `MCDaemon`: `EdgeAddrs`, `EdgeConnection`, `DatagramsV2`, `DatagramsV3`, `Orchestrator`, `Management`, `TunnelProcess` |
| `DataPathProofs` | theorems about the parts of `MCSteps`: `IcmpLinux`, `IcmpDarwin`, `RequestPath`, `IngressRules`, `ServiceMode`, `Calls`, `TunnelConfig`, `Socks`, `Wire`; those about `OriginDialer` are at its end |
| `CommandProofs` | theorems about the parts of `MCCommands`: the commands and `ApiServer` |

Definitions marked as a mutant are wrong on purpose. Each stands in front of the
definition it is a variant of and appears in no specification; replacing the
definition with it makes a property fail, which shows that the property
depends on that piece of code. `PROJECT.json` pairs them.

### How state and actions correspond to the code

Every module's variables carry a comment that names the field or local they
stand for, and actions have the names of the functions they model, or of the step
of it where something else may happen in between. A lock that is held over a whole
function makes it one step; an `await`, an unlock, a channel operation, a call of
another process or a system call that may fail ends one.

**RateLimiter.** `bucket` is the deque of one client; `pc[t]` says between which
two deque operations thread `t` stands. `TestNonempty` and `TestHead` are the two
halves of the `while` condition, `PopLeft` its body, `Refuse` and `HasRoom` the
length test, `Admit` the append and the return. `HeadVanished` is the `IndexError`
when another thread emptied the deque. `admissions` is a history variable.

**FlaskChat.** A request is a program counter over the places where it touches
something shared. A save is two steps, `OpenForWrite` (the file exists and is
empty) and `Dump` (the text reaches it at close). Directory entries and inodes
are separate, because a file deleted while open still takes the text. When two
requests write one inode the longer text may leave its end behind; an empty or
garbled file reads as `[]`, as in `read_chat_history`. `Crash` ends every
request and closes the files as they are. Histories fit the write buffer, so one
write is one step. **ChatMemory**: both queries order by a time stamp of one
second, so `Newest` is the *set* of answers the database may give.

**ApiServer.** A program counter per request, one step per statement that
`chat-store.ts` or `settings-store.ts` awaits. `read` is what the request has read
and will act upon; `raced` is a history variable: which requests ran beside a
deletion of their chat. Whoever gives a title may give the one of a chat that has none,
"New Chat".

**Supervisor.** The variables are the locals and fields of `Run`. `Initialize*`
are the cases of `initialize`'s select, the actions under "The select loop" the
cases of Run's. A goroutine is "serving", "connected", or "sending": it has
returned and is blocked on `tunnelErrors`. A signal is "due" between the fuse
and the goroutine that closes the channel. The backoff is the timer (armed or
not) and the moment the grace period is set; durations are left out.

**EdgeTunnel.** `phase[c]` is where Serve is, `retries` and `addrRetries` the backoff
handler and `IpAddrFallback`, `verdict` the error it decides on, `events` the channel
of the observer, `connInfo` the protocols in the map of the tracker; `lost` is a history
variable. `selector`, `network` and `spare`
are the surroundings: which selector is configured, what the network lets through,
whether the pool has another address. **EdgeAddrs**: `usedBy` is the union of the
`AddrSet` maps, `primaryIsActive` and `expired` the fields `active` and
`primaryTimeout` of each region. `Edge` holds its lock over every call, so a call
is one step. `GetUsedAddr`, `GetUnusedAddr` and `NoAddress` are the outcomes of
`GetAddr`; map iteration order is a choice.

**EdgeConnection.** One flag per goroutine of the two error groups, with the first
error of each, and where the control stream handler stands. Over HTTP/2, `Close`
waits for the requests, of which the control stream is one; over QUIC, ends of the
accept loop or of the datagram handler cancel the others, and `Serve` first opens the
control stream: if that fails (`OpenFails`) it returns and nothing closes the connection.

**SessionsV3.** A handler is the goroutine of one registration datagram: it
creates a session and serves it, or answers a retry, or migrates the session.
`eyeball` is the connection a session sends to, `bound` the connection whose context
ends its serve loop; `StoreEyeball` and `PushContext` are the two steps of `Migrate`.
Lost connections are replaced by connections of the same index. **DatagramsV3**:
the channels have their order and, scaled down, their capacities; a full one drops
or blocks as the code does. **DatagramsV2**: rendezvous on an unbuffered channel is
a joint step of the caller and the event loop.

**IcmpLinux**, **IcmpDarwin.** A flow is its key, its socket, its listener
goroutine and the responder of the connection that asked last; `funnels` is the tracker.
Router and listener interleave between `GetOrRegister`, send, read and `Unregister`. On
Linux a responder is the index of a connection and its muxer, and a connection that is
made again (`Connects`) has the index with another muxer.

**RequestPath.** `at[r]` is where the handler is; `heads` counts the response heads
sent, `whole` says whether the body of the origin was copied to its end, and `end` how
the stream ended. **IngressRules**: hosts and paths are told apart by what the patterns
can match. There is one option, of any of three kinds: a setting, the policy of Access,
or the IP rules of a SOCKS proxy (`kind`); it is zero, default or another value, and
absence is a case of its own. `force` is what is in force here for a rule, `config` what
the edge is told of it; the former takes a policy from the rule alone. **OriginDialer**:
an A and a AAAA query run at once and walk through the name servers; `peeked` is the
field the dial callback writes and `PeekDial` such a write. **Socks**: the bytes of the
handshake and the data behind them come in as the client likes; `dns` is what the name
means at this moment.

**Orchestrator.** An update is validated, starts its origins, replaces the proxy
and closes the origins before it; `version` is what each update carries. Loading
the proxy takes no lock.

**Calls.** One call: who serves it, the stream, the handler, the message on the way
back, and what the caller is told. **Wire**: a datagram is a sequence of cells;
each field has as many as it takes to see one read in the place of another. An idle hint
is whole seconds and whether a fraction comes on top, and is written in 16 bits; an ICMP
error has headers of its own.
**TunnelConfig**: `input` is what is given, `flag` what the code makes of it, `conn`
what each connection announces and then does.

**Management**, **LogTail.** The handler and reader goroutines of each websocket, the
idle timer and the list of listeners; in `LogTail`, the filters on their way from
the command line to the session and the lines on their way back. A session may be listed
more than once, so `listeners` counts its entries. In `LogTail` every start has a
stream of its own, which receives a line and sends it in two steps, so that two streams of
one session can overtake one another (`paired`). Lines differ in level, event and whether
they report an error.

**TunnelProcess.** `svc` is the state of each goroutine that reports on `errC`,
`file` what lies under the name of the program, as `.new` and as `.old`; `Crash`
may happen anywhere. **ServiceMode**: the watcher reads the file while it is
rewritten (`torn`); a service is `<<address, number>>`, so that two of one address
are told apart.

**Token**, **TunnelAdmin**, **NetworkAdmin**, **Diagnostic**: processes that share a
directory or the account, one step per system or API call, each of which may fail
or, at the API, take effect and fail at the caller. In `TunnelAdmin` the history variable
`crossed` has the paths that two commands found missing at once and those of a deletion of
another tunnel; root writes over a file of mode 0400. In `Diagnostic` archives have the
name of their second (`stamp`), `zips` says whose content each has, and creating, filling
and closing one may fail. **ServiceInstall**: `todo` is the
rest of the commands, any of which may fail; `unit`, `enabled`, `running` and `timer`
belong to the service manager, which is external; the update unit restarts the service by
itself (`UpdateEnds`; `revived` if it was being uninstalled), and an agent of launchd runs
while its user is logged in. **Prechecks**: a row per protocol
and address, with its attempts and the deadline of the suite.

## 3. Runs

Seven runs check that properties hold; five find a violation (section 4). State
counts are of distinct states.

| run | parts and bounds | properties | states |
|---|---|---|---|
| `FlaskChat` | *calm*: six requests on two chats; two questions, a photo and an export of one chat; a question, a photo and a deletion with a clock that ticks. *Overlapping*: question, rename and deletion, or question and photo, with one crash and one disk error. Keep 1 | `ImplementsChatLog` (a refinement, while no two requests of a chat overlap), `HistoriesStayOrdered`, `EveryRequestEnds` | 304 362 |
| `FlaskLimits` | limiter: two threads, one call at a time or two, limit 2, window 2, clock to 4; memory: two chats, five rows, four seconds, keep 3, recall 2 | `Overshoot`, `CallsAreJudgedRightly`, `RecallHolds` | 238 017 |
| `Supervisor` | Run with three connections requested and two addresses; two tunnels in detail, two retries and one of the address, one event, with QUIC blocked, with both protocols and no spare address, or with QUIC blocked and percentages that change | `ActiveCountsGoroutines`, `SignalsAreFollowed`, `RunGoesOn`, `QuicKeptWhileItWorks`, `BlockedQuicFallsBack` | 478 997 |
| `SessionsV3` | four datagrams: a session, its retry after a reconnection, another id, a migration; limits 0 to 2 | `SlotsAreOfSessions`, `SessionsFollowContexts` | 389 097 |
| `Daemon` | pool: three connections, two regions of two addresses per family, one look-up with an IPv4 address less in each, IPv6 only or both; connection: two requests; v2: two registrations of one id; v3 loops: three datagrams, channels of one; orchestrator: three updates, versions to 2; management: two sessions, two actors, two events; process: two starts | `OneAddressEach`, `RegionsAndFamilies`, `ServeEndsRightly`, `SessionsAreReleased`, `LossEndsAll`, `OriginsFollowTheProxy`, `StreamsEndWithTheirActor`, `ProcessEndsWhole` | 243 228 |
| `Steps` | ICMP on Linux: two connections, two muxers, one id, two ports, two flows; on Darwin: two connections, two ids; two requests, limit 1; three hosts, two rules, an option of each kind; two listener addresses, two rewrites; one call; payloads to 15 cells, ids of two, hints of 0, 1 and 65 536 s; settings: one connection, two values of the record, two refreshes; SOCKS: two addresses, two ports, four policies; dials: one dial, two name servers, two updates, two look-ups | `OpenFlowIsTheNewest`, `IdsAreUnique`, `EndIsHonest`, `RulesKeepTheirMeaning`, `NoForwarderLeaks`, `CallsAreTruthful`, `ReadAsWritten`, `ConfigurationHolds`, `ProxyHolds`, `DialsReachTheirService` | 4 995 345 |
| `Commands` | two processes each: logins to one application and the organisation; two tunnels with pages of one; two networks, two virtual ones, one route; diagnoses with archives of two seconds. One: installations with two tokens; checks with one retry; a tail of two lines and three starts; three requests of two chats, overlapping or not | `OneHolderUnlessReclaimed`, `TunnelsAreUsable`, `EffectsAreAsAsked`, `ReportIsTrue`, `ReportIsHonest`, `ArchiveIsHonest`, `PrintsWhatWasAsked`, `OrphansWereRaced`, `HistoriesStand` | 3 767 725 |

A property with several parts is a conjunction whose parts are named in its module:

- `CallsAreJudgedRightly`: serial calls stay within the window, a refusal happens
  only at the limit, every call is answered.
- `RecallHolds`: the recall runs forward; pruning takes nothing a recall would show.
- `HistoriesStayOrdered`: two messages never change order between two histories, a
  reply follows its question and appears once, one title stays in front.
- `SignalsAreFollowed`: the selected signal is of a connecting tunnel, and the grace
  period is set only with every tunnel connected. `RunGoesOn`: Run returns only when all
  tunnels ended, and after a cancellation; a waiting tunnel is restarted.
- `SlotsAreOfSessions`: the map holds live sessions, and the slots are theirs and
  those of failed binds. `SessionsFollowContexts`: a session sends to the connection
  it is bound to; when all are lost all sessions end.
- `RegionsAndFamilies`: both regions are used evenly, broken IPv6 is abandoned.
- `OriginsFollowTheProxy`: the loaded proxy runs; the shutdown stops the others.
- `RulesKeepTheirMeaning`: a request meets the first rule that matches it; the edge reads
  what each rule is configured to; that is what is in force here, but for policies that a
  rule inherited.
- `StreamsEndWithTheirActor`: one actor streams unless two requests raced, and who is
  listed is served unless it was listed twice; a session that is taken over ends with its
  goroutines.
- `ProcessEndsWhole`: a whole, verified program is left whatever crashes; the process
  ends when asked to.
- `ConfigurationHolds`: a connection speaks the format of datagrams it announced,
  strict post-quantum stays strict, an address is dialled in the family of the bound
  one, the source of IPv6 packets is near the one of IPv4.
- `ProxyHolds`: what is dialled was allowed, nothing the client sent is skipped, and
  the reply is true.
- `TunnelsAreUsable`: created tunnels keep their credentials, listings are complete.
- `HistoriesStand`: while requests do not overlap, rows are the log of `ChatLog`
  (and otherwise only grow), and a title other than "New Chat" is replaced only by a
  request for a title.

### Why the bounds are enough

- *RateLimiter*: the races are between one thread's test and another's append or
  `popleft`; two threads and a limit of two make both, and a clock to four lets a
  whole window pass and stamps expire at its exact end. The proof removes the
  bound for `Overshoot`.
- *FlaskChat*: lost updates, the emptied file and the recreated file each need two
  requests; order flips need two messages and two histories that hold both. The
  calm part has every kind of request, and three questions on one chat so that
  pruning (keep 1) happens.
- *ChatMemory*: five rows exceed the keep and recall limits, with ties within and
  across chats.
- *Supervisor*: more connections are requested than there are addresses, so that
  the reduction in `initialize` happens. Two goroutines give every order of an end,
  a connection and a restart. The proofs remove the bound for the counter and the
  slice. *EdgeTunnel*: with two connections one can hold the other's protocol, and
  a channel of one event loses events as sixteen do when more connections end. It takes
  two retries for a connection to change its protocol without falling back; the
  proof removes these bounds and the choice of surroundings for `QuicKeptWhileItWorks`.
- *EdgeAddrs*: three connections on four addresses of a family force rotations
  into the other region, and out of it. The user's choice of IPv4 is the mirror
  image of the choice of IPv6 and is not run.
- *Sessions and flows*: one id that is created, retried, replaced and migrated,
  beside another one that competes for the limiter; a channel of one element is
  full as soon as one of any size is. The proofs remove the bound for the map and
  the slots of v3, and for the ICMP flows of Linux.
- *Requests*: what a request shares with another one is the counter of the limiter
  and nothing else, and two requests with a limit of one compete for it; the proof
  holds for any number.
- *Rules*: two rules make a first and a last one, and an override beside none. What is
  in force of an option depends on that option alone, so one of each kind, one after the
  other, stands for all.
- *Wire*: fields of two cells and payloads up to one more than what fits make every
  length test succeed and fail; ids that look like types make confusion possible; two
  headers with empty words show a separator before, between and behind; one of the hints is
  the first that 16 bits do not hold.
- *Commands*: every race is between two steps of one process and one step of
  another; archives of two seconds are of one and of different names.

Counters that would grow for ever are capped by guards: `MaxTime`, `MaxRows`,
`MaxSeconds`, `MaxCrashes`, `MaxDiskErrors`, `MaxFlows`, `MaxRequests`,
`MaxReceived`, `MaxVersion`, `MaxEvents`, `MaxStarts`, `MaxWrites`, `MaxServices`,
`MaxRules`, `MaxLen`, `MaxRefreshes`, `MaxUpdates`, `MaxLookups`, `Answers`,
`MaxTunnels`, `MaxVnets`, `MaxRoutes`, `MaxLines`; `Muxers`, `Seconds`, `Hints` and
`BadOptions` are the sets that others come from. `MaxRetries`,
`MaxEdgeAddrRetries`, `MaxUint16`, `Mtu` and the capacities of channels are limits of
the code, scaled down. Requests, commands and tunnels end, so the runs that have
them do not check deadlock; `FlaskLimits` and `SessionsV3` do.

### Fairness

Weak fairness is of goroutines and threads that can take a step: the scheduler runs
them again. Clients, the edge, the network, clocks and users need do nothing,
nothing need fail, and no connection need be made or lost, except where stated.

- *RateLimiter*: of a thread inside the limiter. *FlaskChat*: of `Proceed`; the AI
  client answers or raises (it has a timeout).
- *Supervisor*: of Run, and of each of its cases that stays ready, because `select`
  picks at random among the ready ones; of `Stop` and `Cancel`, since `Serve` selects
  on both channels.
- *EdgeTunnel*: of the observer and of Serve; strong fairness of `Connected`: a protocol
  the network lets through connects in the end if it is tried again and again. Only
  `BlockedQuicFallsBack` needs it.
- *EdgeAddrs*: the supervisor always calls Serve again, and an IPv6 address that
  stays unreachable makes Serve return with an error that rotates it. `V6IsAbandoned`
  states its own premise (`V6IsBroken`): from some time on IPv6 fails and IPv4 does
  not, and no primary timeout passes while a connection holds an IPv6 address.
- *EdgeConnection*: of its goroutines; calls of the edge have a timeout, and requests
  end because their contexts are derived from the one that is cancelled.
- *SessionsV3*, *DatagramsV2*, *DatagramsV3*: of every loop; a send to a loop that
  has gone is not a step that can be taken. Sessions need not go idle.
- *Orchestrator*: of an update under way; strong fairness of `WaitToCloseLastProxy`,
  which waits for a mutex that Go hands over to waiters that starve.
- *Management*: of a session's goroutines. *TunnelProcess*: of the main goroutine and
  the updater, whose download has a timeout; services end once they are told, as
  `RunGoesOn` and `ServeEndsRightly` show of the most complicated one.

`Steps` and `Commands` check safety only and assume none.

## 4. What the code does and its text does not say

Five runs find a violation of what a sentence in the code says:

1. `SessionsV3Dial`: when `DialUDP` fails, `RegisterSession` keeps the slot of the
   limiter (`cf/quic/v3/manager.go:78`); later registrations are refused although
   fewer flows are active.
2. `IcmpDarwin`: a request over a second connection replaces the flow of its echo id
   and so releases the id it keeps using (`cf/packet/funnel.go:126`,
   `cf/ingress/icmp_darwin.go:160`): another key gets it, and a request is sent on a
   flow that is not its own.
3. `TokenLock`: a process that has judged a lock file stale removes whatever is at its
   path by then, or judges a file stale that was just created and is still empty, and so
   gets the lock beside its owner (`cf/token/token.go:158`, `:228`); it takes no second
   process that reclaims.
4. `RouteFilter`: `--filter-network-is-subset-of` asks for supersets
   (`cf/cfapi/ip_route_filter.go:73`).
5. `TailFilter`: a sample without a level and an event is dropped
   (`cf/cmd/cloudflared/tail/cmd.go:195`).

Others were seen while modelling and have no run of their own.

*Flask server and api-server*

- `is_rate_limited` tests and appends without a lock: overlapping calls exceed the
  limit (`Overshoot` says by how much).
- A save writes back a history read before another request saved, so an export is
  not "the full raw history" (`src/app.py:763`, `:666`).
- `pinChat` and the settings row are a read and a write: clicks that overlap are lost.
- A chat that was renamed to, or imported as, "New Chat" is taken for one without a title
  and gets one by its next question (`chat-store.ts:39`), and auto-title replaces any title
  there is (`propotato.ts:99-106`).

*The tunnel*

- `initialize` may return nil, "if initialization succeeded", when the first tunnel has
  only been told to shut down (`cf/supervisor/supervisor.go:228`). Run then counts
  tunnels that do not exist, and cancelling blocks its drain (action `Blocked`);
  the properties except this (`early`).
- "If a single connection has connected with the current protocol, we know [...] we
  don't have to fallback" (`cf/supervisor/tunnel.go:277`) holds of connections the
  tracker has heard of: while its Connected event is lost or on its way, one that is up
  with QUIC stands there with the protocol it had before, and another may give QUIC up.
  And an entry has the protocol its connection used last, not all it has "ever" used
  (`cf/tunnelstate/conntracker.go:74`).
- While `startFirstTunnel` restarts tunnel 0, Run does not know; the grace period may
  be set with it down (`supervisor.go:192`). `GraceWhenAllConnected` excepts it.
- After `GetDifferentAddr` fails the old address need not be "available on the next
  iteration": it may be in the inactive set. If the primary timeouts of both regions
  pass in turn while IPv6 is broken, connections may go back to IPv6 for ever.
- Two migrations of one session may store their eyeball in one order and hand over
  their context in the other (`cf/quic/v3/session.go:165-166`), which
  `EyeballFollowsContext` excepts; the hand-over blocks if the serve loop has gone.
  A registration on a new connection of the same index is taken for a retry
  (`manager.go:64`).
- If the control stream cannot be opened, `quicConnection.Serve` returns before it has
  deferred `Close`, and nobody closes the QUIC connection
  (`cf/connection/quic_connection.go:89-92`, `:101`).
- A session that starts again after a failed write is listed twice, and `Remove` takes out
  the first entry only: it stays listed after its handler has returned, though inactive
  (`cf/management/logger.go:69-92`).
- "Otherwise, return packets will be send to the first observed incoming connection, rather
  than the most recently observed connection" (`cf/ingress/icmp_posix.go:188-191`): the
  test behind it compares the index only, so a flow keeps the muxer of a connection that
  was lost when the next one has its index.
- The SOCKS policy and the JWT handler are built from the `ipRules` and `access` of a rule
  alone (`cf/ingress/ingress.go:271-273`, `:315-322`), while the edge is told the merged
  ones (`cf/orchestration/config.go:38-60`): a policy of the `originRequest` above all rules
  is told as each rule's own and not enforced here, even one that is not valid.
- `pollDatagrams` blocks for ever if `Serve` of the muxer has returned with the channel
  full (`PollIsStuck`); `readEvents` of the management service can do the same
  (`cf/management/service.go:180`).
- A registration that times out is judged final by `serveTunnel`
  (`cf/connection/errors.go:42`); only the supervisor starts the connection again.
- The edge addresses of `--edge` ignore the family of the bound address; the user's
  feature "postquantum" is announced without strict mode; over QUIC the local IP that
  is reported is that of the edge (`cf/supervisor/tunnel.go:467`).
- A and AAAA queries write `resolver.address` at the same time, and the server that is
  remembered may be one that never answered (`cf/ingress/origins/dns.go`).
- `CustomDuration` writes fractions of a second it cannot read back
  (`cf/config/configuration.go:434-446`); `PacketRouter.nextPacket` ends on a datagram that
  carries a tracing span.
- The idle hint of a registration of datagrams v3 is a `uint16` of whole seconds
  (`cf/quic/v3/datagram.go:121`): one below a second, or a multiple of 65 536 s, is read
  as 0, and any fraction is lost. The error for a packet without hops is larger than a
  short packet by its own headers, as `cf/packet/packet_test.go:99-103` says.

*The process and the commands*

- Two updaters share `.new` and `.old`; a crash between the two renames leaves only
  `.old`. The watcher of service mode reads a file being rewritten as an empty
  configuration, and blocks on `ConfigDidUpdate` after the shutdown.
- A failed installation leaves unit files, and the next one is refused; the
  `systemctl list-units --all | grep` of an uninstallation runs without a shell, so
  every unit counts as there and a partial installation cannot be removed. The update
  timer is started and never enabled.
- `cloudflared-update.service` restarts cloudflared itself (`linux_service.go:81`) and no
  command stops it: it may start the service again behind an uninstallation, which then
  reports success, and an installation after it does so too while the old arguments run.
- The service of an installation by a user who is not root on macOS starts at the next
  login, not at boot, as the log says (`macos_service.go:120-123`).
- `tunnel run --credentials-file B A` runs B; a `create` that is killed leaves its
  tunnel; a listing misses a tunnel when another one is deleted between two pages. A
  virtual network may be renamed between look-up and call.
- `delete --credentials-file F A` removes F unread, whatever tunnel it is of
  (`subcommand_context.go:56-60`, `:234-236`). `writeTunnelCredentials` looks and then
  writes: mode 0400 keeps root from nothing, so the second of two that found F missing
  writes over the first (`subcommands.go:302-312`).
- `Filters` of a session never clears the sampler; lines queued before a restart are
  sent after it; a sample of p per cent keeps one per cent more. After a stop and a quick
  start two `streamLogs` take from one session, and what they send may change its order
  (`cf/management/service.go:192-193`, `:311`).
- A failed DNS look-up in one region is a hard failure with a protocol suggested all the
  same; if every check was skipped the environment is called healthy.
- Diagnostic files have fixed names in the directory of temporary files, which
  commands that run at once share. Archives are named by the second
  (`cf/diagnostic/diagnostic_utils.go:25-29`): of two in one second one is written over, or
  removed (`:41`), by the other. The errors of both `Close` are ignored (`:37-38`), so an
  archive that is reported may be cut short.

## 5. Proofs

| theorem | says | inductive invariant |
|---|---|---|
| `RateLimiterProofs!LimiterTypes` | the state is well typed | `TypeOK` |
| `RateLimiterProofs!OvershootBounded` | the deque exceeds the limit by at most one stamp per other call inside | `OvershootInv` |
| `RateLimiterProofs!SerialCallsKeepTheLimit` | while calls do not overlap, no window holds more admitted calls than the limit | `SerialInv` |
| `RateLimiterProofs!RefusedOnlyWhenFull` | while calls do not overlap, a refused caller met a full window | `SerialInv` |
| `RateLimiterProofs!RecallRunsForwardAndSurvives` | `RecallHolds`: a recall never runs backwards over a change of second, and a pruning takes nothing from it | `MemoryInv` |
| `FlaskChatProofs!HistoriesAreOrdered` | two messages never change order between two histories, a reply follows its question and appears once, a title stays in front | `InOneOrder` |
| `FlaskChatProofs!ChatsKeepTheirLog` | while no two requests of a chat overlap and nothing fails, the server implements `ChatLog` | `CalmDay` |
| `SupervisorProofs!CounterIsExact` | Run's counter is the number of goroutines it will receive from, unless the shutdown came before the first connection | `Bookkeeping` |
| `SupervisorProofs!WaitingTunnelsAreDown` | a waiting tunnel has no goroutine, is in the slice once, and the timer is armed exactly while some tunnel waits | `Bookkeeping` |
| `SupervisorProofs!SignalsOfRunAreFollowed` | the selected signal is of a connecting tunnel; the grace period is set only with every tunnel connected | `Bookkeeping`, `Signals` |
| `SupervisorProofs!RunOutlivesItsTunnels` | Run does not return past a goroutine it started | `Bookkeeping` |
| `SupervisorProofs!QuicIsKept` | no connection leaves QUIC while another is up with it that the tracker has heard of | `TrackerInv` |
| `SupervisorProofs!CountersStayInBounds` | the retries of connections and addresses never pass the limit they are compared with | `EdgeTypeOK`, `TrackerInv` |
| `SessionsV3Proofs!MapIsOfLiveSessions` | the map holds exactly the sessions between registration and end | `MapInv` |
| `SessionsV3Proofs!SlotsAreHeldBySessions` | slots are held by registered sessions and failed binds | `SlotsInv` |
| `SessionsV3Proofs!MigratedSessionsFollow` | a session that one goroutine at most migrates sends to the connection whose context ends it, once the migration is done | `EyeballInv` |
| `DaemonProofs!AddressesAreNotShared` | no two connections use one address | `PoolInv` |
| `DaemonProofs!AddressForEveryConnection` | with enough addresses in any pair of active sets `GetAddr` never fails | `PoolInv` |
| `DaemonProofs!RegionsAreUsedEvenly` | in regions of one family and as many addresses the numbers of used ones differ by one at most | `EvenInv` |
| `DaemonProofs!NilIsForShutdownOnly` | a connection returns nil only when the tunnel was asked to stop, and over QUIC only closed, unless the control stream could not be opened | `EndsInv` |
| `DaemonProofs!MapFollowsTheSessions` | the map of datagrams v2 holds no session that has ended, its channels never overflow, the slots are those of the calls | `MapInv` |
| `DaemonProofs!PayloadsKeepTheirOrder` | payloads reach the origin in order and once, whatever the channels drop | `OrderInv` |
| `DaemonProofs!LoadedProxyIsServed` | the loaded proxy's origins run until the shutdown; proxy, configuration, limit and version agree outside of the lock | `OrchInv` |
| `DaemonProofs!LogsGoToOneActor` | one actor at most streams the log, unless two were allowed at once; who is listed is served, unless listed twice | `StreamsInv` |
| `DaemonProofs!ProgramIsNeverLost` | whatever crashes, a whole program is left, and none that was not verified | `DiskInv` |
| `DataPathProofs!EveryEndIsHonest` | one head per stream, a clean end only behind a whole body, the limiter counts what is handled | `PathInv` |
| `DataPathProofs!FlowsAnswerTheNewest` | a socket is open exactly while its flow is registered, and answers over the connection that asked last, or one before it with its index | `FlowInv` |
| `DataPathProofs!CallersAreToldTheTruth` | success means that the handler succeeded, and what follows of a failure fits its cause | `CallInv` |
| `DataPathProofs!EchoIdsAreUnique` | an echo id is assigned if and only if a key has it, and no two have one | `EchoInv` |
| `DataPathProofs!NoForwarderIsLeft` | a forwarder that runs is registered or told to stop; none is left untold by a shutdown | `ForwarderInv` |
| `DataPathProofs!IngressKeepsItsMeaning` | a request meets the first rule that matches; the edge reads what the rules are configured to; that is in force here but for inherited policies | `RulesInv` |
| `DataPathProofs!ConnectionsDoAsConfigured` | the four parts of `ConfigurationHolds` | `SettingsInv` |
| `DataPathProofs!SocksTellsTheTruth` | dials are allowed, data arrives without gap, replies are true | `SocksInv` |
| `DataPathProofs!WireIsReadAsWritten` | what one end writes the other reads as it was but for an idle hint, for every id, size and list of headers; errors fit and quote all that fits | `WireInv` |
| `OriginDialer!DialsGoWhereTheyMay` | the virtual address goes to a resolver given or heard of, any other to a dialer not older than the dial | `OriginInv` |
| `CommandProofs!LocksHaveOneHolder` | one process at most holds a lock nobody reclaimed | `LockInv` |
| `CommandProofs!CredentialsLast` | a tunnel keeps its credentials until it is deleted, at a path no two commands crossed on; a listing that met no deletion is complete | `AdminInv`, `SecretInv` |
| `CommandProofs!CommandsDoAsAsked` | routes and virtual networks that change are those asked for | `NetworkInv` |
| `CommandProofs!InstallsAreReported` | what (un)installed with success is, or is not, there, after a reboot too, unless the update unit restarted it meanwhile | `InstallInv` |
| `CommandProofs!PrechecksAreReported` | the report says what happened | `RowsInv` |
| `CommandProofs!ArchivesAreHonest` | a command leaves an archive or an error; it says truly which jobs failed; alone, it has its own jobs' files and its own archive | `DiagInv`, `ZipInv` |
| `CommandProofs!TailPrintsWhatWasAsked` | lines are printed once, in order unless a page has two streams, and by a tail as asked | `TailInv` |
| `CommandProofs!DeletionsLeaveNothing` | what a deleted chat leaves behind is of requests that met the deletion | `DeletionInv` |
| `CommandProofs!StoredHistoriesStand` | `HistoriesStand`: the workspace server implements `ChatLog` on a serial day, and then only a request for a title replaces one other than "New Chat" | `SerialDay` |

The assumptions are those the modules state, each named in its module, and TLC evaluates
them in the runs. They are the types of the constants; that a constant which stands for
"none" (`None`, `NoEcho`, `Absent`, `Nil`, `Nothing`, `NotGiven`, `NoLock`, `NoResult`,
`NoError`, `NoSession`, `NoConfig`, `Missing`, `Null`, ...) is none of the values it
stands beside; that sets that are counted are finite (`EdgeAddrsAssumption`,
`LimiterAssumption`, `V2Assumption`; request ids of `SlotsAreHeldBySessions`, requests
of `EveryEndIsHonest`); and that there is something to choose from (`ServiceAssumption`:
a forwarder has a configuration; `NetworkAssumption`, `AdminAssumption`: there are
names). Four say something of the world: a resolver that is given to the dialer has an
address (`cf/cmd/cloudflared/tunnel/configuration.go`, l.217-222, guarantees it); the
path of `--credentials-file` is not the file named after a tunnel's id
(`AdminAssumption`), which is a UUID nobody knows before `create`; and the data of a
SOCKS client is a sequence (`SocksAssumption`). `WireAssumption` says that a payload of
the largest size and an id fit a frame (1280 + 16 and 1350 in the code), that the least
MTU leaves room for headers, and that no word has ":" or ";", which base64 has not.

*The Flask server and the workspace server*

- *OvershootInv.* `Overshoot` alone is not inductive: a thread that has passed the
  length test is a stamp that the deque does not hold yet. The invariant counts
  these threads: stamps plus threads about to append are at most
  `MaxRequests + overlap - 1`, and no more than `overlap` threads are inside. A
  thread that passes the test sees fewer than `MaxRequests` stamps and at most
  `overlap - 1` other threads about to append.
- *SerialInv* says that, while calls do not overlap, the deque is a ledger: its stamps are
  in order, a stamp with k behind it has k admitted calls after it (`Ledger`), and all
  that was admitted and is not stale at the caller's `now` is in it (`UpTo`). A stamp that
  is dropped is older than any window that ends now or later (`StaleDropped`), so the
  length test counts the window. That the caller is alone (`Alone`) keeps what it has seen
  of the deque true (`HasSeen`). `AdmittedSince` is a recursive function: that it has a
  solution (`SumExists`) and grows by one up to an admission (`SinceAdded`) is shown at
  the latest second for which it would fail (`SmallestNumber`).
- *MemoryInv* says that of two rows the one of the later second has the larger id, which
  holds because ids and the clock only grow. Pruning and recall rank by the same column,
  so the newest of the newest are the newest (`NewestOfNewest`); this needs that no more
  is recalled than kept (`MemoryAssumption`: 10 and 500).
- *InOneOrder* speaks of every text there is, on disk or in the hand of a request
  (`Texts`): they are subsequences of one order, and what a request has yet to say
  stands in none of them (`NotSaidYet`), so that an append puts a new message behind
  old ones only. A crash, a failed call or an overwritten file takes texts away and
  adds none (`NothingNew`).
- *CalmDay* says that each request that runs is alone with its chat, that chats do not
  share a file, and what a request has in its hand compared with the file (`OnTrack`).
  Each step then leaves the logs alone or is the step of `ChatLog` named by `StepOf`;
  `LogsAfter` is the lemma that a step on one chat leaves the logs of the others.
- *DeletionInv*: the messages of a chat that is gone or about to go, and the requests on
  it, have met the deletion. It needs the moment between the two statements of a
  deletion, when the messages are gone and the row is not. *SerialDay*: a question is the
  last message until its reply, and a question that has read "New Chat" replaces just that.

*The tunnel*

- *Bookkeeping* adds to the two properties `BeforeLoop`: until the loop is entered
  exactly the tunnels below `started` run, nothing waits, and the first tunnel has
  not ended gracefully unless the shutdown came early. In the loop each case moves
  the counter and the set of live goroutines together (`OneMore`, `OneLess`); when
  the timer fires, the counter grows by the length of the slice and the live set by
  its elements, which are as many because no index is in it twice (`WaitingLength`).
  It also keeps that the counter is never below the goroutines (`NoneUncounted`), even
  after an early shutdown, so Run waits for all of them. *Signals* adds that a live
  tunnel without a closed signal is in the map of those that connect.
- *TrackerInv* says of each connection that is up where its Connected event is
  (`IsHeardOf`): lost, or the last of its kind on its way, or the last that the tracker
  has read, and then its protocol stands there. The other events of a connection leave
  the protocol alone, and those of the others concern other entries, so losing them
  does no harm (`OthersAreHeardOf`; `EventsAfter` is what a full channel keeps).
- *MapInv* ties each entry to the program counter of the goroutine that made it:
  an entry under an id is the handler at "respond", "serve" or "unregister". Hence
  `Register`, which finds no entry, replaces nobody, and `Unregister`, which
  deletes by id, deletes its own entry. *SlotsInv* adds the counter, which follows
  the cardinality of the map's domain.
- *EyeballInv* says what one migration at most does to a session from its registration
  on: `eyeball` is the connection that registered it, then the one of the migration that
  stands at "push" and whose context is still to be handed over. A goroutine has a target
  only from `GetSession` on, and the target was registered (`TargetsAreSessions`).
- *PoolInv* adds `ActiveSetExists`: a region is on its secondary set only if it has
  one. `AddressForEveryConnection` is a pigeonhole argument: if every address of
  both active sets were taken, each by a connection of its own (`OneAddressEach`),
  and this connection has none, fewer connections would use the active sets than
  they have addresses.
- *EvenInv* adds that only addresses of the primary sets are used, so that the free ones
  of a region are its addresses without the used ones (`Counts`). A new address is of the
  region with more free ones, which has not more used ones (`ChoiceOfRegion`), unless the
  only free one there is the excluded one, which was just given back; then the regions
  differ by what that took away (`RotationKeepsEven`; `NoChoice` when nothing is left).
- *EndsInv* keeps, with each goroutine that has ended, the error that its end has
  recorded, so that none is left to be taken for nil: over QUIC the group ends only by
  an error, and over HTTP/2 nil is what `serving` ends with if nothing failed, which
  only a stop can bring about. Without a control stream none of the goroutines was started.
- *MapInv* of `DaemonProofs`, unlike that of datagrams v3, says how much of a session's
  `closeChan` is spoken for (`CallInv`): one place for its reader while it reads, one for
  the manager while it is in the map. Hence neither ever waits. A close by this side
  meets a session that is not registered any more only if its id was registered again.
- *OrderInv* puts the datagrams in one line: written to the origin, in the channel of the
  writer, in the channel of the connection, in the hand of the poller; each place is
  before the next, and the number of the last received bounds all. A channel that is full
  leaves one out, which keeps the line in order (`TailNums`, `AppendNums`).
- *OrchInv* says what the update that holds the lock has replaced so far (`Replaced`), and
  that the channel it will close is that of an older one: the origins it stops are those
  of no proxy in force.
- *StreamsInv* adds those who were allowed and do not listen yet: each has the actor of
  those who listen; and that an active session has a goroutine (`ListedInv`). *DiskInv*
  says what is on the disk at each step of `Apply`.

*The way of the data*

- *FlowInv* adds to the property that the tracker's entry for a key is a flow of that
  key (`Registered`), so that no step on one key touches the flow of another: a flow
  is closed only when it leaves the tracker, by replacement, by its own end or by the
  clean-up, and the one that replaces it has the responder of the request, which is
  then the last. A connection that is made again changes which muxer is the present one
  and no flow. `OnlyOtherFields` is the lemma for steps that leave all this alone.
- *EchoInv* is the property with the types. That it is inductive rests on `Release`: it
  frees an id only if the key of the closed flow still has that id, so an id that was
  given out again is not taken back. `FreeIdIsFree` says that the search finds a free
  id, and needs that a nonempty set of numbers has a minimum (`LeastOfNumbers`).
- *PathInv* says what has been sent at each place of the handler (`Sent`): no head
  before the origin answered, exactly one after. `Fail` may therefore send a head only
  where none was sent and has to reset the stream elsewhere. `Limited` says which
  requests pass the limiter; its counter follows the cardinality of the set of those
  between `Acquire` and their return (`FlowsChange`).
- *CallInv* keeps what is on its way tied to what the handler returned: an answer is
  the coding of the outcome, a result its decoding, or the loss of the call. That
  the reading of an answer gives back what was written is `ErrorsSurvive`, by the kinds
  of calls.
- *ForwarderInv*: a service is replaced in the map only in the step that tells it to
  stop, and a removed one likewise; a new one is registered in the step that creates it.
- *RulesInv* remembers where the rules came from: they are none, the single one of the
  flags, or built from a list that `Valid` accepted. The last of them catches all
  (`LastRuleCatchesAll`), so the search ends at a rule, the first that matches
  (`FirstMatchIsFound`); and the list that is told builds the same rules again
  (`RulesAreReadBack`), because an option is left out only where it is the default.
  `MeaningStands` adds what is in force.
- *SettingsInv* keeps of a connection that its snapshot is one the flags allow
  (`GoodSnapshot`), whatever the record of the account said when it was taken, and that
  family and key exchange are those of the flags. Address and family fit because the
  inputs that do not are refused (`InputsAreJudged`, `BindRefused`), so they never run.
- *SocksInv* says where everything is that the client has sent: some was taken by the
  handshake, some is with the target, some buffered, the rest has come (`InPlace`), in
  the order of the script. Copying from the buffer first therefore skips nothing. Before
  a dial the address in the request is one that was judged (`Judgement`), since the
  name was replaced by it; and where the server is tells what was replied (`Answered`).
- *WireInv* says that what is written is the coding of the message and what was read is
  how that arrives (`Arrives`); the work is in the lemmas on the coding. For datagrams
  they find each field where the reader looks for it (`ReadsV2`, `ReadsV3`). For
  headers, `SerializeHeadersIs` shows that the recursion of the loop has a solution, and
  `SerializedList` that its pairs stand between the separators, each by the shortest
  list for which that would fail; `OneWordMore` is the step, `SplitIs` that splitting
  gives back what stands between, and `InOrderIs` that a set of numbers has one rising
  enumeration.
- *OriginInv*: the resolvers are those given, or the default until one was heard, or
  some that were heard (`ResolverInv`); a dial's choice was one of them, or a dialer no
  older than the dial (`DialInv`).

*The commands*: each invariant says what a process has found out and is yet to act upon,
and why the others cannot have made it false meanwhile.

- *LockInv*: between `O_EXCL` and the return of `getToken` the lock file is there and is
  its creator's, unless it was reclaimed.
- *AdminInv* has the types and that two commands do not delete one tunnel, because the API
  refuses the second. *SecretInv*: at a path that is not crossed a command that is about to
  write finds it missing and is alone (`WritesAlone`), one that deletes still finds the
  secret of its own tunnel there (`DeletesItsOwn`), and so a live tunnel whose credentials
  were written has them, whole. A listing that
  met no deletion holds the oldest tunnels in their order (`Gets`, `PlaceOf`), as a new
  tunnel comes last, and so the next page continues it.
- *NetworkInv*: the route and the virtual network that a command found are those that the
  name and the address meant at some moment of the command (`FoundRight`, `NamesKnown`).
- *InstallInv* says which of the claims of a success are already made good, given the set
  of commands still ahead (`Claims`); with nothing ahead it is the property. What the
  machine does by itself is in `MachineInv`.
- *RowsInv*: a row agrees with its attempts (`RowIsTrue`). *DiagInv*: a file is of a busy
  command or of a collection that broke off. *ZipInv*: an archive that has its second for
  itself is empty or its command's. *TailInv*: what was printed, what is on
  the way and what is kept are rising and come one after the other, and no two streams hold
  the same line (`Pipe`, `Holding`); one stream holds a single line, which stands between.
  For a tail all of it was asked for (`Asking`).

Only model-checked:

- everything with fairness, which the proof system cannot treat: of the properties of
  `Daemon`, each of which has a part of that kind, the other part is a theorem;
- the last part of `CallsAreJudgedRightly` and the second of `SessionsFollowContexts`,
  which are of liveness; the others are the theorems `SerialCallsKeepTheLimit`,
  `RefusedOnlyWhenFull` and `MigratedSessionsFollow`.

## 6. Plan

What has been done: the parts whose failure loses a user's data or the tunnel came
first, then the way of the data, then the process and the commands; the theorems in the
same order. What would come next, in this order:

1. Theorems: what the properties of liveness rest on, as invariants: that no goroutine of
   a connection, of a stream of the log or of the process waits for something that
   nobody is left to do.
2. Compositions: `EdgeTunnel` over `EdgeAddrs`, with the pool in the place of `spare`;
   `SessionsV3` under `Orchestrator`, with the limit of the configuration in force.
3. Several calls at once over one QUIC connection, for `Calls`.

## 7. Not modelled

- In `app.py`: settings, prompts, titles, greetings, the choice of model and the
  Wolfram call. They are one file or one call each, and the chats share nothing
  through them. In `api-server`: the Groq stream (an input that ends or fails),
  wiring, logging, the schema. The React page and its components, the web pages of
  the Flask server, stored chats and images: no state but the view, or data.
- In cloudflared, parts that have no state between two events: origin services and
  their transports, the Windows ICMP proxy, `websocket`, `cfio` and `hello`, metrics,
  tracing and logging, credentials, key material and TLS settings, the look-up of
  hostnames, `signal`; and the parsing of command lines and the wording of output.
- In the modelled parts of cloudflared: durations of backoff and grace periods;
  contents of payloads; the DNS look-up of the edge (its result is an input);
  `GetAddrForRPC`, which gives out an address without recording it; the generated
  coding of RPC (a value is compared, never looked into); one call at a time in
  `Calls`; encryption and the SSH commands of `Token`; the collectors of `Diagnostic`,
  which parse the output of system tools; the route of an address in `NetworkAdmin`;
  the Windows service once it runs; the user-and-password method of SOCKS, which
  nobody registers; the batch file of the updater on Windows.
- Data races on `tunnelsProtocolFallback` (`cf/supervisor/supervisor.go:235`) and on a
  session's logger (`cf/quic/v3/session.go:168`), on which no modelled state depends.
- Vendored and generated code, assets, tests and packaging.
