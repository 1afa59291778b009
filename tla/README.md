# A TLA+ model of g3proxy

g3proxy is an enterprise forward proxy written in Rust, kept with the tools and
libraries around it (g3tiles, g3statsd, g3keymess, ... and the crates of
`lib/`). This directory holds TLA+ modules for the parts of it whose
correctness depends on the order of events: hand-written futures that serve
many clients from shared tables, tasks that talk to each other over channels,
timers that race with answers, connections that are kept, retried and handed on,
relays with several peers that may each fail, and lock-free counters. TLC checks
the modules on small instances; TLAPS proves the theorems listed below for all
instances.

Paths are relative to `src/`, as in `PROJECT.json`, whose `map` gives the source
lines of every definition.

1. [The system](#1-the-system)
2. [Modules](#2-modules)
3. [Runs](#3-runs)
4. [Bounds](#4-bounds)
5. [Fairness](#5-fairness)
6. [Proofs](#6-proofs)
7. [Where code and documentation disagree](#7-where-code-and-documentation-disagree)
8. [Not modelled](#8-not-modelled)
9. [Plan](#9-plan)

## 1. The system

A request enters through a *server* (`g3proxy/src/serve`), is attributed to a
*user* (`auth`), may be *audited* and *inspected* (`audit`, `inspect`), and
leaves through an *escaper* (`escape`), which may need a *resolver* (`resolve`).
Each connection is a tokio task of its own. Tasks share little: what they share
is where the difficult behaviour is.

| Part | State | Operations | Talks to | What makes it hard |
|---|---|---|---|---|
| DNS resolver, `lib/g3-resolver` | cache, stale records ("trash"), keys being queried with their waiting clients, delay queues | get, response, expiry, update, quit | clients, driver, owner thread | one future polls four event sources; a source not polled to `Pending` has no waker; clients give up at any time; answers, expiry and requests race |
| DNS drivers, `lib/g3-resolver/src/driver` | none (c-ares), two jobs (fail-over), a server list (hickory) | one query, one response | resolver, DNS servers | protective timeouts, fall-back delay |
| DNS record lifetimes, `record.rs` | two deadlines | constructor | resolver | `u32` arithmetic without overflow checks |
| Two-task cache, `lib/g3-io-ext/src/cache` | cache, `doing`, vanish queue; `doing_cache`, timeout queue | fetch, response, vanish; query, answer, timeout | callers, query task | two tasks with a view each of the same query; shutdown order |
| Certificate agent, `lib/g3-cert-agent` | write queue, UDP socket | query, receive, send, timeout | two-task cache, certificate generator | lost, late, repeated datagrams; failing socket |
| IP location client, `lib/g3-ip-locate` | networks, `doing`, timeout queue | fetch, result, push, timeout | callers, location service | results nobody asked for; nothing is evicted |
| route_query escaper | as the certificate agent, with request ids | the same | two-task cache, selector service | two maps that must stay inverse |
| Limit on simultaneous requests, `gauge_semaphore.rs` | one atomic counter | acquire, release, reload | request tasks | check and update are two steps |
| Users and hosts, `auth/user.rs`, `g3tiles .. host.rs` | limiters and counters | reload | configuration, requests | what a reload carries over |
| HTTP pipeline, `serve/http_proxy/task/pipeline` | request queue, the read half of the client's stream, a task counter | parse, queue, serve, hand back | client, request tasks | two tasks own one stream in turn |
| HTTP forward task, `serve/http_proxy/task/forward`, `module/http_forward` | kept upstream connection, flags for retry and close | send, copy, adapt, retry, answer | client, upstream, ICAP server | early, interim, broken and missing answers decide what may be used again |
| ICAP pool, `lib/g3-icap-client/src/service` | idle count, pollers, two channels | fetch, save, check, idle timeout | adaptation tasks, ICAP server | a counter read by one task and changed by others; stale fetches |
| FTP upload audit, `reqmod/ftp`, `audit_bridge.rs` | channel, batch, captured header | relay, copy, drain, verdict | client, FTP server, ICAP server | two transfers at different speeds |
| FTP proxy session, `serve/ftp_proxy/task.rs` | pending data channel, replies under way | commands, replies, data | client, FTP server | replies read in five places, waits without a timer |
| FTP over CONNECT, `upload_state.rs`, `inspect/ftp` | marks of pending uploads, known servers | mark, consume, expire | control and data tunnels | connections matched by order alone |
| Registries, `*/ops.rs` | named components, dependencies | spawn, reload, delete | all components | components replaced while others hold them |
| Offline servers and shutdown, `lib/g3-daemon` | servers that stopped accepting | quit, wait, time out | server tasks | termination with tasks alive |
| Speed limits, `lib/g3-io-ext/src/limit` | token bucket, windows | check, refill | stream copies | boundaries of windows, wake-ups |
| Servers, ports, escapers, inspection, protocol libraries | per connection | protocol steps | sockets | pure I/O and parsing |
| g3tiles, g3statsd, g3keymess, g3fcgen, g3iploc, g3mkcert, g3bench | own | own | own | see section 8 |

What should be true of the modelled parts:

* no request is passed over, answered out of turn, or sent to a server in part
  after a retry, and a connection that is kept carries nothing of its last use;
* a transfer that ends well is the whole file, whatever becomes of its audit;
* nobody waits for an answer that cannot come, and no answer is delivered twice
  or to the wrong party;
* the tables of one component agree with each other and with the timers: an
  operation on a dead timer handle panics, and a record without a timer stays
  forever;
* a task that parks will be woken by the next event;
* clients never see an older answer after a newer one;
* a panic marked `unreachable!()` is unreachable, in particular at shutdown;
* tasks end when they are told to;
* a limit is neither exceeded nor enforced too early;
* lifetimes are those that the documentation gives.

`PROJECT.json` lists the hazards behind these, at the lines where they bite,
with the properties that cover them.

## 2. Modules

Definitions keep the names of the functions they model. Definitions marked
`(wrong)` are not part of any specification: each changes one definition in the
way a plausible mistake would, and serves to test that a property notices.

### ResolvedRecord

`ResolvedRecord::resolved` computes when a DNS record expires and when it
vanishes. `Ttls` is that computation with `u32` arithmetic modulo `U32`, which
is how it behaves in a release build; `CheckedMax` is the check that the driver
configurations make. `DocTtls` is the reference, in closed form, of the shell
script in `sphinx/g3proxy/configuration/resolvers/index.rst`.

### Resolver

The runtime of the caching resolver with its clients, its owner and a driver.
`pc` is the place in `poll_loop`; each `Poll...` action is one iteration of one
of its inner loops, with the whole handler (`handle_rsp`, `handle_expired`,
`handle_req`, `handle_cmd`) inside. Wakers are explicit: `armed` holds the event
sources that were polled to `Pending`, `woken` says that the task is scheduled,
and a send on a source that is not armed schedules nothing. Clients, owner and
time may act between any two steps of the loop; the driver's tasks run on the
same single-threaded executor as the runtime and so only while it is parked.

Abstractions. A key stands for a domain and an address family, since the v4 and
v6 tables are separate and alike. An answer is positive (with a TTL), negative
or an error, with a version number that orders the answers of a key. Deadlines
are stored as time left. Statistics are left out. `told` is a history variable
with the version last given to a client. tokio's cooperative budget, which may
return from a poll early with the task scheduled again, is left out.

The c-ares driver is the action `DriverAnswer`: one response for each query,
at the protective timeout at the latest.

### EffectiveCache

The generic cache of `lib/g3-io-ext/src/cache` with the query task of the
certificate agent behind it. The cache task is modelled like the resolver's
runtime, except that the wakers are implicit: it polls every source to `Pending`
before it parks, so it is scheduled as soon as one has something. The query task's
handlers are actions of their own, which allows more orders than its loop does.
`asked` and `air` are the network: the peer answers what it was asked any number
of times, and datagrams are lost and reordered freely. A certificate is
represented by its lifetime; `TtlOf` is the clamping of `query.rs`.

### IpLocate

The IP location client has the same two tasks with different rules: locations
are cached by network and found by longest match, are never evicted, and serve
past their expiry when a query brings nothing; the peer may push; and results
are passed to the cache task whether or not a query waits for them. `ignored`
is a history variable: the addresses for which an empty result had no effect.

### HttpForward

The task that forwards one HTTP request after the other for a client
connection. `pc` is the function the task is in: `checks` (the first half of
`run_forward`), `connect` and `reconnect` (`get_new_connection`, from
`run_forward` or from inside a retry), `start` (`run_with_connection`), `send`
and `rsp1` (a request without a body or with all of it at hand), `copy`
(`run_with_body`), `adapt` (`run_with_adaptation`), `final`
(`recv_final_response_header`), `reply` (`send_response` and `save_or_close`).
`t` holds the fields and locals that decide: `should_close`,
`send_error_response`, `retry_new_connection`, the copy buffer, what was read.
Bodies are numbered units, so that a unit lost, repeated or taken from the next
request is seen. Reading ahead and writing behind are separate steps of the
copy. `up` and `last` are the connection in use and the kept one; the upstream is
free to answer early, to send interim responses (100, 103 and the 102 that the
code does not know), to break off, to stall and to close. `t.ad` is the place in
the exchange with the ICAP server, `asked` while an adapter is awaited; where
that server may keep the task (`AwaitsIcap`) nothing makes it answer. An answer in
`out` remembers whether it was the final one.

Six events after which the code does not keep all of its promises are part of
the model and remembered in `t.rare`: the properties name them where they
matter, and hold without exception otherwise. They are listed in section 7.

### HttpPipeline

Reader and writer task of a client connection, the bounded queue between them
and the read half of the stream, which is with the reader, inside a request, in
the channel back, or gone (`stream`). `ReaderCut` is the branch of the reader's
`select!` that sees the writer's end closed, at any of its awaits. The counter of
tasks is changed after the send and after the hand-back, as in the code. The
task of a request is one step, its end: it has answered once and read the body, or
closes, or it has one of the three ends `Odd`, which `odd` remembers with the request:
it could not set the client's socket options, it left the body or its trailer unread,
or it answered twice. These are the ends of HttpForward's rare events `sockopt`,
`early` and `reconnect`, and of an FTP upload whose connect or STOR fails or whose
trailer does not come (`serve/http_proxy/task/ftp/task.rs:471`, `493-507`,
`1413-1415`). CONNECT and the untrusted task, which reads the body of a request
that failed to authenticate, have steps of their own.

### IcapPool

The pool task with its biased `select!`, the tasks it spawns, the pollers that
own the idle connections, and the adapters that fetch, use and save them. A
connection is a record with the two flags of the code and the facts that they
stand for: whether a request was written to its end and a response read to its
end. A caller that goes past the pool asks the server for its options over a new
connection first (`GetOptions`), and so does the pool now and then (`OptionsTask`,
counted in `asking`); neither wait has a limit. `Check`, `HandleClientCmd` and `HandlePoolCmd` are the branches of
`into_running`; `PollerEnds` is the code after a poller's select.

### FtpUpload

One upload that is forwarded to the FTP server and copied to an ICAP server:
the request for the server's options where the pool has no connection, the relay loop, the ICAP task with its batch, the two sockets with what they
hold, an ICAP server that reads, echoes or hangs and may die, and the background
task that reads the verdict and saves the connection. Chunks are counted: all
queues are first in first out. The batches of the code are 16 chunks or 4 MiB, the
channel holds 64.

### FtpControl

A session of the native FTP proxy: client, control relay, passive data
channels and FTP server. One read from the server gives one or several of the
replies that have arrived. What UploadData does to the chunks is what FtpUpload
establishes; `FallbackStops` is the upload that the fallback ends at an idle tick,
and `IcapHolds` the one that FtpUpload leaves waiting. Data channels are told apart by
where the client was told to connect to: the relay's listener, the server itself
when the relay passed the server's reply on as it was, or, by the reply to PASV
with its fixed 127.0.0.1, the client's own host, where nobody listens unless the
client is `near`. A client may leave at any time.

### FtpTunnel

FTP inside HTTP CONNECT tunnels. The relay of a control tunnel marks uploads in
a state shared by all tunnels, and data tunnels take a mark at their connection
or at their first byte to know what they carry. A data tunnel to a server whose
domain is not known, which finds no mark, is inspected or, for a task that is not
audited, passed through (`transit`). `fate` is a history variable with what became
of an upload's mark, or of the upload that was not seen.

### AliveLimit and GaugeSemaphore

`GaugeSemaphore` is the atomic counter behind the limits on simultaneous
requests. Load and compare-and-exchange are separate steps, and a reload
(`new_updated`) puts a new limit on the same counter while calls are under way.
`AliveLimit` is what such a limit promises: each call decides in one step,
against the permits that are held at that moment. The refinement mapping is
`Seen`, which hides where in its loop a call is.

### MC modules

Each module `M` has an `MCM` that extends it for TLC. `MCResolvedRecord` makes the
pure computation a system whose states are all configurations and answers of a
small type; `MCFtpTunnel` declares the sessions and the names of files
interchangeable, which is sound as it checks invariants only.

### How the modules fit together

HttpForward and HttpPipeline are two sides of one connection: HttpForward's
`OneAnswerInOrder` and `ReadToTheEnd`, with the events they name, are what
HttpPipeline takes the end of a forward task to be (it answers, and gives the stream
back at the end of a body or not at all, or the end is one of `Odd`); that the task
ends at all it does not take from HttpForward's `TaskEnds`. HttpPipeline's `TaskHasStream` and `ParsesAtBoundary`
are what HttpForward's `TakeRequest` starts from. In the same way FtpUpload's
`UploadWhole` and `EndsUnlessIcapHolds` are behind FtpControl's `UploadData`, `FallbackStops` and `IcapHolds`, and
FtpTunnel says which transfers FtpUpload is run for. The ICAP connection that
FtpUpload saves clean (`SavedClean`) is the one IcapPool hands out.

## 3. Runs

| Run | Configuration | Expected | What it shows |
|---|---|---|---|
| `record_ttls` | `MCResolvedRecord.cfg` | pass | `TtlsAsDocumented` for all bounds whose sum fits the type |
| `resolver` | `MCResolver.cfg` | pass | tables and queries agree (`OneQueryPerKey`, `TablesAgree`), no wake-up is lost (`NoLostWakeup`), `AnswersGoForward`; every client is answered or learns that the runtime is gone (`JobAnswered`); `ShutdownCompletes` unless the configuration was updated |
| `cache` | `MCEffectiveCache.cfg` | pass | `OneAnswerToCome` and `TimersMatch`, with lost, late and repeated datagrams; `OnlySocketPanics`: the `unreachable!()` of the cache task is reached only after the socket failed; `FetchAnswered` |
| `iplocate` | `MCIpLocate.cfg` | pass | `TimersMatch`, and `AnswerToCome`, which names the empty result that leaves an address waiting |
| `semaphore` | `MCGaugeSemaphore.cfg` | pass | `GaugeIsHeld`, and the refinement `DecidesAtOnce` |
| `http_forward` | `MCHttpForward.cfg` | pass | one answer for each request, in order, from its own exchange (`OneAnswerInOrder`); bodies arrive whole from their first unit (`BodyIntact`); the client's stream is given back at a boundary (`ReadToTheEnd`); kept connections are clean, also behind several interim responses (`KeptClean`); a task that does not end waits in the header of an early response or for the ICAP server (`TaskEnds`) |
| `http_pipeline` | `MCHttpPipeline.cfg` | pass | `AnswersInOrder`, `ParsesAtBoundary`, `TaskHasStream` (the `unreachable!()` arms of the writer), `HandBackFailsOnlyOffline` (the code's "impossible"), `QuitsOnlyIdle`; reader and writer end when the server goes offline unless the task of a request does not (`OfflineEnds`) |
| `icap_pool` | `MCIcapPool.cfg` | pass | `IdleCount`, `HandedClean`, and no deadlock; `FetchEnds` unless the server does not answer OPTIONS, `PoolRefills` even then |
| `ftp_upload` | `MCFtpUpload.cfg` | pass | `UploadWhole`: no failure of the audit costs the upload a chunk; `AuditConserved`, `SavedClean`; `EndsUnlessIcapHolds`: only an ICAP server that does not answer OPTIONS, or does not read, keeps an upload from its end |
| `ftp_echo` | `MCFtpUploadEcho.cfg` | violation | `UploadEnds` fails with an ICAP server that echoes (section 7) |
| `ftp_control` | `MCFtpControl.cfg` | pass | `RepliesKept`, `TransfersWhole`; `CommandAnswered` and `LeaverLetGo` unless the relay is for good in one of `Waits` |
| `ftp_tunnel` | `MCFtpTunnel.cfg` | pass | `UnauditedExplained`, `AuditedFresh` |

The type invariant `TypeOK` of a module, which holds the capacities of queues and
channels, is a conjunct of one of the invariants of its run (`TimersMatch`,
`BodyIntact`, `TaskHasStream`, `IdleCount`, `AuditConserved`, `RepliesKept`,
`AuditedFresh`); FtpTunnel and IcapPool call theirs `TunnelTypes` and `IcapTypes`.
For Resolver and GaugeSemaphore it is proved, as are Resolver's `NoLostJob` and
`DriverAtHand`, and no run repeats them.

Tasks, sessions and connections that end for good have their configurations
switch the check for deadlocks off. What would be a deadlock before that end is
caught by the liveness properties, except in IpLocate, for which none is stated;
FtpTunnel only has a clock that stops. The other systems never stop and are checked
for deadlocks.

## 4. Bounds

* *Clients and keys* (Resolver, EffectiveCache, IpLocate). Two clients of one
  key. Different keys share no table entry, no timer and no query in any of the
  three caches; they meet in the channels and in the batch counter only. Two clients
  make one join the query of the other. The proofs cover any number
  of keys and clients.
* *Time.* Deadlines of one to four units order all the pairs that race: expiry
  against vanishing, timeout against answer, lifetime against refresh.
  In `MCResolver.cfg` the TTLs 2 and 4 with the bounds 1 and 2 take different
  branches of `Ttls`; in `MCEffectiveCache.cfg` the lifetimes 0 and 3 take the
  two clamped branches of `TtlOf`.
* *`MaxUpdates`, `MaxVer`* (Resolver): commands queued by the owner, and
  versions told apart. At `MaxVer` all later answers look alike, so
  `AnswersGoForward` is checked for the first three.
* *`MaxWriteQueue`* (EffectiveCache, IpLocate): `write_queue` is unbounded in
  the code and keeps requests that have timed out. Two entries, in IpLocate,
  allow a timed-out request and its repetition to be in the queue together.
* *`MaxWork`* (IpLocate): a stale empty result can release an address, whose
  next request starts another query, so the channels are unbounded too. The bound
  holds back the sender of a query and the arrival of a datagram, never a
  timeout or a failed send.
* *Networks* (IpLocate): one address in a network of its own and in a wider
  one, so that the longest match matters.
* *`UsizeMax`, `Counts`, `Limits`* (GaugeSemaphore): three threads asking for one
  or two permits with limits "none", 2 and 3 reach the limit, and with a largest
  value of 4 the overflow check too. `U32` (ResolvedRecord) is 32.
* *`MaxRequests`, `MaxBody`, `MaxHints`, `MaxRare`* (HttpForward): two requests make
  one inherit the connection of the other; bodies of up to two units are read at
  once, in part or not at all before the first attempt. Two interim responses to a
  request let a 103 follow a 103, a 100 follow that, and another 1xx follow a 100. A
  run has one kind of rare
  event, so that each is seen on its own. One host: a request to another host
  drops the kept connection, which is what its poller may do at any time.
* *`MaxRequests`, `PipelineSize`* (HttpPipeline): three requests with a queue of
  one, so that one is served, one waits and the reader blocks on the third.
* *`MaxRounds`, `MaxFaults`, `MaxCreating`* (IcapPool): two rounds of one caller
  leave a poll request of the first behind for the second; two faults lose the
  connections of a full pool. `MaxCreating` bounds connects in flight at a tick, which
  the code does not.
* *`FileSize`, `ChannelSize`, `BatchSize`, `SocketSize`* (FtpUpload): the file of
  eight chunks is larger than channel, batch and sockets together, so that all of
  them are full at once.
* *`MaxCommands`, `FileSize`* (FtpControl): four commands are two transfers, each with
  its data channel, or one behind a channel asked for twice; two chunks leave a file
  in part on its way. A session has one of these at most (`Usual`): a refused download, a
  second data channel asked for, a listener that could not be opened. Its client may
  leave, wait for announcements or be told its own address besides.
* *`MaxPending`, `Ttl`, `MaxTime`* (FtpTunnel): with two sessions of two
  transfers and three names the limit of two marks is met, and marks expire
  while others behind or before them do not.

## 5. Fairness

* *Resolver.* Weak fairness of `poll_loop` (tokio runs a scheduled task), of
  each `DriverAnswer` (the driver wraps each query in a protective timeout), of
  `Tick`, and of `Joined` (join returns when the thread has ended). Nothing is
  assumed of clients or of the owner.
* *EffectiveCache.* Weak fairness of the cache task, of `Tick`, and of
  the query task's send, timeout, request and end. The loop of the query task
  comes by each of these whenever the socket has nothing to read; a peer that
  sends without pause could starve them, which the model excludes. Nothing
  is assumed of the peer or the network: every datagram may be lost. IpLocate,
  whose peer may push, states no liveness.
* *HttpForward.* Weak fairness of the task's steps, which include its timers,
  where it does not wait for the ICAP server (`AwaitsIcap`), and of the branches of
  its select that see the upstream while it does. Most of the waits for the ICAP
  server have no timer (`forward_header.rs:66`, `forward_body.rs:185`, `preview.rs:119`
  and `bidirectional.rs:82` of `lib/g3-icap-client/src/reqmod/h1`). Nothing is assumed
  of client, upstream and ICAP server.
* *HttpPipeline.* Weak fairness of reader, writer and the reader's timers, but
  not of the task of a request, which may wait for ever. Nothing is assumed of
  the client.
* *IcapPool.* Weak fairness of a caller's fetch (its timeout included, and that a
  connect succeeds or fails), of the tick, of the pool's commands, of spawned
  tasks, and of some poller taking a request that is in the channel. Connects may
  fail and idle connections be lost up to a bound. Nothing makes the server answer a
  request or OPTIONS.
* *FtpUpload.* Weak fairness of the three tasks, but for the wait for OPTIONS. An
  ICAP server that reads goes on reading, one that echoes goes on echoing; either
  may die, and only the one that echoes has to answer.
* *FtpControl.* Weak fairness of the relay; client and FTP server, while they are
  there, connect, send their data and answer. Neither has to stay, and nothing is
  assumed of the ICAP server. A server that lives and is silent would keep the
  relay in `read_ftp_response`, which has no timer.

## 6. Proofs

| Theorem | Module | Statement |
|---|---|---|
| `ResolvedAsDocumented`, `AlwaysAsDocumented` | ResolverProofs | records are kept for the documented times, for every modulus and all bounds whose sum stays below it (`RecordSpec => []TtlsAsDocumented`) |
| `DeadlinesInOrder` | ResolverProofs | a record is cached between the two bounds and vanishes no earlier than it expires |
| `TypeCorrect` | ResolverProofs | `Spec => []TypeOK` |
| `OneQueryAlways` | ResolverProofs | `Spec => []OneQueryPerKey` |
| `TablesAlwaysAgree` | ResolverProofs | `Spec => []TablesAgree` |
| `NoJobIsLost` | ResolverProofs | `Spec => []NoLostJob` |
| `NoWakeupIsLost` | ResolverProofs | `Spec => []NoLostWakeup` |
| `DriverAlwaysAtHand` | ResolverProofs | `Spec => []DriverAtHand` |
| `AnswersAlwaysGoForward` | ResolverProofs | `Spec => AnswersGoForward` |
| `AlwaysOneAnswerToCome` | EffectiveCacheProofs | `Spec => []OneAnswerToCome` |
| `TimersAlwaysMatch` | EffectiveCacheProofs | `Spec => []TimersMatch` |
| `OnlySocketEverPanics` | EffectiveCacheProofs | `Spec => []OnlySocketPanics` |
| `TimersAlwaysMatch` | IpLocateProofs | `Spec => []TimersMatch` |
| `AlwaysAnswerToCome` | IpLocateProofs | `Spec => []AnswerToCome` |
| `AnswersAlwaysInOrder` | HttpForwardProofs | `Spec => []OneAnswerInOrder` |
| `BodyAlwaysIntact` | HttpForwardProofs | `Spec => []BodyIntact` |
| `AlwaysReadToTheEnd` | HttpForwardProofs | `Spec => []ReadToTheEnd` |
| `KeptAlwaysClean` | HttpForwardProofs | `Spec => []KeptClean` |
| `AnswersAlwaysInOrder` | HttpPipelineProofs | `Spec => []AnswersInOrder` |
| `AlwaysParsesAtBoundary` | HttpPipelineProofs | `Spec => []ParsesAtBoundary` |
| `TaskAlwaysHasStream` | HttpPipelineProofs | `Spec => []TaskHasStream` |
| `HandBackFailsOffline` | HttpPipelineProofs | `Spec => []HandBackFailsOnlyOffline` |
| `AlwaysQuitsIdle` | HttpPipelineProofs | `Spec => []QuitsOnlyIdle` |
| `TypeCorrect` | CountingProofs | `Spec => []TypeOK`, of GaugeSemaphore |
| `GaugeAlwaysHeld` | CountingProofs | `Spec => []GaugeIsHeld` |
| `AlwaysDecidesAtOnce` | CountingProofs | `Spec => DecidesAtOnce`, the refinement of `AliveLimit` |
| `IdleCountAlways` | CountingProofs | `IcapSpec => []IdleCount` |
| `HandedAlwaysClean` | CountingProofs | `IcapSpec => []HandedClean` |
| `UploadAlwaysWhole` | FtpAuditProofs | `Spec => []UploadWhole` |
| `AuditAlwaysConserved` | FtpAuditProofs | `Spec => []AuditConserved` |
| `AlwaysSavedClean` | FtpAuditProofs | `Spec => []SavedClean` |
| `UnauditedAlwaysExplained` | FtpAuditProofs | `TunnelSpec => []UnauditedExplained` |
| `AlwaysAuditedFresh` | FtpAuditProofs | `TunnelSpec => []AuditedFresh` |
| `RepliesAlwaysKept` | FtpControlProofs | `Spec => []RepliesKept` |
| `TransfersAlwaysWhole` | FtpControlProofs | `Spec => []TransfersWhole` |

With these every invariant, the action property and the refinement that a
run checks is proved for all values of the constants.

A proof module extends what it proves. Three of them cover two specifications
each: ResolverProofs the resolver and its record lifetimes, FtpAuditProofs the two
sides of auditing uploads (FtpUpload, FtpTunnel), and CountingProofs the two
counters that several tasks share (GaugeSemaphore, IcapPool). For this the second
specification of a pair has its own names: `RecordSpec`, `TunnelSpec`, `IcapSpec`,
with `RecordInit`, `TunnelNext`, `IcapTypes` and so on.

*Assumptions.* `U32Assumption` (the modulus is positive),
`MCResolvedRecordAssumption` (the bounds of the configurations are numbers whose
sums fit the type), `ResolverAssumption` (lifetimes and bounds are numbers, the
batch count is at least two; with less the resolver would read no request),
`EffectiveCacheAssumption` (lifetimes, waits and the batch count are numbers, the
write queue has a limit of at least one), `IpLocateAssumption` (the same, networks
are finite and not empty, and `NoIp` is not an address), `HttpForwardAssumption`
(at least one request, bodies of up to at least one unit),
`HttpPipelineAssumption` (at least one request, `pipeline_size` at least one),
`IcapPoolAssumption` (the bounds are numbers, and the channel of poll requests,
of `max_idle_count` places, has at least one), `FtpUploadAssumption`
(the file is of any size, channel, batch, sockets and idle limit are positive),
`FtpControlAssumption` (any number of commands of the five kinds, a file of at
least one chunk), `FtpTunnelAssumption` (limit and clock are numbers, a mark
lives for at least one tick, and "none" is not the name of a file) and
`GaugeSemaphoreAssumption` (finitely many threads; counts and limits are `usize`
values). The sets of keys, clients, callers, addresses, sessions and names are
arbitrary.

Few of the properties are inductive alone. What follows says for each
specification what its inductive invariant adds and why. TLC has checked each
invariant on the instance of the run before it was proved.

*Resolver.* The invariant `IInv` adds:

* `Spawned`: within the loop there is a driver. Without it `handle_req` could
  enter a key in `doing` without a query, against `OneQueryPerKey`.
* `Waiting`: clients wait only for keys of `doing`. `NoLostJob` needs it when
  an entry of `doing` goes, and `TablesAgree` when a record becomes stale.
* `Responses`: a response is present and has the latest version of its key.
* `Versions`: nothing that can be served is older than what was served. With
  `Responses` it gives `AnswersGoForward`.
* `Parked`: what the loop has polled empty stays empty, or the task is
  scheduled again, until it parks. This is `NoLostWakeup` for the places before
  the last one; it uses that the driver cannot send while the loop runs.

The proof that steps keep `IInv` has a lemma for each conjunct. `Steps` sorts the
actions into those that touch the tables and those that do not; `ReqEffect`
and `RspEffect` say once what the two handlers do.

*EffectiveCache.* The invariant is what the three properties say with two facts
more:

* `ShutOK`: the query task exits only when the cache task has gone, unless its
  socket fails. `OnlySocketPanics` is not inductive without it.
* `RspOK`: every result under way can be put into the cache. `TimersMatch` needs
  it when a result arrives: an absent one would leave a vanish timer without a
  record.

The count of `OneAnswerToCome` goes through the cardinality of sets of positions
in two channels; `CountGrows` and `CountShifts` say what appending to a channel
and taking its head do to it.

*IpLocate.* The invariant has the types, `timers = qdoing`, and the two halves of
`AnswerToCome`, each stated over the elements of the channels: `ToCome`, that for an
address of `doing` a query, a timer or a result is on its way unless an empty result
was ignored, and `Callers`, that whoever waits is in the request channel or in
`doing`. `AnswerToCome` as it stands speaks of the same facts; the invariant adds the
timers, since the timeout is what turns a query into a result when no datagram comes.

*HttpForward.* The invariant has eight parts. `Types`, `Conns` (which connections
there are at which place, and which requests they have seen) and `Modes` (what the
attempt has still to read) carry the others:

* `Retries`: which attempts may be followed by another. A retry inside a body
  comes only from a reused connection, and by `Modes` it holds all that was read;
  any other starts before anything was read, or by `Positions` is not `Exact`.
* `Positions`: how far the client's stream was read, and that the units at hand
  are those in front of that point. It gives `ReadToTheEnd`. It is stated for
  attempts that are `Exact`: after the rare event `reconnect` the next attempt
  starts behind the units that the first has read, and closes afterwards.
* `Delivered`: the upstream has the units from the first up to those in the
  copy buffer. It gives `BodyIntact`.
* `Answers`: the number of answers is the number of requests, less one while
  a request is served. It gives `OneAnswerInOrder`.
* `Streams`: without the rare events `hint` and `interim`, a connection is clean, or
  the current request is on it and the final answer to that is still to come
  (`Owing`). What is on the wire is then a run of interim responses that were asked for,
  none behind a 100 (`Hints`), and behind them at most that final answer; and once the
  task has passed a 100 on from `recv_final_response_header`, no interim response is
  left. It gives `KeptClean`, and for `OneAnswerInOrder` that an answer is final
  and comes from its own exchange. `HintBehind`, `FinalBehind` and `HintsTail` say
  once what adding to such a run and reading from it do.

*HttpPipeline.* The invariant adds:

* `QueueOK`: the queue is the run of requests after the one being served, and an
  error response can only be its end, left by a reader that has ended.
  `AnswersInOrder` rests on it.
* `AnswersOK`: all requests before the one being served were answered, in order, or
  ended for failed socket options (`Covered`), and one answered twice is the last.
* `CountOK`: `alive_task` is the number of requests queued and served, less the one
  whose `add_task` is still to come. This is why a count of zero means that nothing
  is at hand, which `QuitsOnlyIdle` needs, although the counter lags behind the
  queue at both ends.
* `ClosedOK`: the writer serves nothing after it has closed the queue or failed to
  hand the stream back.
* `IdleOK`: a reader that may quit at its timeout has nothing queued or served, also
  between the test and the timeout.
* `HeldOK` and `LentOK`: where the read half is at each place of the reader, and
  that only the latest request can still owe it. They give `TaskHasStream` and
  `HandBackFailsOnlyOffline`.
* `BoundaryOK`: a body is unread only while the stream is lent to its request, or
  when the task of that request left it so (`LeftUnread`); it contains
  `ParsesAtBoundary`, with the stream in the channel as well.

*GaugeSemaphore.* The invariant adds to `TypeOK` that the counter is the number
of units held (`Counted`) and that a thread about to exchange has passed the
tests for the value that it will compare (`Passed`). Then a successful exchange
is a `Grant`, since the counter still has that value; a failed test is a
`Refuse`, since it was made on the counter in the same step; every other step
of a call is invisible. Permits are counted as pairs of a thread and a number,
so that adding and removing a permit are facts about the cardinality of disjoint
unions.

*IcapPool.* `CliOK` says what an adapter holds at each step of its use of a
connection, `QueuesOK` that every connection in a channel or in the pool is clean,
and `CountsOK` that `idle_conn_count` is the number of pollers with those that have
ended and not lowered it yet. The last is needed with the ending ones as the counter
changes after the poller has given its connection away; `HandedClean` needs all of
`QueuesOK`, since a connection passes through both channels before it is handed
out again.

*FtpUpload.* The invariant adds:

* `FileOK`: each chunk is with the client, with the FTP server or in the relay's
  hand. With `StopOK`, the reasons for which the relay leaves its loop, it gives
  `UploadWhole`.
* `TaskOK`: there is an ICAP task exactly in audit mode, and while its server lives
  it ends only after the relay's sender; so no chunk is sent to a channel that
  nobody reads, and none is left in the channel at the end.
* `BufferOK`: the batch is empty wherever the task does not write it.
* `LastOK`: the last chunk is the last, and follows only when all has been written.
* `ChunksOK`: the equation of `AuditConserved`, for the task's whole life.
* `AnswerOK` and `BackOK`: what of the answer was sent and read, and that a
  connection is saved only after an answer without a body. With `LastOK` they give
  `SavedClean`.

`Frames` says once which variables each party leaves alone, so that a conjunct has
to be looked at only for the parties that can disturb it.

*FtpTunnel.* The invariant says that the marks were made in the past, that a
transfer asked for has its number and an upload its name, that an audited channel
has taken a mark younger than `Ttl` (`AuditedFresh`), that a channel looks again only
while its transfer is on, and that something is known of an upload from its mark on
(`Known`). `UnauditedExplained` rests on the last: once a mark is made it is in the
queue or its `fate` says where it went, and a channel that finds none leaves the
queue empty (`Trimmed`, the queue without its expired marks; `TrimmedPart` says
what it keeps).

*FtpControl.* The relay reads replies in five places and commands in one, so what a
reply means depends on where client, relay and server are. The invariant says:

* `Replies` and `OneCommand`: one command is under way, at the relay, at the server
  or answered; its replies are an announcement at most, then one that ends it. This
  is why the relay's reads, which may take several replies at once, never run together
  the replies of two commands, and with it `RepliesKept` is inductive.
* `Place`: at each place the relay deals with the command that the client waits
  for, or it waits for a transfer that is over (`Over`), and the client has gone on.
* `Address`, `Listens` and `Unused`: to whom the client's data connection leads,
  from when to when the server listens, and that nothing is on the server's
  data connection before the transfer. A client sent to its own host has a
  listener that waits for it.
* `OneOdd` and `Refusal`: at most one unusual event, and what a refused download
  leaves behind.
* `Bounds`, `Uploads` and `Downloads`: the chunks at the client, on the two
  data connections and at the server are the file. They give `TransfersWhole`.

The proof has one lemma for each action. `SayEffect`, `ReadEffect` and `HearEffect`
say once what the server's replies, one read and what the client makes of it do to
the replies on their way.

*Only model-checked.* The liveness properties (`JobAnswered`,
`ShutdownCompletes`, `FetchAnswered`, `TaskEnds`, `OfflineEnds`, `FetchEnds`,
`PoolRefills`, `EndsUnlessIcapHolds`, `CommandAnswered`, `LeaverLetGo`): temporal
reasoning under fairness and `ENABLED` are beyond the prover.

## 7. Where code and documentation disagree

One disagreement is a run of its own:

* *`ftp_echo`.* The comments of `run_relay_loop`
  (`lib/g3-icap-client/src/reqmod/ftp/mod.rs:393-396` and `481-486`) say that the
  ICAP server's answer is drained concurrently, so that a server that echoes
  cannot cause a deadlock. The drain is a branch of a `select!` whose other
  branch awaits `write_all` of a batch (line 465): while that waits, nothing is
  drained. The server waits for its answer to be read, the writer for the server,
  the relay for the channel, and the upload never ends.

Others are part of the models, and the properties name them as what they except:

* *Lifetimes* (`TtlsAsDocumented`). `max_ttl + min_ttl` is a `u32` sum
  (`lib/g3-resolver/src/record.rs:91`); with `positive_max_ttl` close to 2^32 it
  wraps. The property is for sums that fit.
* *Quit after an update* (`ShutdownCompletes`). `poll_loop` takes one control
  command in a round (`lib/g3-resolver/src/runtime.rs:342`). After an update it
  can park without a waker in the control channel; a `Quit` sent then waits for
  a request, a response or an expiry.
* *Failing socket* (`OnlySocketPanics`). "unreachable as we have kept a sender"
  (`lib/g3-io-ext/src/cache/runtime.rs:135`): the sender is with the query task,
  which ends when a receive on its socket fails.
* *A batch of one* (assumed away: `Batch` is at least two). The range
  `1..request_batch_handle_count` (`runtime.rs:150`) has one element less than the
  count; with one no request is ever read.
* *Empty results* (`AnswerToCome`). An empty result for an address without an old
  location leaves the address in `doing` (`lib/g3-ip-locate/src/cache.rs:76`).
* *HTTP retries* (`reconnect`). When the connection for a retry inside a body
  cannot be made, `get_new_connection` has answered the client, and `run_forward`
  may try the request once more with the body from where it was.
* *Interim responses* (`hint`, `interim`). A request without a body, or with all of
  it at hand, takes the first response header for the final one, also a 1xx. With a
  body, `recv_final_response_header` passes 100 and 103 on and takes a 102 for the
  final response, and behind a 100 whatever comes next. In either case the final one
  stays on a connection that may be kept.
* *Early adaptation* (`early`). An ICAP server that sends an adapted request
  before it has the whole body leaves the rest of it in the client's stream, which
  is used further.
* *Socket options* (`sockopt`). When those of the client cannot be set
  `run_forward` returns without an answer and without closing.
* *A stalled header* (`stall`). Inside the selects a response header is read
  without a timeout (`forward/task.rs:907`, `1342`).
* *Tasks that wait for the ICAP server* (`TaskEnds`, `FetchEnds`, `OfflineEnds`). The
  server's OPTIONS, its answer to a request, the rest of an adapted request and
  the adapted response are awaited without a limit; only the wait for a connection of
  the pool has one, of 5 seconds.
* *Requests without an answer, bodies left unread* (`AnswersInOrder`,
  `ParsesAtBoundary`). The ends `Odd` of a task give the stream back, so the reader
  parses the next header inside a body, or the client has no answer, or two.
* *Hand-back* (`HandBackFailsOnlyOffline`). "read end has closed, impossible as
  reader should be waiting this channel" (`pipeline/writer.rs:311` and others): it
  happens to a CONNECT that failed after the server went offline.
* *Clean connections* (`HandedClean`, `early`). `fetch_connection` calls
  `mark_io_inuse` for connections it makes itself and not for those from the pool,
  so that an adapter answered before it has sent its body may save the connection
  with the request cut short.
* *Idle connections.* `max_idle_count`, documented as the maximum
  (`sphinx/g3proxy/configuration/values/network.rst:242`), is compared with `<=` for
  connections that come back (`pool.rs:156`); those the pool makes itself are
  compared, if at all, before the connect and not when they are kept. No property
  states the limit.
* *Blocked uploads* (`EndsUnlessIcapHolds`, `Waits`). "never block upload"
  (`reqmod/ftp/mod.rs:68`): a hung ICAP server blocks the relay in `send_async`, and
  one that does not answer OPTIONS before the first chunk.
* *Forward-only uploads* (`UploadWhole`, `TransfersWhole`). `fallback_forward_only` stops at the
  first idle tick, although "the client data is still delivered" (lines 740-741).
* *FTP sessions* (`Waits`, `awaits`). A refused download, a second PASV before the
  first was used, and a listener that cannot be opened leave client and relay
  waiting for each other. So does the reply to PASV, which gives 127.0.0.1 as the
  proxy's address (`serve/ftp_proxy/task.rs:376-382`; "rewrite with proxy IP" says the
  comment), to a client that follows it on another host. The announcement of an upload is not passed on before the
  data, so a client that waits for it is cut off by the idle limit. EPSV data
  channels of the server are sought at an unspecified address, since
  `upstream_ip` is read before the connection is made.
* *Leaving* (`LeaverLetGo`). `accept` has no timeout, and keeps the session of a
  client that left before it connected; nor do the waits for the second reply to a
  download and for the ICAP server look at the client.
* *Concurrent uploads* (`UnauditedExplained`). Marks are taken in the order in which
  they were made, by any data channel of the pair, downloads included: names may be
  swapped, and the mark of a refused upload goes to a later channel. That an upload
  is audited under its own name is not claimed. A data tunnel that connects before
  its mark is made, to a server whose domain is not known, is passed through unseen
  if its task is not inspected.

## 8. Not modelled

The models stand for some 6,400 lines of code, a little less than half of the 49
files they are taken from and under 3% of the 247,000 lines of Rust in the
repository. `PROJECT.json` lists every part with its reason. In short:

* Ports, escapers, the other servers and the inspection of other protocols are code
  of one connection around sockets; routing escapers are lookups in immutable
  tables; configuration, logs and statistics are input and output; the remaining
  libraries are parsers, encoders and wrappers of system calls; g3bench and the
  command-line tools are not services; g3fcgen and g3iploc are the peers that
  the models treat as the environment.
* `http_rproxy` has a pipeline and a forward task of the same structure as those
  of `http_proxy`; they are not modelled a second time.
* The fail-over driver, the route_query escaper, the registries with their
  reloads, and what a reload of g3tiles' hosts carries over have interesting
  orders of events and are left for later.
* Of the ICAP client, previews, HTTP/2, mail and response adaptation; of FTP,
  the connection set-up with TLS, active mode, `audit_only` and
  `connect_bridge.rs`, which nothing calls, and data that the inspection takes for
  a known protocol.
* A line that arrives in parts is lost when another branch of the `select!`
  completes in between (`inspect/ftp/object.rs:295`, `serve/ftp_proxy/task.rs:317`);
  commands are whole lines in FtpControl and FtpTunnel.
* Within the modelled parts, the encoding of messages, statistics, rate
  limits, the threads that carry the tasks, and tokio's cooperative budget.

## 9. Plan

1. *RouteQuery*: a second query task for the cache of EffectiveCache. The cache
   task becomes a module of its own that both query tasks are composed with.
2. *FailOver*: the fail-over driver over two abstract resolvers, each a
   specification that Resolver is shown to implement. Then registries, offline
   servers and the carry-over of limits at reload.
