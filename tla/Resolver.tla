------------------------------ MODULE Resolver ------------------------------
(***************************************************************************)
(* The caching resolver of lib/g3-resolver: the runtime task that owns the *)
(* tables (runtime.rs), the handles clients ask through (handle.rs), the   *)
(* owner that reconfigures and stops it (resolver.rs) and, as its          *)
(* environment, a driver that answers every query exactly once.            *)
(*                                                                         *)
(* The runtime is one hand-written future.  Its poll function goes through *)
(* the control channel, the driver's responses, the expired records and a  *)
(* batch of requests, in that order, and returns Pending only when the     *)
(* request channel is empty; pc is the place in that loop.  A channel that *)
(* is polled empty keeps the task's waker (armed); a send on an armed      *)
(* channel takes the waker out and schedules the task (woken); a send on a *)
(* channel that is not armed schedules nothing.  Clients and the owner are *)
(* other threads: their sends, and time, interleave with the loop at every *)
(* step.  The driver's tasks share the runtime's single-threaded executor  *)
(* and run only while it is parked.  (tokio may also make a poll return    *)
(* early, with the task scheduled again; that is left out.)                *)
(*                                                                         *)
(* A key is a domain together with an address family: the program keeps    *)
(* the v4 and the v6 tables apart and treats them alike.  Deadlines are    *)
(* the time left, and Tick ages them.                                      *)
(***************************************************************************)
EXTENDS ResolvedRecord, Sequences, FiniteSets

CONSTANTS
  Keys,        \* (address family, domain) pairs
  Jobs,        \* client tasks, each waiting for one answer at a time
  AnswerTtls,  \* TTLs of positive answers
  MinTtl, MaxTtl, NegTtl,  \* the driver's TTL configuration
  Batch,       \* runtime.batch_request_count
  MaxUpdates,  \* bound: control commands queued by UpdateConfig
  MaxVer       \* bound: answer versions told apart

ASSUME ResolverAssumption ==
  /\ AnswerTtls \subseteq Nat
  /\ MinTtl \in Nat /\ MaxTtl \in Nat /\ NegTtl \in Nat
  /\ Batch \in Nat /\ Batch >= 2
  /\ MaxUpdates \in Nat /\ MaxVer \in Nat

VARIABLES
  pc,        \* place of the runtime in poll_loop
  batch,     \* requests handled in this round of the loop
  driver,    \* whether the driver has been spawned
  woken,     \* the runtime's task is scheduled
  armed,     \* event sources that hold the runtime's waker
  ctlq,      \* ctl_receiver
  reqq,      \* req_receiver: GetV4/GetV6 with the client's oneshot sender
  rspq,      \* rsp_receiver: at any time a set, its order is a race
  job,       \* state of each client
  doing,     \* keys of doing_v4/doing_v6
  waiters,   \* their vectors of oneshot senders, as sets of clients
  cache,     \* cache_v4/cache_v6
  queued,    \* keys of the delay queues expired_v4/expired_v6
  at,        \* time left of each queued key
  trash,     \* trash_v4/trash_v6
  inflight,  \* queries given to the driver and not answered yet
  ver,       \* version of the last answer of the driver
  told,      \* version last sent to a client (history variable)
  owner      \* state of the `Resolver` value that owns the thread

loop   == <<pc, batch, driver>>
wakers == <<woken, armed>>
tables == <<doing, waiters, cache, queued, at, trash>>
drv    == <<inflight, ver>>
vars   == <<loop, wakers, ctlq, reqq, rspq, job, tables, drv, told, owner>>

-----------------------------------------------------------------------------
(* Records.  A positive answer has an expiry and a vanishing time; an      *)
(* empty answer or NotFound ("negative") and a failure ("err") only have   *)
(* an expiry, so they never become stale answers.                          *)
Rec == [st : {"none", "ok", "negative", "err"}, ver : Nat,
        expire : Nat, vanish : Nat]

NoRec == [st |-> "none", ver |-> 0, expire |-> 0, vanish |-> 0]

Resolved(ttl, v) ==
  [st |-> "ok", ver |-> v, expire |-> Ttls(ttl, MinTtl, MaxTtl).expire,
   vanish |-> Ttls(ttl, MinTtl, MaxTtl).vanish]

Empty(v)  == [st |-> "negative", ver |-> v, expire |-> NegTtl, vanish |-> 0]

Failed(v) == [st |-> "err", ver |-> v, expire |-> NegTtl, vanish |-> 0]

Acceptable(r) == r.st # "err"

Present(r) == r.st # "none"

(* Wrong variants of definitions below carry the mark (wrong): they are    *)
(* not part of the model, and serve to test that the properties notice.    *)

(* One unit of time passes for a deadline, for a record.                   *)
Less(n) == IF n = 0 THEN 0 ELSE n - 1

Aged(r) == [st |-> r.st, ver |-> r.ver,
            expire |-> Less(r.expire), vanish |-> Less(r.vanish)]

Init ==
  /\ pc = "idle" /\ batch = 0 /\ driver = FALSE
  /\ woken = TRUE /\ armed = {}
  /\ ctlq = <<>> /\ reqq = <<>> /\ rspq = {}
  /\ job = [j \in Jobs |-> "idle"]
  /\ doing = {} /\ waiters = [k \in Keys |-> {}]
  /\ cache = [k \in Keys |-> NoRec] /\ trash = [k \in Keys |-> NoRec]
  /\ queued = {} /\ at = [k \in Keys |-> 0]
  /\ inflight = [k \in Keys |-> 0] /\ ver = [k \in Keys |-> 0]
  /\ told = [k \in Keys |-> 0]
  /\ owner = "running"

-----------------------------------------------------------------------------
(* Waking the runtime: what a send on a tokio channel, or the timer of the *)
(* delay queue, does to the receiving task.                                *)
Wake(source) ==
  /\ woken' = (woken \/ source \in armed)
  /\ armed' = armed \ {source}

Running == pc # "exited"

-----------------------------------------------------------------------------
(* Clients: ResolverHandle::get_v4/get_v6.  Once the runtime is gone the   *)
(* send fails at once and nothing changes.                                 *)
Get(j, k) ==
  /\ Running /\ job[j] = "idle"
  /\ job' = [job EXCEPT ![j] = "waiting"]
  /\ reqq' = Append(reqq, [job |-> j, key |-> k])
  /\ Wake("req")
  /\ UNCHANGED <<loop, ctlq, rspq, tables, drv, told, owner>>

(* A client that gives up drops its ResolveJob; the sender stays with the  *)
(* runtime, whose later send on it fails and is ignored.                   *)
Abandon(j) ==
  /\ job[j] = "waiting"
  /\ job' = [job EXCEPT ![j] = "abandoned"]
  /\ UNCHANGED <<loop, wakers, ctlq, reqq, rspq, tables, drv, told, owner>>

-----------------------------------------------------------------------------
(* The owner: Resolver::update_config with a changed configuration.        *)
UpdateConfig ==
  /\ owner = "running" /\ Running
  /\ Len(ctlq) < MaxUpdates
  /\ ctlq' = Append(ctlq, "update")
  /\ Wake("ctl")
  /\ UNCHANGED <<loop, reqq, rspq, job, tables, drv, told, owner>>

(* Resolver::shutdown after its wait, or Drop: send Quit, then join.       *)
Shutdown ==
  /\ owner = "running"
  /\ owner' = "joining"
  /\ IF Running THEN ctlq' = Append(ctlq, "quit") /\ Wake("ctl")
                ELSE UNCHANGED <<ctlq, wakers>>
  /\ UNCHANGED <<loop, reqq, rspq, job, tables, drv, told>>

Joined ==
  /\ owner = "joining" /\ ~Running
  /\ owner' = "joined"
  /\ UNCHANGED <<loop, wakers, ctlq, reqq, rspq, job, tables, drv, told>>

-----------------------------------------------------------------------------
(* The driver's task for one query ends, by an answer or by the protective *)
(* timeout, and sends the one response of that query.                      *)
NextVer(v) == IF v < MaxVer THEN v + 1 ELSE v

Answers(v) ==
  {Resolved(t, v) : t \in AnswerTtls} \cup {Empty(v), Failed(v)}

DriverAnswer(k) ==
  /\ pc = "idle" /\ inflight[k] > 0
  /\ inflight' = [inflight EXCEPT ![k] = @ - 1]
  /\ ver' = [ver EXCEPT ![k] = NextVer(@)]
  /\ \E r \in Answers(NextVer(ver[k])) :
       rspq' = rspq \cup {[key |-> k, rec |-> r]}
  /\ Wake("rsp")
  /\ UNCHANGED <<loop, ctlq, reqq, job, tables, told, owner>>

(* Time passes.  A delay queue with an entry that becomes due wakes the    *)
(* runtime.                                                                *)
Tick ==
  /\ Running
  /\ cache' = [k \in Keys |-> Aged(cache[k])]
  /\ trash' = [k \in Keys |-> Aged(trash[k])]
  /\ rspq' = {[key |-> m.key, rec |-> Aged(m.rec)] : m \in rspq}
  /\ at' = [k \in Keys |-> Less(at[k])]
  /\ IF \E k \in queued : Less(at[k]) = 0 THEN Wake("timer")
                                           ELSE UNCHANGED wakers
  /\ UNCHANGED <<loop, ctlq, reqq, job, doing, waiters, queued, drv, told,
                 owner>>

-----------------------------------------------------------------------------
(* The handlers of the runtime.  Each sets the tables, job, told and, when *)
(* it starts a query, inflight.                                            *)

(* The oneshot senders of the clients in js get record r for key k.        *)
SendTo(js, k, r) ==
  /\ job' = [j \in Jobs |-> IF j \in js THEN "idle" ELSE job[j]]
  /\ told' = IF js = {} THEN told ELSE [told EXCEPT ![k] = r.ver]

StartQuery(k) == inflight' = [inflight EXCEPT ![k] = @ + 1]

(* update_cache: the record replaces the cached one, and the key's entry   *)
(* of the delay queue is reset, or created.                                *)
update_cache(k, r) ==
  /\ cache' = [cache EXCEPT ![k] = r]
  /\ queued' = queued \cup {k}
  /\ at' = [at EXCEPT ![k] = r.expire]

(* (wrong) The early return leaves the entry of doing behind.              *)
RspTrashedStaysDoing(k) ==
  /\ SendTo(waiters[k], k, trash[k])
  /\ waiters' = [waiters EXCEPT ![k] = {}]
  /\ UNCHANGED <<doing, cache, queued, at, trash>>

(* An unacceptable answer yields to a stale record: the clients waiting    *)
(* for the key get that one and nothing is cached.                         *)
RspTrashed(k) ==
  /\ SendTo(waiters[k], k, trash[k])
  /\ doing' = doing \ {k}
  /\ waiters' = [waiters EXCEPT ![k] = {}]
  /\ UNCHANGED <<cache, queued, at, trash>>

(* (wrong) An acceptable answer does not remove the stale record.          *)
RspCachedKeepsTrash(k, r) ==
  /\ SendTo(waiters[k], k, r)
  /\ doing' = doing \ {k}
  /\ waiters' = [waiters EXCEPT ![k] = {}]
  /\ update_cache(k, r)
  /\ UNCHANGED trash

(* Any other answer goes to the waiting clients and into the cache; an     *)
(* acceptable one replaces the stale record.                               *)
RspCached(k, r) ==
  /\ trash' = IF Acceptable(r) THEN [trash EXCEPT ![k] = NoRec] ELSE trash
  /\ SendTo(waiters[k], k, r)
  /\ doing' = doing \ {k}
  /\ waiters' = [waiters EXCEPT ![k] = {}]
  /\ update_cache(k, r)

handle_rsp(k, r) ==
  IF ~Acceptable(r) /\ Present(trash[k]) THEN RspTrashed(k)
                                         ELSE RspCached(k, r)

(* handle_expired_v4/v6: the expired record becomes the stale record if it *)
(* has a vanishing time.                                                   *)
handle_expired(k) ==
  /\ queued' = queued \ {k}
  /\ cache' = [cache EXCEPT ![k] = NoRec]
  /\ trash' = IF cache[k].st = "ok" THEN [trash EXCEPT ![k] = cache[k]]
                                    ELSE trash
  /\ UNCHANGED <<at, doing, waiters>>

(* handle_req: a cached record answers at once; a stale one answers too    *)
(* and is refreshed by a query nobody waits for; otherwise the client      *)
(* joins the query under way, or starts it.                                *)
ReqCached(j, k) ==
  /\ SendTo({j}, k, cache[k])
  /\ UNCHANGED <<tables, inflight>>

(* (wrong) Every stale answer starts a query of its own.                   *)
ReqTrashedRequeries(j, k) ==
  /\ SendTo({j}, k, trash[k])
  /\ doing' = doing \cup {k}
  /\ StartQuery(k)
  /\ UNCHANGED <<waiters, cache, queued, at, trash>>

ReqTrashed(j, k) ==
  /\ SendTo({j}, k, trash[k])
  /\ doing' = doing \cup {k}
  /\ IF k \notin doing /\ driver THEN StartQuery(k) ELSE UNCHANGED inflight
  /\ UNCHANGED <<waiters, cache, queued, at, trash>>

ReqQueried(j, k) ==
  /\ doing' = doing \cup {k}
  /\ waiters' = [waiters EXCEPT ![k] = @ \cup {j}]
  /\ IF k \notin doing /\ driver THEN StartQuery(k) ELSE UNCHANGED inflight
  /\ UNCHANGED <<cache, queued, at, trash, job, told>>

handle_req(j, k) ==
  IF Present(cache[k]) THEN ReqCached(j, k)
  ELSE IF Present(trash[k]) THEN ReqTrashed(j, k)
  ELSE ReqQueried(j, k)

-----------------------------------------------------------------------------
(* The poll function.                                                      *)

(* The future is dropped: Drop closes the channels, and with the tables go *)
(* all oneshot senders, so every waiting client sees NoResolverRunning.    *)
(* The thread's tokio runtime ends with it, and with that the driver.      *)
Dropped ==
  /\ pc' = "exited" /\ batch' = 0
  /\ armed' = {} /\ woken' = FALSE
  /\ ctlq' = <<>> /\ reqq' = <<>> /\ rspq' = {}
  /\ job' = [j \in Jobs |-> "idle"]
  /\ doing' = {} /\ waiters' = [k \in Keys |-> {}]
  /\ cache' = [k \in Keys |-> NoRec] /\ trash' = [k \in Keys |-> NoRec]
  /\ queued' = {} /\ at' = [k \in Keys |-> 0]
  /\ inflight' = [k \in Keys |-> 0]
  /\ UNCHANGED <<driver, ver, told, owner>>

(* Entry of poll_loop: spawn the driver the first time, clean_trash.       *)
SpawnFails ==
  /\ pc = "idle" /\ woken /\ ~driver
  /\ Dropped

clean_trash ==
  trash' = [k \in Keys |-> IF trash[k].vanish = 0 THEN NoRec ELSE trash[k]]

PollEnter ==
  /\ pc = "idle" /\ woken
  /\ woken' = FALSE /\ driver' = TRUE
  /\ clean_trash
  /\ pc' = "ctl"
  /\ UNCHANGED <<batch, armed, ctlq, reqq, rspq, job, doing, waiters, cache,
                 queued, at, drv, told, owner>>

(* One command per round.  handle_cmd replaces the driver on success and   *)
(* keeps it on failure: there is a driver either way, and queries already  *)
(* given to the old one still send their response.                         *)
PollCtlEmpty ==
  /\ pc = "ctl" /\ ctlq = <<>>
  /\ armed' = armed \cup {"ctl"}
  /\ pc' = "rsp"
  /\ UNCHANGED <<batch, driver, woken, ctlq, reqq, rspq, job, tables, drv,
                 told, owner>>

handle_cmd ==
  /\ pc = "ctl" /\ ctlq # <<>> /\ Head(ctlq) = "update"
  /\ ctlq' = Tail(ctlq)
  /\ pc' = "rsp"
  /\ UNCHANGED <<batch, driver, wakers, reqq, rspq, job, tables, drv, told,
                 owner>>

PollQuit ==
  /\ pc = "ctl" /\ ctlq # <<>> /\ Head(ctlq) = "quit"
  /\ Dropped

(* (wrong) One response per round, as with control commands.               *)
PollRspOnce ==
  /\ pc = "rsp"
  /\ \E m \in rspq : /\ rspq' = rspq \ {m}
                     /\ handle_rsp(m.key, m.rec)
  /\ pc' = "expired"
  /\ UNCHANGED <<batch, driver, wakers, ctlq, reqq, drv, owner>>

(* All responses there are.                                                *)
PollRsp ==
  /\ pc = "rsp"
  /\ \E m \in rspq : /\ rspq' = rspq \ {m}
                     /\ handle_rsp(m.key, m.rec)
  /\ UNCHANGED <<loop, wakers, ctlq, reqq, drv, owner>>

PollRspEmpty ==
  /\ pc = "rsp" /\ rspq = {}
  /\ armed' = armed \cup {"rsp"}
  /\ pc' = "expired"
  /\ UNCHANGED <<batch, driver, woken, ctlq, reqq, rspq, job, tables, drv,
                 told, owner>>

(* All entries of the delay queues that are due.                           *)
PollExpired ==
  /\ pc = "expired"
  /\ \E k \in queued : at[k] = 0 /\ handle_expired(k)
  /\ UNCHANGED <<loop, wakers, ctlq, reqq, rspq, job, drv, told, owner>>

PollExpiredNone ==
  /\ pc = "expired" /\ \A k \in queued : at[k] > 0
  /\ armed' = armed \cup {"timer"}
  /\ pc' = "req"
  /\ UNCHANGED <<batch, driver, woken, ctlq, reqq, rspq, job, tables, drv,
                 told, owner>>

(* (wrong) A round handles requests for as long as there are any.          *)
PollReqUnbounded ==
  /\ pc = "req" /\ reqq # <<>>
  /\ handle_req(Head(reqq).job, Head(reqq).key)
  /\ reqq' = Tail(reqq)
  /\ UNCHANGED <<loop, wakers, ctlq, rspq, ver, owner>>

(* At most Batch - 1 requests, then another round; Pending is returned     *)
(* only when there is no request.  The owner holds a sender of both        *)
(* channels until it has joined the thread, so neither closes earlier.     *)
PollReq ==
  /\ pc = "req" /\ batch < Batch - 1 /\ reqq # <<>>
  /\ handle_req(Head(reqq).job, Head(reqq).key)
  /\ reqq' = Tail(reqq)
  /\ batch' = batch + 1
  /\ UNCHANGED <<pc, driver, wakers, ctlq, rspq, ver, owner>>

PollReqEmpty ==
  /\ pc = "req" /\ batch < Batch - 1 /\ reqq = <<>>
  /\ armed' = armed \cup {"req"}
  /\ pc' = "idle" /\ batch' = 0
  /\ UNCHANGED <<driver, woken, ctlq, reqq, rspq, job, tables, drv, told,
                 owner>>

NextRound ==
  /\ pc = "req" /\ batch = Batch - 1
  /\ pc' = "ctl" /\ batch' = 0
  /\ UNCHANGED <<driver, wakers, ctlq, reqq, rspq, job, tables, drv, told,
                 owner>>

poll_loop ==
  \/ SpawnFails \/ PollEnter
  \/ PollCtlEmpty \/ handle_cmd \/ PollQuit
  \/ PollRsp \/ PollRspEmpty
  \/ PollExpired \/ PollExpiredNone
  \/ PollReq \/ PollReqEmpty \/ NextRound

-----------------------------------------------------------------------------
Next ==
  \/ \E j \in Jobs, k \in Keys : Get(j, k)
  \/ \E j \in Jobs : Abandon(j)
  \/ UpdateConfig \/ Shutdown \/ Joined
  \/ \E k \in Keys : DriverAnswer(k)
  \/ Tick
  \/ poll_loop

(* tokio runs a scheduled task; a query ends at the protective timeout at  *)
(* the latest; time passes; join returns when the thread has ended.        *)
(* Clients and the owner owe nothing.                                      *)
Fairness ==
  /\ WF_vars(poll_loop)
  /\ \A k \in Keys : WF_vars(DriverAnswer(k))
  /\ WF_vars(Tick)
  /\ WF_vars(Joined)

Spec == Init /\ [][Next]_vars

FairSpec == Spec /\ Fairness

-----------------------------------------------------------------------------
Places == {"idle", "ctl", "rsp", "expired", "req", "exited"}

Sources == {"ctl", "rsp", "timer", "req"}

(* The variables hold values of their Rust types.                          *)
TypeOK ==
  /\ pc \in Places /\ batch \in 0..(Batch - 1) /\ driver \in BOOLEAN
  /\ woken \in BOOLEAN /\ armed \subseteq Sources
  /\ ctlq \in Seq({"update", "quit"})
  /\ reqq \in Seq([job : Jobs, key : Keys])
  /\ rspq \subseteq [key : Keys, rec : Rec]
  /\ job \in [Jobs -> {"idle", "waiting", "abandoned"}]
  /\ doing \subseteq Keys /\ waiters \in [Keys -> SUBSET Jobs]
  /\ cache \in [Keys -> Rec] /\ trash \in [Keys -> Rec]
  /\ queued \subseteq Keys /\ at \in [Keys -> Nat]
  /\ inflight \in [Keys -> Nat] /\ ver \in [Keys -> Nat]
  /\ told \in [Keys -> Nat]
  /\ owner \in {"running", "joining", "joined"}

(* doing_v4/doing_v6 are exactly the keys with a query outstanding, at the *)
(* driver or as a response on its way, and a key has one query at a time:  *)
(* no entry of doing waits for an answer that will never come, and no      *)
(* answer arrives twice.                                                   *)
OneQueryPerKey ==
  /\ \A k \in Keys : inflight[k] <= 1
  /\ \A m \in rspq : inflight[m.key] = 0
  /\ \A m, n \in rspq : m.key = n.key => m = n
  /\ \A k \in Keys :
       k \in doing <=> inflight[k] = 1 \/ \E m \in rspq : m.key = k

(* A key is never both cached and being queried or both cached and stale,  *)
(* so an answer never overwrites a cached record; nobody waits for a key   *)
(* that has a stale record; and every cached record has a delay queue      *)
(* entry at its own expiry: none stays forever.                            *)
TablesAgree ==
  \A k \in Keys :
    /\ Present(cache[k]) => k \notin doing /\ ~Present(trash[k])
    /\ Present(trash[k]) => waiters[k] = {}
    /\ Present(cache[k]) <=> k \in queued
    /\ k \in queued => at[k] = cache[k].expire

(* Every client that has asked and not been answered is still known: its   *)
(* request is queued, or its sender waits for a query that is under way.   *)
NoLostJob ==
  \A j \in Jobs :
    job[j] # "idle" =>
      \/ \E i \in 1..Len(reqq) : reqq[i].job = j
      \/ \E k \in doing : j \in waiters[k]

(* When the task is parked and not scheduled, no request, response or due  *)
(* record is left, and the next one will schedule it.                      *)
NoLostWakeup ==
  pc = "idle" /\ ~woken =>
    /\ reqq = <<>> /\ rspq = {} /\ \A k \in queued : at[k] > 0
    /\ {"req", "rsp", "timer"} \subseteq armed

(* handle_req never finds itself without a driver (`unreachable!()`).      *)
DriverAtHand == pc = "req" => driver

(* The answers clients get for a key never go back to an older one, across *)
(* expiry, stale answers, failed refreshes and vanishing.                  *)
AnswersGoForward == [][\A k \in Keys : told'[k] >= told[k]]_vars

(* A client that asks is answered, or learns that the runtime is gone.     *)
JobAnswered == \A j \in Jobs : job[j] = "waiting" ~> job[j] # "waiting"

(* Once told to quit, the thread ends and the owner's join returns, however*)
(* busy the clients keep it; unless the configuration was updated before:  *)
(* then the control channel may be left without a waker, and Quit waits for*)
(* a request, a response or an expiry.  sphinx/g3proxy/configuration/      *)
(* resolvers/index.rst on stopping: "we don't wait all of them to finish   *)
(* but instead wait for a fixed time interval".                            *)
ShutdownCompletes ==
  [](\A i \in DOMAIN ctlq : ctlq[i] # "update") => (owner = "joining" ~> owner = "joined")
=============================================================================
