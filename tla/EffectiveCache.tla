--------------------------- MODULE EffectiveCache ---------------------------
(***************************************************************************)
(* The two-task cache of lib/g3-io-ext/src/cache, with the query task of   *)
(* the certificate agent (lib/g3-cert-agent/src/query.rs) behind it.       *)
(*                                                                         *)
(* Callers fetch a key through EffectiveCacheHandle.  The cache runtime    *)
(* answers from its table or asks the query runtime, which talks UDP to a  *)
(* peer through a connected socket and keeps a timeout for each query.     *)
(* The three channels between them are unbounded and ordered; the network  *)
(* may lose, delay and repeat datagrams.                                   *)
(*                                                                         *)
(* The cache runtime goes through responses, vanished records and a batch  *)
(* of requests; cpc is its place, "idle" after it has returned Pending.    *)
(* It polls each source until Pending before it parks, so it is scheduled  *)
(* whenever one has something.  The query runtime's handlers are actions   *)
(* of their own.  Deadlines are the time left; one that has reached zero   *)
(* has passed.                                                             *)
(***************************************************************************)
EXTENDS Integers, Sequences, FiniteSets

CONSTANTS
  Keys, Jobs,
  PeerTtls,       \* lifetimes the peer may give to a certificate
  ProtectiveTtl,  \* protective_cache_ttl
  MaximumTtl,     \* maximum_cache_ttl
  VanishWait,     \* cache_vanish_wait
  QueryWait,      \* query_wait_timeout
  Batch,          \* cache_request_batch_count
  MaxWriteQueue   \* bound of the model on the length of write_queue

ASSUME EffectiveCacheAssumption ==
  /\ PeerTtls \subseteq Nat /\ ProtectiveTtl \in Nat /\ MaximumTtl \in Nat
  /\ VanishWait \in Nat /\ QueryWait \in Nat /\ Batch \in Nat
  /\ MaxWriteQueue \in Nat \ {0}

VARIABLES
  cpc, batch,     \* cache runtime: place in poll_loop, requests this round
  handles,        \* some EffectiveCacheHandle is left
  job,            \* callers of fetch
  reqq,           \* CacheQueryRequest channel
  doing, waiters, \* doing: its keys, and the callers of their requests
  cache,          \* cache
  vanishq,        \* keys in the delay queue `vanish`
  vanishAt,       \*   and their time left
  queryq,         \* channel of keys to the query runtime
  rspq,           \* channel of results to the cache runtime
  qpc,            \* query runtime
  qdoing,         \* doing_cache
  timers,         \* keys in doing_timeout_queue
  timerAt,        \*   and their time left
  writeq,         \* write_queue
  asked, air      \* requests at the peer, responses under way

runtime == <<cpc, batch>>
table   == <<doing, waiters, cache, vanishq, vanishAt>>
query   == <<qpc, qdoing, timers, timerAt, writeq>>
wire    == <<asked, air>>
vars    == <<runtime, handles, job, reqq, table, queryq, rspq, query, wire>>

NoData == [st |-> "none", expire |-> 0, vanish |-> 0]

(* EffectiveCacheData::new and ::empty.                                    *)
New(ttl) == [st |-> "ok", expire |-> ttl, vanish |-> ttl + VanishWait]

Empty == [st |-> "empty", expire |-> ProtectiveTtl,
          vanish |-> ProtectiveTtl + VanishWait]

(* The lifetime kept of the one the peer gave.                             *)
TtlOf(t) == IF t = 0 THEN ProtectiveTtl
            ELSE IF t > MaximumTtl THEN MaximumTtl ELSE t

Present(r) == r.st # "none"

Less(n) == IF n = 0 THEN 0 ELSE n - 1

Aged(r) == [st |-> r.st, expire |-> Less(r.expire), vanish |-> Less(r.vanish)]

Init ==
  /\ cpc = "idle" /\ batch = 0 /\ handles = TRUE
  /\ job = [j \in Jobs |-> "idle"] /\ reqq = <<>>
  /\ doing = {} /\ waiters = [k \in Keys |-> {}]
  /\ cache = [k \in Keys |-> NoData]
  /\ vanishq = {} /\ vanishAt = [k \in Keys |-> 0]
  /\ queryq = <<>> /\ rspq = <<>>
  /\ qpc = "running" /\ qdoing = {} /\ writeq = <<>>
  /\ timers = {} /\ timerAt = [k \in Keys |-> 0]
  /\ asked = {} /\ air = {}

CacheAlive == cpc \notin {"exited", "panicked"}

QueryAlive == qpc = "running"

-----------------------------------------------------------------------------
(* Callers: do_fetch sends its request and waits; its timeout drops the    *)
(* receiver.  With the cache runtime gone it returns None at once.         *)
Fetch(j, k, only) ==
  /\ CacheAlive /\ handles /\ job[j] = "idle"
  /\ job' = [job EXCEPT ![j] = "waiting"]
  /\ reqq' = Append(reqq, [job |-> j, key |-> k, only |-> only])
  /\ UNCHANGED <<runtime, handles, table, queryq, rspq, query, wire>>

FetchTimeout(j) ==
  /\ job[j] = "waiting"
  /\ job' = [job EXCEPT ![j] = "gone"]
  /\ UNCHANGED <<runtime, handles, reqq, table, queryq, rspq, query, wire>>

(* The last handle is dropped, when no fetch runs on it.                   *)
DropHandles ==
  /\ handles /\ \A j \in Jobs : job[j] # "waiting"
  /\ handles' = FALSE
  /\ UNCHANGED <<runtime, job, reqq, table, queryq, rspq, query, wire>>

(* The notifiers of callers js are used, or dropped.                       *)
Notify(js) == job' = [j \in Jobs |-> IF j \in js THEN "idle" ELSE job[j]]

-----------------------------------------------------------------------------
(* The cache runtime.                                                      *)

(* handle_rsp: a result nobody asked for is ignored; any other goes to the *)
(* callers waiting for it and into the cache, with a new time to vanish.   *)
HandleRspTaken(k, r) ==
  /\ doing' = doing \ {k}
  /\ waiters' = [waiters EXCEPT ![k] = {}]
  /\ Notify(waiters[k])
  /\ cache' = [cache EXCEPT ![k] = r]
  /\ vanishq' = vanishq \cup {k}
  /\ vanishAt' = [vanishAt EXCEPT ![k] = r.vanish]

handle_rsp(k, r) ==
  IF k \in doing THEN HandleRspTaken(k, r) ELSE UNCHANGED <<table, job>>

(* send_req when the query runtime is gone is `unreachable!()`: it panics. *)
send_req(k) == QueryAlive /\ queryq' = Append(queryq, k)

ReqOnly(j, k) == Notify({j}) /\ UNCHANGED <<table, queryq>>

(* A cached result answers; an expired one is also queried again, with     *)
(* nobody waiting.                                                         *)
ReqCached(j, k) ==
  /\ Notify({j})
  /\ IF cache[k].expire = 0 /\ k \notin doing
     THEN doing' = doing \cup {k} /\ send_req(k)
     ELSE UNCHANGED <<doing, queryq>>
  /\ UNCHANGED <<waiters, cache, vanishq, vanishAt>>

ReqMissed(j, k) ==
  /\ doing' = doing \cup {k}
  /\ waiters' = [waiters EXCEPT ![k] = @ \cup {j}]
  /\ IF k \in doing THEN UNCHANGED queryq ELSE send_req(k)
  /\ UNCHANGED <<cache, vanishq, vanishAt, job>>

handle_req(j, k, only) ==
  IF only THEN ReqOnly(j, k)
  ELSE IF Present(cache[k]) THEN ReqCached(j, k)
  ELSE ReqMissed(j, k)

(* Whether handle_req would send a query.                                  *)
NeedsQuery(k, only) ==
  ~only /\ k \notin doing /\ (Present(cache[k]) => cache[k].expire = 0)

(* The task ends, by return or by panic: the channels close and the        *)
(* notifiers it holds are dropped.                                         *)
CacheEnds(how) ==
  /\ cpc' = how /\ batch' = 0
  /\ job' = [j \in Jobs |-> "idle"]
  /\ reqq' = <<>> /\ rspq' = <<>>
  /\ doing' = {} /\ waiters' = [k \in Keys |-> {}]
  /\ cache' = [k \in Keys |-> NoData]
  /\ vanishq' = {} /\ vanishAt' = [k \in Keys |-> 0]
  /\ UNCHANGED <<handles, queryq, query, wire>>

Due == {k \in vanishq : vanishAt[k] = 0}

PollEnter ==
  /\ cpc = "idle"
  /\ rspq # <<>> \/ reqq # <<>> \/ Due # {} \/ ~handles \/ ~QueryAlive
  /\ cpc' = "rsp"
  /\ UNCHANGED <<batch, handles, job, reqq, table, queryq, rspq, query, wire>>

PollRsp ==
  /\ cpc = "rsp" /\ rspq # <<>>
  /\ handle_rsp(Head(rspq).key, Head(rspq).rec)
  /\ rspq' = Tail(rspq)
  /\ UNCHANGED <<runtime, handles, reqq, queryq, query, wire>>

PollRspEmpty ==
  /\ cpc = "rsp" /\ rspq = <<>> /\ QueryAlive
  /\ cpc' = "vanish"
  /\ UNCHANGED <<batch, handles, job, reqq, table, queryq, rspq, query, wire>>

(* The result channel is closed: `unreachable!()`.                         *)
PollRspClosed ==
  /\ cpc = "rsp" /\ rspq = <<>> /\ ~QueryAlive
  /\ CacheEnds("panicked")

handle_vanish ==
  /\ cpc = "vanish"
  /\ \E k \in Due : /\ vanishq' = vanishq \ {k}
                    /\ cache' = [cache EXCEPT ![k] = NoData]
  /\ UNCHANGED <<runtime, handles, job, reqq, doing, waiters, vanishAt, queryq,
                 rspq, query, wire>>

PollVanishNone ==
  /\ cpc = "vanish" /\ Due = {}
  /\ cpc' = "req"
  /\ UNCHANGED <<batch, handles, job, reqq, table, queryq, rspq, query, wire>>

(* The range 1..Batch of the code has Batch - 1 elements.                  *)
PollReq ==
  /\ cpc = "req" /\ batch < Batch - 1 /\ reqq # <<>>
  /\ handle_req(Head(reqq).job, Head(reqq).key, Head(reqq).only)
  /\ reqq' = Tail(reqq)
  /\ batch' = batch + 1
  /\ UNCHANGED <<cpc, handles, rspq, query, wire>>

PollReqPanics ==
  /\ cpc = "req" /\ batch < Batch - 1 /\ reqq # <<>> /\ ~QueryAlive
  /\ NeedsQuery(Head(reqq).key, Head(reqq).only)
  /\ CacheEnds("panicked")

PollReqEmpty ==
  /\ cpc = "req" /\ batch < Batch - 1 /\ reqq = <<>> /\ handles
  /\ cpc' = "idle" /\ batch' = 0
  /\ UNCHANGED <<handles, job, reqq, table, queryq, rspq, query, wire>>

PollReqClosed ==
  /\ cpc = "req" /\ batch < Batch - 1 /\ reqq = <<>> /\ ~handles
  /\ CacheEnds("exited")

NextRound ==
  /\ cpc = "req" /\ batch >= Batch - 1
  /\ cpc' = "rsp" /\ batch' = 0
  /\ UNCHANGED <<handles, job, reqq, table, queryq, rspq, query, wire>>

poll_loop ==
  \/ PollEnter \/ PollRsp \/ PollRspEmpty \/ PollRspClosed
  \/ handle_vanish \/ PollVanishNone
  \/ PollReq \/ PollReqPanics \/ PollReqEmpty \/ PollReqClosed \/ NextRound

-----------------------------------------------------------------------------
(* The query runtime.                                                      *)

Sent(k, r) == IF CacheAlive THEN rspq' = Append(rspq, [key |-> k, rec |-> r])
                            ELSE UNCHANGED rspq

(* (wrong) The timer of an answered query is not removed.                  *)
SendRspKeepsTimer(k, r, expired) ==
  /\ qdoing' = qdoing \ {k}
  /\ timers' = IF expired THEN timers \ {k} ELSE timers
  /\ IF k \in qdoing THEN Sent(k, r) ELSE UNCHANGED rspq

(* (wrong) A result is passed on although no query waits for it.           *)
SendRspAlways(k, r, expired) ==
  /\ qdoing' = qdoing \ {k}
  /\ timers' = timers \ {k}
  /\ Sent(k, r)

(* EffectiveQueryHandle::send_rsp_data.  An expired timer has left its     *)
(* queue already.                                                          *)
send_rsp_data(k, r, expired) ==
  /\ qdoing' = qdoing \ {k}
  /\ timers' = IF expired \/ k \in qdoing THEN timers \ {k} ELSE timers
  /\ IF k \in qdoing THEN Sent(k, r) ELSE UNCHANGED rspq

(* A datagram arrives: a certificate, or something that does not parse.    *)
QueryRecv(k) ==
  /\ QueryAlive /\ k \in air
  /\ air' = air \ {k}
  /\ \/ \E t \in PeerTtls : send_rsp_data(k, New(TtlOf(t)), FALSE)
     \/ UNCHANGED <<qdoing, timers, rspq>>
  /\ UNCHANGED <<runtime, handles, job, reqq, table, queryq, qpc, timerAt,
                 writeq, asked>>

(* The query runtime is dropped, with its socket.                          *)
QueryEnds(how) ==
  /\ qpc' = how /\ qdoing' = {} /\ timers' = {} /\ writeq' = <<>>
  /\ queryq' = <<>> /\ asked' = {} /\ air' = {}
  /\ UNCHANGED <<runtime, handles, job, reqq, table, rspq, timerAt>>

(* The receive fails: the query runtime ends.                              *)
QueryRecvFails == QueryAlive /\ QueryEnds("failed")

QuerySend ==
  /\ QueryAlive /\ writeq # <<>>
  /\ writeq' = Tail(writeq)
  /\ asked' = asked \cup {Head(writeq)}
  /\ UNCHANGED <<runtime, handles, job, reqq, table, queryq, rspq, qpc, qdoing,
                 timers, timerAt, air>>

QuerySendFails ==
  /\ QueryAlive /\ writeq # <<>>
  /\ writeq' = Tail(writeq)
  /\ send_rsp_data(Head(writeq), Empty, FALSE)
  /\ UNCHANGED <<runtime, handles, job, reqq, table, queryq, qpc, timerAt,
                 wire>>

(* (wrong) A query that times out is forgotten without a result.           *)
QueryTimeoutSilent(k) ==
  /\ QueryAlive /\ k \in timers /\ timerAt[k] = 0
  /\ timers' = timers \ {k} /\ qdoing' = qdoing \ {k}
  /\ UNCHANGED <<runtime, handles, job, reqq, table, queryq, rspq, qpc,
                 timerAt, writeq, wire>>

QueryTimeout(k) ==
  /\ QueryAlive /\ k \in timers /\ timerAt[k] = 0
  /\ send_rsp_data(k, Empty, TRUE)
  /\ UNCHANGED <<runtime, handles, job, reqq, table, queryq, qpc, timerAt,
                 writeq, wire>>

(* handle_req of the query runtime: should_send_raw_query, then encode,    *)
(* which may fail.                                                         *)
QueryReq ==
  /\ QueryAlive /\ queryq # <<>> /\ Len(writeq) < MaxWriteQueue
  /\ queryq' = Tail(queryq)
  /\ LET k == Head(queryq) IN
     \/ /\ k \in qdoing
        /\ UNCHANGED <<qdoing, timers, timerAt, writeq, rspq>>
     \/ /\ k \notin qdoing
        /\ qdoing' = qdoing \cup {k} /\ timers' = timers \cup {k}
        /\ timerAt' = [timerAt EXCEPT ![k] = QueryWait]
        /\ writeq' = Append(writeq, k)
        /\ UNCHANGED rspq
     \/ /\ k \notin qdoing
        /\ Sent(k, Empty)
        /\ UNCHANGED <<qdoing, timers, timerAt, writeq>>
  /\ UNCHANGED <<runtime, handles, job, reqq, table, qpc, wire>>

(* (wrong) The query runtime ends as soon as the handles are gone.         *)
QueryReqClosedEarly ==
  QueryAlive /\ queryq = <<>> /\ ~handles /\ QueryEnds("exited")

(* The key channel closes when the cache runtime has gone.                 *)
QueryReqClosed ==
  QueryAlive /\ queryq = <<>> /\ ~CacheAlive /\ QueryEnds("exited")

query_loop ==
  \/ \E k \in Keys : QueryRecv(k) \/ QueryTimeout(k)
  \/ QuerySend \/ QuerySendFails \/ QueryReq \/ QueryReqClosed

-----------------------------------------------------------------------------
(* The peer answers what it was asked, once or more; datagrams get lost.   *)
PeerAnswers(k) ==
  /\ k \in asked
  /\ air' = air \cup {k}
  /\ UNCHANGED <<runtime, handles, job, reqq, table, queryq, rspq, query,
                 asked>>

Lost(k) ==
  /\ \/ k \in asked /\ asked' = asked \ {k} /\ UNCHANGED air
     \/ k \in air /\ air' = air \ {k} /\ UNCHANGED asked
  /\ UNCHANGED <<runtime, handles, job, reqq, table, queryq, rspq, query>>

Tick ==
  /\ CacheAlive \/ QueryAlive
  /\ cache' = [k \in Keys |-> Aged(cache[k])]
  /\ vanishAt' = [k \in Keys |-> Less(vanishAt[k])]
  /\ timerAt' = [k \in Keys |-> Less(timerAt[k])]
  /\ rspq' = [i \in 1..Len(rspq) |-> [key |-> rspq[i].key,
                                      rec |-> Aged(rspq[i].rec)]]
  /\ UNCHANGED <<runtime, handles, job, reqq, doing, waiters, vanishq, queryq,
                 qpc, qdoing, timers, writeq, wire>>

Next ==
  \/ \E j \in Jobs, k \in Keys, only \in BOOLEAN : Fetch(j, k, only)
  \/ \E j \in Jobs : FetchTimeout(j)
  \/ DropHandles
  \/ poll_loop
  \/ query_loop \/ QueryRecvFails
  \/ \E k \in Keys : PeerAnswers(k) \/ Lost(k)
  \/ Tick

(* tokio runs both tasks and the clock; the peer, the network and callers  *)
(* owe nothing.  The query runtime reaches each of its sources.            *)
Fairness ==
  /\ WF_vars(poll_loop)
  /\ WF_vars(QuerySend \/ QuerySendFails) /\ WF_vars(QueryReq)
  /\ WF_vars(QueryReqClosed)
  /\ \A k \in Keys : WF_vars(QueryTimeout(k))
  /\ WF_vars(Tick)

Spec == Init /\ [][Next]_vars

FairSpec == Spec /\ Fairness

-----------------------------------------------------------------------------
Data == [st : {"none", "ok", "empty"}, expire : Nat, vanish : Nat]

(* The variables hold values of their Rust types.                          *)
TypeOK ==
  /\ cpc \in {"idle", "rsp", "vanish", "req", "exited", "panicked"}
  /\ batch \in Nat /\ (batch = 0 \/ batch < Batch)
  /\ handles \in BOOLEAN
  /\ job \in [Jobs -> {"idle", "waiting", "gone"}]
  /\ reqq \in Seq([job : Jobs, key : Keys, only : BOOLEAN])
  /\ doing \subseteq Keys /\ waiters \in [Keys -> SUBSET Jobs]
  /\ cache \in [Keys -> Data]
  /\ vanishq \subseteq Keys /\ vanishAt \in [Keys -> Nat]
  /\ queryq \in Seq(Keys) /\ rspq \in Seq([key : Keys, rec : Data])
  /\ qpc \in {"running", "failed", "exited"}
  /\ qdoing \subseteq Keys
  /\ timers \subseteq Keys /\ timerAt \in [Keys -> Nat]
  /\ writeq \in Seq(Keys) /\ asked \subseteq Keys /\ air \subseteq Keys

Queries(k) == Cardinality({i \in DOMAIN queryq : queryq[i] = k})

Results(k) == Cardinality({i \in DOMAIN rspq : rspq[i].key = k})

(* While both runtimes are there, each key of `doing` has exactly one      *)
(* query on its way: in the key channel, at the query runtime, or as a     *)
(* result; and no other key has any.  Late, repeated and lost datagrams,   *)
(* timeouts and failed sends do not change that.  Every caller that waits  *)
(* is known to the cache runtime and will be told.                         *)
OneAnswerToCome ==
  /\ CacheAlive /\ QueryAlive =>
       \A k \in Keys :
         Queries(k) + Results(k) + (IF k \in qdoing THEN 1 ELSE 0)
           = IF k \in doing THEN 1 ELSE 0
  /\ \A j \in Jobs :
       job[j] # "idle" =>
         \/ \E i \in DOMAIN reqq : reqq[i].job = j
         \/ \E k \in doing : j \in waiters[k]

(* The two delay queues hold exactly the keys the maps keep their handles  *)
(* for: `remove` and `reset_at`, which panic on a dead handle, are safe,   *)
(* and each result vanishes at its own time.  The state has its types.     *)
TimersMatch ==
  /\ TypeOK
  /\ timers = qdoing
  /\ \A k \in Keys :
       /\ Present(cache[k]) <=> k \in vanishq
       /\ k \in vanishq => vanishAt[k] = cache[k].vanish

(* "unreachable as we have kept a sender" (runtime.rs:135) and "the query  *)
(* runtime should not close before the cache runtime" (runtime.rs:90): as  *)
(* long as the socket does not fail, the cache runtime never meets a closed*)
(* channel of the query runtime, in whichever order the two shut down.     *)
OnlySocketPanics == cpc = "panicked" => qpc = "failed"

(* A fetch gets its answer, a certificate or an empty result, without the  *)
(* help of its own timeout.                                                *)
FetchAnswered == \A j \in Jobs : job[j] = "waiting" ~> job[j] # "waiting"
=============================================================================
