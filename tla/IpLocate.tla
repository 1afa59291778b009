------------------------------ MODULE IpLocate ------------------------------
(***************************************************************************)
(* The IP location service client, lib/g3-ip-locate: a cache task and a    *)
(* query task like those of EffectiveCache, with other rules.  Locations   *)
(* are cached by network and looked up by the longest match; they are      *)
(* never evicted, and an expired one is used when the peer has nothing     *)
(* newer; the peer may push locations nobody asked for.                    *)
(*                                                                         *)
(* A network is the set of its addresses; Ips are those callers ask for.   *)
(* The peer may answer a request at any time after it got it, more than    *)
(* once or never.                                                          *)
(***************************************************************************)
EXTENDS Integers, Sequences, FiniteSets

CONSTANTS
  Ips, Nets, Jobs,
  NoIp,           \* the absent `ip` of a push response
  PeerTtls,       \* lifetimes the peer may give
  MaximumTtl,     \* maximum_expire_ttl
  QueryWait,      \* query_wait_timeout
  Batch,          \* cache_request_batch_count
  MaxWork,        \* bound of the model on the channels between the tasks:
                  \*   on queries, and on results when a datagram arrives
  MaxWriteQueue   \* bound of the model on the length of write_queue

ASSUME IpLocateAssumption ==
  /\ \A n \in Nets : IsFiniteSet(n) /\ n # {}
  /\ NoIp \notin Ips
  /\ PeerTtls \subseteq Nat /\ MaximumTtl \in Nat /\ QueryWait \in Nat
  /\ Batch \in Nat
  /\ MaxWork \in Nat \ {0} /\ MaxWriteQueue \in Nat \ {0}

VARIABLES
  cpc, batch,      \* cache task: place in poll_loop, requests this round
  handles,         \* the service handle is left
  job, reqq,       \* callers of fetch, and the channel of their requests
  doing, waiters,  \* doing: its keys, and the callers of their requests
  known, left,     \* cache: its networks, and their time left
  queryq, rspq,    \* channels to and from the query task
  qpc,             \* query task
  qdoing,          \* doing_cache
  timers, timerAt, \* doing_timeout_queue: its keys, and their time left
  writeq,          \* write_queue
  asked,           \* addresses the peer was asked for
  ignored          \* history: addresses whose empty result changed nothing

runtime == <<cpc, batch>>
table   == <<doing, waiters, known, left, ignored>>
query   == <<qpc, qdoing, timers, timerAt, writeq, asked>>
vars    == <<runtime, handles, job, reqq, table, queryq, rspq, query>>

NoNet == {}

Rsp(ip, net, ttl) == [ip |-> ip, net |-> net, left |-> ttl]

Less(n) == IF n = 0 THEN 0 ELSE n - 1

Init ==
  /\ cpc = "idle" /\ batch = 0 /\ handles = TRUE
  /\ job = [j \in Jobs |-> "idle"] /\ reqq = <<>>
  /\ doing = {} /\ waiters = [k \in Ips |-> {}]
  /\ known = {} /\ left = [n \in Nets |-> 0]
  /\ queryq = <<>> /\ rspq = <<>>
  /\ qpc = "running" /\ qdoing = {} /\ writeq = <<>>
  /\ timers = {} /\ timerAt = [k \in Ips |-> 0]
  /\ asked = {} /\ ignored = {}

CacheAlive == cpc \notin {"exited", "panicked"}

QueryAlive == qpc = "running"

-----------------------------------------------------------------------------
(* Callers: fetch sends its request and waits; its timeout drops the       *)
(* receiver.                                                               *)
Fetch(j, k) ==
  /\ CacheAlive /\ handles /\ job[j] = "idle"
  /\ job' = [job EXCEPT ![j] = "waiting"]
  /\ reqq' = Append(reqq, [job |-> j, ip |-> k])
  /\ UNCHANGED <<runtime, handles, table, queryq, rspq, query>>

FetchTimeout(j) ==
  /\ job[j] = "waiting"
  /\ job' = [job EXCEPT ![j] = "gone"]
  /\ UNCHANGED <<runtime, handles, reqq, table, queryq, rspq, query>>

DropHandles ==
  /\ handles /\ \A j \in Jobs : job[j] # "waiting"
  /\ handles' = FALSE
  /\ UNCHANGED <<runtime, job, reqq, table, queryq, rspq, query>>

Notify(js) == job' = [j \in Jobs |-> IF j \in js THEN "idle" ELSE job[j]]

-----------------------------------------------------------------------------
(* The cache task.                                                         *)
Matches(k) == {n \in known : k \in n}

longest_match(k) ==
  CHOOSE n \in Matches(k) : \A m \in Matches(k) : Cardinality(n) <= Cardinality(m)

(* The callers waiting for address k get a location.                       *)
Answered(k) ==
  /\ doing' = doing \ {k}
  /\ waiters' = [waiters EXCEPT ![k] = {}]
  /\ Notify(waiters[k])
  /\ ignored' = ignored \ {k}

(* A location goes to the callers waiting for its address, if it has one,  *)
(* and into the cache.                                                     *)
RspLocation(r) ==
  /\ IF r.ip \in Ips THEN Answered(r.ip)
                     ELSE UNCHANGED <<doing, waiters, job, ignored>>
  /\ known' = known \cup {r.net}
  /\ left' = [left EXCEPT ![r.net] = r.left]

(* Without one the old location answers; with no old location either the   *)
(* result is ignored and the callers stay.                                 *)
RspEmpty(r) ==
  /\ \/ /\ r.ip \in Ips /\ Matches(r.ip) # {} /\ Answered(r.ip)
     \/ /\ r.ip \in Ips /\ Matches(r.ip) = {}
        /\ ignored' = ignored \cup (doing \cap {r.ip})
        /\ UNCHANGED <<doing, waiters, job>>
     \/ /\ r.ip = NoIp
        /\ UNCHANGED <<doing, waiters, job, ignored>>
  /\ UNCHANGED <<known, left>>

handle_rsp(r) == IF r.net # NoNet THEN RspLocation(r) ELSE RspEmpty(r)

Valid(k) == Matches(k) # {} /\ left[longest_match(k)] > 0

handle_req(j, k) ==
  \/ Valid(k) /\ Notify({j}) /\ UNCHANGED <<table, queryq>>
  \/ /\ ~Valid(k)
     /\ doing' = doing \cup {k}
     /\ waiters' = [waiters EXCEPT ![k] = @ \cup {j}]
     /\ IF k \in doing THEN UNCHANGED queryq
        ELSE /\ QueryAlive /\ Len(queryq) < MaxWork
             /\ queryq' = Append(queryq, k)
     /\ UNCHANGED <<known, left, ignored, job>>

CacheEnds(how) ==
  /\ cpc' = how /\ batch' = 0
  /\ job' = [j \in Jobs |-> "idle"]
  /\ reqq' = <<>> /\ rspq' = <<>>
  /\ doing' = {} /\ waiters' = [k \in Ips |-> {}]
  /\ known' = {} /\ left' = [n \in Nets |-> 0] /\ ignored' = {}
  /\ UNCHANGED <<handles, queryq, query>>

PollEnter ==
  /\ cpc = "idle"
  /\ rspq # <<>> \/ reqq # <<>> \/ ~handles \/ ~QueryAlive
  /\ cpc' = "rsp"
  /\ UNCHANGED <<batch, handles, job, reqq, table, queryq, rspq, query>>

PollRsp ==
  /\ cpc = "rsp" /\ rspq # <<>>
  /\ handle_rsp(Head(rspq))
  /\ rspq' = Tail(rspq)
  /\ UNCHANGED <<runtime, handles, reqq, queryq, query>>

PollRspEmpty ==
  /\ cpc = "rsp" /\ rspq = <<>> /\ QueryAlive
  /\ cpc' = "req"
  /\ UNCHANGED <<batch, handles, job, reqq, table, queryq, rspq, query>>

(* The result channel is closed: `unreachable!()`.                         *)
PollRspClosed ==
  /\ cpc = "rsp" /\ rspq = <<>> /\ ~QueryAlive
  /\ CacheEnds("panicked")

(* The range 1..Batch of the code has Batch - 1 elements.                  *)
PollReq ==
  /\ cpc = "req" /\ batch < Batch - 1 /\ reqq # <<>>
  /\ handle_req(Head(reqq).job, Head(reqq).ip)
  /\ reqq' = Tail(reqq)
  /\ batch' = batch + 1
  /\ UNCHANGED <<cpc, handles, rspq, query>>

(* send_req when the query task is gone is `unreachable!()`.               *)
PollReqPanics ==
  /\ cpc = "req" /\ batch < Batch - 1 /\ reqq # <<>> /\ ~QueryAlive
  /\ ~Valid(Head(reqq).ip) /\ Head(reqq).ip \notin doing
  /\ CacheEnds("panicked")

PollReqEmpty ==
  /\ cpc = "req" /\ batch < Batch - 1 /\ reqq = <<>> /\ handles
  /\ cpc' = "idle" /\ batch' = 0
  /\ UNCHANGED <<handles, job, reqq, table, queryq, rspq, query>>

PollReqClosed ==
  /\ cpc = "req" /\ batch < Batch - 1 /\ reqq = <<>> /\ ~handles
  /\ CacheEnds("exited")

NextRound ==
  /\ cpc = "req" /\ batch >= Batch - 1
  /\ cpc' = "rsp" /\ batch' = 0
  /\ UNCHANGED <<handles, job, reqq, table, queryq, rspq, query>>

poll_loop ==
  \/ PollEnter \/ PollRsp \/ PollRspEmpty \/ PollRspClosed
  \/ PollReq \/ PollReqPanics \/ PollReqEmpty \/ PollReqClosed \/ NextRound

-----------------------------------------------------------------------------
(* The query task.                                                         *)
Sent(r) == IF CacheAlive THEN rspq' = Append(rspq, r) ELSE UNCHANGED rspq

(* (wrong) The timer of an answered query is not removed.                  *)
SendRspKeepsTimer(r, expired) ==
  /\ qdoing' = qdoing \ {r.ip}
  /\ timers' = IF expired THEN timers \ {r.ip} ELSE timers
  /\ Sent(r)

(* IpLocationQueryHandle::send_rsp_data: the query ends, if there is one;  *)
(* the result is passed on in any case.                                    *)
send_rsp_data(r, expired) ==
  /\ qdoing' = qdoing \ {r.ip}
  /\ timers' = IF expired \/ r.ip \in qdoing THEN timers \ {r.ip} ELSE timers
  /\ Sent(r)

(* The lifetime of an empty result is not used.                            *)
Empty(k) == Rsp(k, NoNet, 0)

(* default_expire_ttl applies when the peer gives no lifetime: it is one   *)
(* of PeerTtls.                                                            *)
TtlOf(t) == IF t < MaximumTtl THEN t ELSE MaximumTtl

(* What the peer may send: a location or none, for an address it was asked *)
(* or as a push.                                                           *)
PeerSends ==
  {Rsp(k, n, TtlOf(t)) : k \in asked \cup {NoIp}, n \in Nets, t \in PeerTtls}
    \cup {Empty(k) : k \in asked \cup {NoIp}}

(* A datagram arrives; one that does not parse changes nothing.            *)
QueryRecv ==
  /\ QueryAlive /\ Len(rspq) < MaxWork
  /\ \E r \in PeerSends : send_rsp_data(r, FALSE)
  /\ UNCHANGED <<runtime, handles, job, reqq, table, queryq, qpc, timerAt,
                 writeq, asked>>

(* The query task is dropped, with its socket.                             *)
QueryEnds(how) ==
  /\ qpc' = how /\ qdoing' = {} /\ timers' = {} /\ writeq' = <<>>
  /\ queryq' = <<>> /\ asked' = {}
  /\ UNCHANGED <<runtime, handles, job, reqq, table, rspq, timerAt>>

(* The receive fails: the query task ends.                                 *)
QueryRecvFails == QueryAlive /\ QueryEnds("failed")

QuerySend ==
  /\ QueryAlive /\ writeq # <<>>
  /\ writeq' = Tail(writeq)
  /\ asked' = asked \cup {Head(writeq)}
  /\ UNCHANGED <<runtime, handles, job, reqq, table, queryq, rspq, qpc, qdoing,
                 timers, timerAt>>

QuerySendFails ==
  /\ QueryAlive /\ writeq # <<>>
  /\ writeq' = Tail(writeq)
  /\ send_rsp_data(Empty(Head(writeq)), FALSE)
  /\ UNCHANGED <<runtime, handles, job, reqq, table, queryq, qpc, timerAt,
                 asked>>

(* (wrong) A query that times out is forgotten without a result.           *)
QueryTimeoutSilent(k) ==
  /\ QueryAlive /\ k \in timers /\ timerAt[k] = 0
  /\ timers' = timers \ {k} /\ qdoing' = qdoing \ {k}
  /\ UNCHANGED <<runtime, handles, job, reqq, table, queryq, rspq, qpc,
                 timerAt, writeq, asked>>

QueryTimeout(k) ==
  /\ QueryAlive /\ k \in timers /\ timerAt[k] = 0
  /\ send_rsp_data(Empty(k), TRUE)
  /\ UNCHANGED <<runtime, handles, job, reqq, table, queryq, qpc, timerAt,
                 writeq, asked>>

(* handle_req of the query task: should_send_raw_query, then encode_new,   *)
(* which may fail.                                                         *)
QueryReq ==
  /\ QueryAlive /\ queryq # <<>> /\ Len(writeq) < MaxWriteQueue
  /\ queryq' = Tail(queryq)
  /\ LET k == Head(queryq) IN
     \/ /\ k \in qdoing
        /\ UNCHANGED <<qdoing, timers, timerAt, writeq, rspq>>
     \/ /\ k \notin qdoing
        /\ qdoing' = qdoing \cup {k} /\ timers' = timers \cup {k}
        /\ timerAt' = [timerAt EXCEPT ![k] = QueryWait]
        /\ writeq' = Append(writeq, k)
        /\ UNCHANGED rspq
     \/ /\ k \notin qdoing
        /\ Sent(Empty(k))
        /\ UNCHANGED <<qdoing, timers, timerAt, writeq>>
  /\ UNCHANGED <<runtime, handles, job, reqq, table, qpc, asked>>

QueryReqClosed ==
  QueryAlive /\ queryq = <<>> /\ ~CacheAlive /\ QueryEnds("exited")

Tick ==
  /\ CacheAlive \/ QueryAlive
  /\ left' = [n \in Nets |-> Less(left[n])]
  /\ timerAt' = [k \in Ips |-> Less(timerAt[k])]
  /\ rspq' = [i \in 1..Len(rspq) |->
                Rsp(rspq[i].ip, rspq[i].net, Less(rspq[i].left))]
  /\ UNCHANGED <<runtime, handles, job, reqq, doing, waiters, known, ignored,
                 queryq, qpc, qdoing, timers, writeq, asked>>

Next ==
  \/ \E j \in Jobs, k \in Ips : Fetch(j, k)
  \/ \E j \in Jobs : FetchTimeout(j)
  \/ DropHandles
  \/ poll_loop
  \/ QueryRecv \/ QueryRecvFails
  \/ QuerySend \/ QuerySendFails \/ QueryReq \/ QueryReqClosed
  \/ \E k \in Ips : QueryTimeout(k)
  \/ Tick

Spec == Init /\ [][Next]_vars

-----------------------------------------------------------------------------
Rsps == [ip : Ips \cup {NoIp}, net : Nets \cup {NoNet}, left : Nat]

(* The variables hold values of their Rust types, and the batch its bound. *)
TypeOK ==
  /\ cpc \in {"idle", "rsp", "req", "exited", "panicked"}
  /\ batch \in Nat /\ (batch = 0 \/ batch < Batch)
  /\ handles \in BOOLEAN
  /\ job \in [Jobs -> {"idle", "waiting", "gone"}]
  /\ reqq \in Seq([job : Jobs, ip : Ips])
  /\ doing \subseteq Ips /\ waiters \in [Ips -> SUBSET Jobs]
  /\ known \subseteq Nets /\ left \in [Nets -> Nat]
  /\ queryq \in Seq(Ips) /\ rspq \in Seq(Rsps)
  /\ qpc \in {"running", "failed", "exited"}
  /\ qdoing \subseteq Ips /\ timers \subseteq Ips /\ timerAt \in [Ips -> Nat]
  /\ writeq \in Seq(Ips) /\ asked \subseteq Ips /\ ignored \subseteq Ips

(* The timeout queue holds exactly the addresses of doing_cache, so that   *)
(* `remove`, which panics on a dead timer, is safe.  The state has its     *)
(* types.                                                                  *)
TimersMatch == TypeOK /\ timers = qdoing

(* Results are passed on even when no query is under way, and a request    *)
(* may find one that is; still an address of `doing` always has a result   *)
(* to come, unless an empty result for it was ignored.  Every caller that  *)
(* waits is known to the cache task, by an address of `doing` once its     *)
(* request was read.                                                       *)
AnswerToCome ==
  /\ CacheAlive /\ QueryAlive =>
       \A k \in doing \ ignored :
         \/ k \in qdoing
         \/ \E i \in DOMAIN queryq : queryq[i] = k
         \/ \E i \in DOMAIN rspq : rspq[i].ip = k
  /\ \A j \in Jobs :
       job[j] # "idle" =>
         \/ \E i \in DOMAIN reqq : reqq[i].job = j
         \/ \E k \in doing : j \in waiters[k]
=============================================================================
