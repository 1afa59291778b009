--------------------------- MODULE IpLocateProofs ---------------------------
(***************************************************************************)
(* Safety of the IP location client, for any number of addresses, networks *)
(* and callers, any lifetimes and any batch size: type correctness, timers *)
(* that match the queries, and an answer to come for every address asked   *)
(* for.                                                                    *)
(***************************************************************************)
EXTENDS IpLocate, TLAPS

Elems(s) == {s[i] : i \in DOMAIN s}

Req == [job : Jobs, ip : Ips]

(* The conjuncts of TypeOK, by the variables they speak of.                *)
RunTypes ==
  /\ cpc \in {"idle", "rsp", "req", "exited", "panicked"}
  /\ batch \in Nat /\ (batch = 0 \/ batch < Batch)
  /\ handles \in BOOLEAN
CallTypes == job \in [Jobs -> {"idle", "waiting", "gone"}] /\ reqq \in Seq(Req)
TableTypes ==
  /\ doing \subseteq Ips /\ waiters \in [Ips -> SUBSET Jobs] /\ ignored \subseteq Ips
  /\ known \subseteq Nets /\ left \in [Nets -> Nat]
WireTypes == queryq \in Seq(Ips) /\ rspq \in Seq(Rsps)
QueryTypes ==
  /\ qpc \in {"running", "failed", "exited"}
  /\ qdoing \subseteq Ips /\ timers \subseteq Ips /\ timerAt \in [Ips -> Nat]
  /\ writeq \in Seq(Ips) /\ asked \subseteq Ips
Types == RunTypes /\ CallTypes /\ TableTypes /\ WireTypes /\ QueryTypes

(* The two conjuncts of AnswerToCome.                                      *)
OnItsWay(k) == \/ k \in qdoing
               \/ k \in Elems(queryq)
               \/ \E r \in Elems(rspq) : r.ip = k
ToCome == CacheAlive /\ QueryAlive => \A k \in doing \ ignored : OnItsWay(k)

InReqs(j) == \E m \in Elems(reqq) : m.job = j
InDoing(j) == \E k \in doing : j \in waiters[k]
Callers == \A j \in Jobs : job[j] # "idle" => InReqs(j) \/ InDoing(j)

IInv == Types /\ timers = qdoing /\ ToCome /\ Callers

-----------------------------------------------------------------------------
(* Sequences.                                                              *)

(* One more element at the end of a channel.                               *)
LEMMA AppendSeq ==
  ASSUME NEW S, NEW s \in Seq(S), NEW e \in S
  PROVE  Append(s, e) \in Seq(S) /\ Elems(Append(s, e)) = Elems(s) \cup {e}
<1>1. /\ Append(s, e) \in Seq(S) /\ DOMAIN s = 1 .. Len(s) /\ Len(s) \in Nat
      /\ DOMAIN Append(s, e) = 1 .. Len(s) + 1
  OBVIOUS
<1>2. /\ Append(s, e)[Len(s) + 1] = e
      /\ \A i \in 1 .. Len(s) : Append(s, e)[i] = s[i]
  OBVIOUS
<1>3. /\ \A i \in 1 .. Len(s) + 1 : i \in 1 .. Len(s) \/ i = Len(s) + 1
      /\ \A i \in 1 .. Len(s) : i \in 1 .. Len(s) + 1
      /\ Len(s) + 1 \in 1 .. Len(s) + 1
  BY <1>1
<1> QED
  BY <1>1, <1>2, <1>3, Zenon DEF Elems

(* The first element of a channel, and the rest.                           *)
LEMMA TailSeq ==
  ASSUME NEW S, NEW s \in Seq(S), s # <<>>
  PROVE  /\ Tail(s) \in Seq(S) /\ Head(s) \in S
         /\ Elems(s) = Elems(Tail(s)) \cup {Head(s)}
<1>1. /\ Tail(s) \in Seq(S) /\ Head(s) \in S /\ Len(s) \in Nat /\ Len(s) >= 1
      /\ DOMAIN s = 1 .. Len(s) /\ DOMAIN Tail(s) = 1 .. Len(s) - 1
  OBVIOUS
<1>2. /\ Head(s) = s[1]
      /\ \A i \in 1 .. Len(s) - 1 : Tail(s)[i] = s[i + 1]
  OBVIOUS
<1>3. /\ \A i \in 1 .. Len(s) : i = 1 \/ \E l \in 1 .. Len(s) - 1 : i = l + 1
      /\ \A i \in 1 .. Len(s) - 1 : i + 1 \in 1 .. Len(s)
      /\ 1 \in 1 .. Len(s)
  <2>1. ASSUME NEW i \in 1 .. Len(s), i # 1 PROVE \E l \in 1 .. Len(s) - 1 : i = l + 1
    <3>1. i - 1 \in 1 .. Len(s) - 1 /\ i = (i - 1) + 1
      BY <1>1, <2>1
    <3> QED
      BY <3>1, Zenon
  <2>2. /\ \A i \in 1 .. Len(s) - 1 : i + 1 \in 1 .. Len(s)
        /\ 1 \in 1 .. Len(s)
    BY <1>1
  <2> QED
    BY <2>1, <2>2, Zenon
<1>4. ASSUME NEW x \in Elems(s), x # Head(s) PROVE x \in Elems(Tail(s))
  <2>1. PICK i \in 1 .. Len(s) : x = s[i]
    BY <1>1, <1>4, Zenon DEF Elems
  <2>2. PICK l \in 1 .. Len(s) - 1 : i = l + 1
    BY <1>2, <1>3, <1>4, <2>1, Zenon
  <2>3. x = Tail(s)[l]
    BY <1>2, <2>1, <2>2, Zenon
  <2> QED
    BY <1>1, <2>3, Zenon DEF Elems
<1>5. ASSUME NEW x \in Elems(Tail(s)) PROVE x \in Elems(s)
  <2>1. PICK l \in 1 .. Len(s) - 1 : x = Tail(s)[l]
    BY <1>1, Zenon DEF Elems
  <2>2. x = s[l + 1] /\ l + 1 \in 1 .. Len(s)
    BY <1>2, <1>3, <2>1, Zenon
  <2> QED
    BY <1>1, <2>2, Zenon DEF Elems
<1>6. Head(s) \in Elems(s)
  BY <1>1, <1>2, <1>3, Zenon DEF Elems
<1> QED
  BY <1>1, <1>4, <1>5, <1>6, Zenon

(* An empty channel has no elements; those of a channel have its type.     *)
LEMMA SeqElems ==
  ASSUME NEW S
  PROVE  Elems(<<>>) = {} /\ <<>> \in Seq(S) /\ \A s \in Seq(S) : Elems(s) \subseteq S
BY DEF Elems

-----------------------------------------------------------------------------
(* What the handlers do.                                                   *)

(* The steps of the client, by what they may change.                       *)
LEMMA Steps ==
  ASSUME [Next]_vars
  PROVE  \/ \E j \in Jobs, k \in Ips : Fetch(j, k)
         \/ \E j \in Jobs : FetchTimeout(j)
         \/ DropHandles
         \/ PollEnter \/ PollRspEmpty \/ PollReqEmpty \/ NextRound
         \/ PollRsp
         \/ PollReq
         \/ \E how \in {"exited", "panicked"} : CacheEnds(how)
         \/ QueryRecv
         \/ QuerySend
         \/ QuerySendFails
         \/ QueryReq
         \/ \E k \in Ips : QueryTimeout(k)
         \/ \E how \in {"failed", "exited"} : QueryEnds(how)
         \/ Tick
         \/ UNCHANGED vars
<1>1. PollRspClosed \/ PollReqPanics \/ PollReqClosed
        => \E how \in {"exited", "panicked"} : CacheEnds(how)
  BY Zenon DEF PollRspClosed, PollReqPanics, PollReqClosed
<1>2. QueryRecvFails \/ QueryReqClosed
        => \E how \in {"failed", "exited"} : QueryEnds(how)
  BY Zenon DEF QueryRecvFails, QueryReqClosed
<1> QED
  BY <1>1, <1>2, ZenonT(60) DEF Next, poll_loop

(* A result handled by the cache task leaves no open address of its own:   *)
(* it is answered, or remembered as ignored; callers leave only answered.  *)
LEMMA RspEffect ==
  ASSUME TableTypes, CallTypes, NEW r \in Rsps, handle_rsp(r)
  PROVE  /\ TableTypes' /\ job' \in [Jobs -> {"idle", "waiting", "gone"}]
         /\ \A k \in doing' \ ignored' : k \in doing \ ignored /\ k # r.ip
         /\ \A j \in Jobs : job'[j] # "idle" =>
              /\ job[j] # "idle"
              /\ \A k \in doing : j \in waiters[k] => k \in doing' /\ j \in waiters'[k]
<1>0. /\ r.ip \in Ips \cup {NoIp} /\ r.net \in Nets \cup {NoNet} /\ r.left \in Nat
      /\ doing \subseteq Ips /\ NoIp \notin Ips /\ ignored \subseteq Ips
      /\ known \subseteq Nets /\ left \in [Nets -> Nat] /\ waiters \in [Ips -> SUBSET Jobs]
      /\ job \in [Jobs -> {"idle", "waiting", "gone"}]
  BY IpLocateAssumption, Zenon DEF Rsps, TableTypes, CallTypes
<1>1. /\ known' \subseteq Nets /\ left' \in [Nets -> Nat]
  <2>1. CASE r.net # NoNet
    <3>1. r.net \in Nets
      BY <1>0, <2>1, Zenon
    <3>2. known' = known \cup {r.net} /\ left' = [left EXCEPT ![r.net] = r.left]
      BY <2>1, Zenon DEF handle_rsp, RspLocation
    <3>3. left' \in [Nets -> Nat]
      BY <1>0, <3>2, Zenon
    <3> QED
      BY <1>0, <3>1, <3>2, <3>3, Zenon
  <2>2. CASE r.net = NoNet
    BY <1>0, <2>2, Zenon DEF handle_rsp, RspEmpty
  <2> QED
    BY <2>1, <2>2, Zenon
<1>2. \/ r.ip \in Ips /\ Answered(r.ip)
      \/ /\ r.ip \in Ips /\ ignored' = ignored \cup (doing \cap {r.ip})
         /\ UNCHANGED <<doing, waiters, job>>
      \/ r.ip \notin Ips /\ UNCHANGED <<doing, waiters, job, ignored>>
  BY <1>0, Zenon DEF handle_rsp, RspLocation, RspEmpty
<1>3. CASE r.ip \in Ips /\ Answered(r.ip)
  <2>1. /\ doing' = doing \ {r.ip} /\ waiters' = [waiters EXCEPT ![r.ip] = {}]
        /\ job' = [j \in Jobs |-> IF j \in waiters[r.ip] THEN "idle" ELSE job[j]]
        /\ ignored' = ignored \ {r.ip}
    BY <1>3, Zenon DEF Answered, Notify
  <2>2. /\ waiters' \in [Ips -> SUBSET Jobs]
        /\ \A k \in Ips : k # r.ip => waiters'[k] = waiters[k]
    BY <1>0, <1>3, <2>1, Zenon
  <2>3. /\ job' \in [Jobs -> {"idle", "waiting", "gone"}]
        /\ \A j \in Jobs : job'[j] # "idle" => j \notin waiters[r.ip] /\ job'[j] = job[j]
    BY <1>0, <2>1, Zenon
  <2> QED
    BY <1>0, <1>1, <2>1, <2>2, <2>3, Zenon DEF TableTypes
<1>4. CASE /\ r.ip \in Ips /\ ignored' = ignored \cup (doing \cap {r.ip})
           /\ UNCHANGED <<doing, waiters, job>>
  BY <1>0, <1>1, <1>4, Zenon DEF TableTypes
<1>5. CASE r.ip \notin Ips /\ UNCHANGED <<doing, waiters, job, ignored>>
  BY <1>0, <1>1, <1>5, Zenon DEF TableTypes
<1> QED
  BY <1>2, <1>3, <1>4, <1>5, Zenon

(* A request is answered at once, or its caller waits at an address that   *)
(* was open before or is on its way to the query task now.                 *)
LEMMA ReqEffect ==
  ASSUME TableTypes, CallTypes, WireTypes, NEW j \in Jobs, NEW k \in Ips, handle_req(j, k)
  PROVE  /\ TableTypes' /\ job' \in [Jobs -> {"idle", "waiting", "gone"}]
         /\ queryq' \in Seq(Ips) /\ Elems(queryq) \subseteq Elems(queryq')
         /\ \A l \in doing' \ ignored' : l \in doing \ ignored \/ l \in Elems(queryq')
         /\ \A i \in Jobs : job'[i] # "idle" =>
              /\ job[i] # "idle"
              /\ i = j => \E l \in doing' : i \in waiters'[l]
              /\ \A l \in doing : i \in waiters[l] => l \in doing' /\ i \in waiters'[l]
<1>0. /\ doing \subseteq Ips /\ waiters \in [Ips -> SUBSET Jobs]
      /\ job \in [Jobs -> {"idle", "waiting", "gone"}] /\ queryq \in Seq(Ips)
  BY Zenon DEF TableTypes, CallTypes, WireTypes
<1>1. CASE Notify({j}) /\ UNCHANGED <<table, queryq>>
  <2>1. /\ job' = [i \in Jobs |-> IF i \in {j} THEN "idle" ELSE job[i]]
        /\ UNCHANGED <<doing, waiters, known, left, ignored, queryq>>
    BY <1>1, Zenon DEF Notify, table
  <2>2. /\ job' \in [Jobs -> {"idle", "waiting", "gone"}]
        /\ \A i \in Jobs : job'[i] # "idle" => i # j /\ job'[i] = job[i]
    BY <1>0, <2>1, Zenon
  <2> QED
    BY <1>0, <2>1, <2>2, Zenon DEF TableTypes
<1>2. CASE ~Notify({j}) \/ ~UNCHANGED <<table, queryq>>
  <2>1. /\ doing' = doing \cup {k} /\ waiters' = [waiters EXCEPT ![k] = @ \cup {j}]
        /\ IF k \in doing THEN UNCHANGED queryq ELSE queryq' = Append(queryq, k)
        /\ UNCHANGED <<known, left, ignored, job>>
    BY <1>2, Zenon DEF handle_req
  <2>2. /\ waiters' \in [Ips -> SUBSET Jobs] /\ j \in waiters'[k]
        /\ \A l \in Ips : waiters[l] \subseteq waiters'[l]
    BY <1>0, <2>1, Zenon
  <2>3. /\ queryq' \in Seq(Ips) /\ Elems(queryq) \subseteq Elems(queryq')
        /\ k \in doing \/ k \in Elems(queryq')
    <3>1. CASE k \in doing
      BY <1>0, <2>1, <3>1, Zenon
    <3>2. CASE k \notin doing
      <4>1. queryq' = Append(queryq, k)
        BY <2>1, <3>2, Zenon
      <4>2. queryq' \in Seq(Ips) /\ Elems(queryq') = Elems(queryq) \cup {k}
        BY <1>0, <4>1, AppendSeq
      <4> QED
        BY <4>2, Zenon
    <3> QED
      BY <3>1, <3>2, Zenon
  <2>4. TableTypes'
    BY <1>0, <2>1, <2>2, Zenon DEF TableTypes
  <2> QED
    BY <1>0, <2>1, <2>2, <2>3, <2>4, Zenon
<1> QED
  BY <1>1, <1>2, Zenon

(* A result passed on ends the query and its timer.                        *)
LEMMA SentEffect ==
  ASSUME WireTypes, QueryTypes, timers = qdoing, NEW r \in Rsps, NEW expired \in BOOLEAN,
         send_rsp_data(r, expired)
  PROVE  /\ rspq' \in Seq(Rsps) /\ qdoing' = qdoing \ {r.ip} /\ timers' = qdoing'
         /\ CacheAlive => Elems(rspq') = Elems(rspq) \cup {r}
<1>1. /\ qdoing' = qdoing \ {r.ip} /\ timers' = qdoing'
  BY Zenon DEF send_rsp_data
<1>2. rspq' = IF CacheAlive THEN Append(rspq, r) ELSE rspq
  BY Zenon DEF send_rsp_data, Sent
<1> QED
  <2>1. rspq \in Seq(Rsps)
    BY Zenon DEF WireTypes
  <2>2. /\ Append(rspq, r) \in Seq(Rsps)
        /\ Elems(Append(rspq, r)) = Elems(rspq) \cup {r}
    BY <2>1, AppendSeq
  <2>3. CASE CacheAlive
    <3>1. rspq' = Append(rspq, r)
      BY <1>2, <2>3, Zenon
    <3> QED
      BY <1>1, <2>2, <3>1, Zenon
  <2>4. CASE ~CacheAlive
    <3>1. rspq' = rspq
      BY <1>2, <2>4, Zenon
    <3> QED
      BY <1>1, <2>1, <2>4, <3>1, Zenon
  <2> QED
    BY <2>3, <2>4, Zenon

(* What the query task passes on are results.                              *)
LEMMA RspTypes ==
  ASSUME QueryTypes
  PROVE  /\ \A k \in Ips : Empty(k) \in Rsps /\ Empty(k).ip = k
         /\ PeerSends \subseteq Rsps
<1>1. \A k \in Ips \cup {NoIp} : Empty(k) \in Rsps /\ Empty(k).ip = k
  BY Zenon DEF Empty, Rsp, Rsps
<1>2. ASSUME NEW k \in Ips \cup {NoIp}, NEW n \in Nets, NEW t \in PeerTtls
      PROVE  Rsp(k, n, TtlOf(t)) \in Rsps
  <2>1. TtlOf(t) \in Nat
    BY IpLocateAssumption, Zenon DEF TtlOf
  <2> QED
    BY <2>1, Zenon DEF Rsp, Rsps
<1>3. ASSUME NEW r \in PeerSends PROVE r \in Rsps
  <2>1. asked \cup {NoIp} \subseteq Ips \cup {NoIp}
    BY Zenon DEF QueryTypes
  <2>2. \/ \E k \in asked \cup {NoIp}, n \in Nets, t \in PeerTtls : r = Rsp(k, n, TtlOf(t))
        \/ \E k \in asked \cup {NoIp} : r = Empty(k)
    BY DEF PeerSends
  <2> QED
    BY <1>1, <1>2, <2>1, <2>2, Zenon
<1> QED
  BY <1>1, <1>3, Zenon

(* A passing second changes no address of a result.                        *)
LEMMA TickEffect ==
  ASSUME WireTypes, Tick
  PROVE  /\ rspq' \in Seq(Rsps)
         /\ \A r \in Elems(rspq) : \E s \in Elems(rspq') : s.ip = r.ip
<1> DEFINE f(i) == Rsp(rspq[i].ip, rspq[i].net, Less(rspq[i].left))
<1>1. rspq' = [i \in 1 .. Len(rspq) |-> f(i)]
  BY Zenon DEF Tick
<1>2. /\ Len(rspq) \in Nat /\ DOMAIN rspq = 1 .. Len(rspq)
      /\ \A i \in 1 .. Len(rspq) : rspq[i] \in Rsps
  BY DEF WireTypes
<1>3. ASSUME NEW i \in 1 .. Len(rspq) PROVE f(i) \in Rsps /\ f(i).ip = rspq[i].ip
  <2>1. rspq[i] \in Rsps
    BY <1>2, Zenon
  <2>2. Less(rspq[i].left) \in Nat
    BY <2>1 DEF Rsps, Less
  <2> QED
    BY <2>1, <2>2, Zenon DEF Rsp, Rsps
<1> HIDE DEF f
<1>4. rspq' \in [1 .. Len(rspq) -> Rsps] /\ DOMAIN rspq' = 1 .. Len(rspq)
  BY <1>1, <1>3, Zenon
<1>5. rspq' \in Seq(Rsps)
  BY <1>2, <1>4
<1>6. \A i \in 1 .. Len(rspq) : rspq'[i].ip = rspq[i].ip
  BY <1>1, <1>3, Zenon
<1> QED
  BY <1>2, <1>4, <1>5, <1>6, Zenon DEF Elems

-----------------------------------------------------------------------------
(* Each conjunct of the invariant, step by step.                           *)

(* The place of the cache task, its batch and the handles.                 *)
LEMMA RunNext == RunTypes /\ [Next]_vars => RunTypes'
<1> SUFFICES ASSUME RunTypes, [Next]_vars PROVE RunTypes'
  BY Zenon
<1>1. CASE UNCHANGED <<runtime, handles>>
  BY <1>1, Zenon DEF runtime, RunTypes
<1>2. CASE DropHandles \/ PollEnter \/ PollRspEmpty
  BY <1>2, Zenon DEF DropHandles, PollEnter, PollRspEmpty, RunTypes, runtime
<1>3. CASE \/ PollReqEmpty \/ NextRound
           \/ \E how \in {"exited", "panicked"} : CacheEnds(how)
  <2>1. batch' = 0 /\ handles' = handles
        /\ cpc' \in {"idle", "rsp", "req", "exited", "panicked"}
    BY <1>3, Zenon DEF PollReqEmpty, NextRound, CacheEnds
  <2> QED
    BY <2>1, Zenon DEF RunTypes
<1>4. CASE PollReq
  <2>1. batch < Batch - 1 /\ batch' = batch + 1 /\ UNCHANGED <<cpc, handles>>
    BY <1>4, Zenon DEF PollReq
  <2>2. batch' \in Nat /\ batch' < Batch
    BY <2>1, IpLocateAssumption DEF RunTypes
  <2> QED
    BY <2>1, <2>2, Zenon DEF RunTypes
<1>5. CASE \/ \E j \in Jobs, k \in Ips : Fetch(j, k)
           \/ \E j \in Jobs : FetchTimeout(j)
           \/ PollRsp \/ QueryRecv \/ QuerySend \/ QuerySendFails \/ QueryReq
           \/ \E k \in Ips : QueryTimeout(k)
           \/ \E how \in {"failed", "exited"} : QueryEnds(how)
           \/ Tick \/ UNCHANGED vars
  <2>1. UNCHANGED <<runtime, handles>>
    BY <1>5, Zenon DEF Fetch, FetchTimeout, PollRsp, QueryRecv, QuerySend,
       QuerySendFails, QueryReq, QueryTimeout, QueryEnds, Tick, vars
  <2> QED
    BY <1>1, <2>1, Zenon
<1> QED
  BY <1>2, <1>3, <1>4, <1>5, Steps, Zenon

(* The steps that leave callers, requests and the tables of the cache task *)
(* alone.                                                                  *)
LEMMA QuietSteps ==
  ASSUME \/ DropHandles \/ PollEnter \/ PollRspEmpty \/ PollReqEmpty \/ NextRound
         \/ QueryRecv \/ QuerySend \/ QuerySendFails \/ QueryReq
         \/ \E k \in Ips : QueryTimeout(k)
         \/ \E how \in {"failed", "exited"} : QueryEnds(how)
         \/ UNCHANGED vars
  PROVE  UNCHANGED <<job, reqq, doing, waiters, known, left, ignored>>
BY ZenonT(60) DEF DropHandles, PollEnter, PollRspEmpty, PollReqEmpty, NextRound,
   QueryRecv, QuerySend, QuerySendFails, QueryReq, QueryTimeout, QueryEnds, vars, table

(* Callers, requests and tables keep their types.                          *)
LEMMA TableNext ==
  CallTypes /\ TableTypes /\ WireTypes /\ [Next]_vars => CallTypes' /\ TableTypes'
<1> SUFFICES ASSUME CallTypes, TableTypes, WireTypes, [Next]_vars
             PROVE  CallTypes' /\ TableTypes'
  BY Zenon
<1>0. /\ job \in [Jobs -> {"idle", "waiting", "gone"}] /\ reqq \in Seq(Req)
      /\ rspq \in Seq(Rsps) /\ left \in [Nets -> Nat]
  BY Zenon DEF CallTypes, WireTypes, TableTypes
<1>1. CASE UNCHANGED <<job, reqq, doing, waiters, known, left, ignored>>
  BY <1>1, Zenon DEF CallTypes, TableTypes
<1>2. ASSUME NEW j \in Jobs, NEW k \in Ips, Fetch(j, k) PROVE CallTypes' /\ TableTypes'
  <2>1. /\ job' = [job EXCEPT ![j] = "waiting"] /\ UNCHANGED table
        /\ reqq' = Append(reqq, [job |-> j, ip |-> k])
    BY <1>2, Zenon DEF Fetch
  <2>2. job' \in [Jobs -> {"idle", "waiting", "gone"}]
    BY <1>0, <2>1, Zenon
  <2>3. [job |-> j, ip |-> k] \in Req
    BY Zenon DEF Req
  <2>4. reqq' \in Seq(Req)
    BY <1>0, <2>1, <2>3, AppendSeq, Zenon
  <2> QED
    BY <2>1, <2>2, <2>4, Zenon DEF CallTypes, TableTypes, table
<1>3. ASSUME NEW j \in Jobs, FetchTimeout(j) PROVE CallTypes' /\ TableTypes'
  <2>1. job' = [job EXCEPT ![j] = "gone"] /\ UNCHANGED <<reqq, table>>
    BY <1>3, Zenon DEF FetchTimeout
  <2>2. job' \in [Jobs -> {"idle", "waiting", "gone"}]
    BY <1>0, <2>1, Zenon
  <2> QED
    BY <2>1, <2>2, Zenon DEF CallTypes, TableTypes, table
<1>4. CASE PollRsp
  <2>1. rspq # <<>> /\ handle_rsp(Head(rspq)) /\ reqq' = reqq
    BY <1>4, Zenon DEF PollRsp
  <2>2. Head(rspq) \in Rsps
    BY <1>0, <2>1, TailSeq, Zenon
  <2> QED
    BY <2>1, <2>2, RspEffect, Zenon DEF CallTypes
<1>5. CASE PollReq
  <2>1. reqq # <<>> /\ handle_req(Head(reqq).job, Head(reqq).ip) /\ reqq' = Tail(reqq)
    BY <1>5, Zenon DEF PollReq
  <2>2. Head(reqq) \in Req /\ reqq' \in Seq(Req)
    BY <1>0, <2>1, TailSeq, Zenon
  <2>3. Head(reqq).job \in Jobs /\ Head(reqq).ip \in Ips
    BY <2>2, Zenon DEF Req
  <2> QED
    BY <2>1, <2>2, <2>3, ReqEffect, Zenon DEF CallTypes
<1>6. ASSUME NEW how \in {"exited", "panicked"}, CacheEnds(how) PROVE CallTypes' /\ TableTypes'
  <2>1. /\ job' = [j \in Jobs |-> "idle"] /\ reqq' = <<>>
        /\ doing' = {} /\ waiters' = [k \in Ips |-> {}]
        /\ known' = {} /\ left' = [n \in Nets |-> 0] /\ ignored' = {}
    BY <1>6, Zenon DEF CacheEnds
  <2> QED
    BY <2>1 DEF CallTypes, TableTypes
<1>7. CASE Tick
  <2>1. /\ left' = [n \in Nets |-> Less(left[n])]
        /\ UNCHANGED <<job, reqq, doing, waiters, known, ignored>>
    BY <1>7, Zenon DEF Tick
  <2>2. left' \in [Nets -> Nat]
    BY <1>0, <2>1 DEF Less
  <2> QED
    BY <2>1, <2>2, Zenon DEF CallTypes, TableTypes
<1> QED
  BY <1>1, <1>2, <1>3, <1>4, <1>5, <1>6, <1>7, QuietSteps, Steps, ZenonT(60)

(* The channels between the tasks and the state of the query task keep     *)
(* their types, and timers stay with the queries.                          *)
LEMMA QueryNext ==
  /\ CallTypes /\ TableTypes /\ WireTypes /\ QueryTypes /\ timers = qdoing /\ [Next]_vars
  => WireTypes' /\ QueryTypes' /\ timers' = qdoing'
<1> SUFFICES ASSUME CallTypes, TableTypes, WireTypes, QueryTypes, timers = qdoing, [Next]_vars
             PROVE  WireTypes' /\ QueryTypes' /\ timers' = qdoing'
  BY Zenon
<1>0. /\ queryq \in Seq(Ips) /\ rspq \in Seq(Rsps) /\ reqq \in Seq(Req)
      /\ qpc \in {"running", "failed", "exited"} /\ qdoing \subseteq Ips
      /\ timerAt \in [Ips -> Nat] /\ writeq \in Seq(Ips) /\ asked \subseteq Ips
  BY Zenon DEF WireTypes, QueryTypes, CallTypes
<1>1. CASE UNCHANGED query /\ queryq' \in Seq(Ips) /\ rspq' \in Seq(Rsps)
  BY <1>0, <1>1, Zenon DEF WireTypes, QueryTypes, query
<1>2. CASE \/ \E j \in Jobs, k \in Ips : Fetch(j, k)
           \/ \E j \in Jobs : FetchTimeout(j)
           \/ DropHandles \/ PollEnter \/ PollRspEmpty \/ PollReqEmpty \/ NextRound
           \/ UNCHANGED vars
  <2>1. UNCHANGED <<query, queryq, rspq>>
    BY <1>2, Zenon DEF Fetch, FetchTimeout, DropHandles, PollEnter, PollRspEmpty,
       PollReqEmpty, NextRound, vars
  <2> QED
    BY <1>0, <1>1, <2>1, Zenon
<1>3. CASE PollRsp
  <2>1. rspq # <<>> /\ rspq' = Tail(rspq) /\ UNCHANGED <<query, queryq>>
    BY <1>3, Zenon DEF PollRsp
  <2> QED
    BY <1>0, <1>1, <2>1, TailSeq, Zenon
<1>4. CASE PollReq
  <2>1. /\ reqq # <<>> /\ handle_req(Head(reqq).job, Head(reqq).ip)
        /\ UNCHANGED <<query, rspq>>
    BY <1>4, Zenon DEF PollReq
  <2>2. Head(reqq) \in Req
    BY <1>0, <2>1, TailSeq, Zenon
  <2>3. Head(reqq).job \in Jobs /\ Head(reqq).ip \in Ips
    BY <2>2, Zenon DEF Req
  <2> QED
    BY <1>0, <1>1, <2>1, <2>3, ReqEffect, Zenon
<1>5. ASSUME NEW how \in {"exited", "panicked"}, CacheEnds(how)
      PROVE  WireTypes' /\ QueryTypes' /\ timers' = qdoing'
  <2>1. rspq' = <<>> /\ UNCHANGED <<query, queryq>>
    BY <1>5, Zenon DEF CacheEnds
  <2> QED
    BY <1>0, <1>1, <2>1, SeqElems, Zenon
<1>6. ASSUME NEW r \in Rsps, NEW expired \in BOOLEAN, send_rsp_data(r, expired),
             writeq' \in Seq(Ips), UNCHANGED <<queryq, qpc, timerAt, asked>>
      PROVE  WireTypes' /\ QueryTypes' /\ timers' = qdoing'
  <2>1. rspq' \in Seq(Rsps) /\ qdoing' = qdoing \ {r.ip} /\ timers' = qdoing'
    BY <1>6, SentEffect, Zenon
  <2> QED
    BY <1>0, <1>6, <2>1, Zenon DEF WireTypes, QueryTypes
<1>7. CASE QueryRecv
  <2>1. PICK r \in PeerSends : send_rsp_data(r, FALSE)
    BY <1>7, Zenon DEF QueryRecv
  <2>2. UNCHANGED <<writeq, queryq, qpc, timerAt, asked>> /\ r \in Rsps
    BY <1>7, RspTypes, Zenon DEF QueryRecv
  <2> QED
    BY <1>0, <1>6, <2>1, <2>2, Zenon
<1>8. CASE QuerySend
  <2>1. /\ writeq # <<>> /\ writeq' = Tail(writeq) /\ asked' = asked \cup {Head(writeq)}
        /\ UNCHANGED <<queryq, rspq, qpc, qdoing, timers, timerAt>>
    BY <1>8, Zenon DEF QuerySend
  <2>2. writeq' \in Seq(Ips) /\ Head(writeq) \in Ips
    BY <1>0, <2>1, TailSeq, Zenon
  <2> QED
    BY <1>0, <2>1, <2>2, Zenon DEF WireTypes, QueryTypes
<1>9. CASE QuerySendFails
  <2>1. /\ writeq # <<>> /\ writeq' = Tail(writeq) /\ send_rsp_data(Empty(Head(writeq)), FALSE)
        /\ UNCHANGED <<queryq, qpc, timerAt, asked>>
    BY <1>9, Zenon DEF QuerySendFails
  <2>2. writeq' \in Seq(Ips) /\ Head(writeq) \in Ips
    BY <1>0, <2>1, TailSeq, Zenon
  <2>3. Empty(Head(writeq)) \in Rsps
    BY <2>2, RspTypes, Zenon
  <2> QED
    BY <1>6, <2>1, <2>2, <2>3, Zenon
<1>10. CASE QueryReq
  <2> DEFINE k == Head(queryq)
  <2>1. /\ queryq # <<>> /\ queryq' = Tail(queryq) /\ UNCHANGED <<qpc, asked>>
        /\ \/ UNCHANGED <<qdoing, timers, timerAt, writeq, rspq>>
           \/ /\ qdoing' = qdoing \cup {k} /\ timers' = timers \cup {k}
              /\ timerAt' = [timerAt EXCEPT ![k] = QueryWait]
              /\ writeq' = Append(writeq, k) /\ UNCHANGED rspq
           \/ Sent(Empty(k)) /\ UNCHANGED <<qdoing, timers, timerAt, writeq>>
    BY <1>10, Zenon DEF QueryReq
  <2>2. queryq' \in Seq(Ips) /\ k \in Ips
    BY <1>0, <2>1, TailSeq, Zenon
  <2>3. CASE UNCHANGED <<qdoing, timers, timerAt, writeq, rspq>>
    BY <1>0, <2>1, <2>2, <2>3, Zenon DEF WireTypes, QueryTypes
  <2>4. CASE /\ qdoing' = qdoing \cup {k} /\ timers' = timers \cup {k}
             /\ timerAt' = [timerAt EXCEPT ![k] = QueryWait]
             /\ writeq' = Append(writeq, k) /\ UNCHANGED rspq
    <3>1. writeq' \in Seq(Ips)
      BY <1>0, <2>2, <2>4, AppendSeq, Zenon
    <3>2. timerAt' \in [Ips -> Nat]
      BY <1>0, <2>4, IpLocateAssumption, Zenon
    <3> QED
      BY <1>0, <2>1, <2>2, <2>4, <3>1, <3>2, Zenon DEF WireTypes, QueryTypes
  <2>5. CASE Sent(Empty(k)) /\ UNCHANGED <<qdoing, timers, timerAt, writeq>>
    <3>1. Empty(k) \in Rsps
      BY <2>2, RspTypes, Zenon
    <3>2. rspq' \in Seq(Rsps)
      <4>1. rspq' = Append(rspq, Empty(k)) \/ rspq' = rspq
        BY <2>5, Zenon DEF Sent
      <4>2. Append(rspq, Empty(k)) \in Seq(Rsps)
        BY <1>0, <3>1, AppendSeq, Zenon
      <4> QED
        BY <1>0, <4>1, <4>2, Zenon
    <3> QED
      BY <1>0, <2>1, <2>2, <2>5, <3>2, Zenon DEF WireTypes, QueryTypes
  <2> QED
    BY <2>1, <2>3, <2>4, <2>5, Zenon
<1>11. ASSUME NEW k \in Ips, QueryTimeout(k)
       PROVE  WireTypes' /\ QueryTypes' /\ timers' = qdoing'
  <2>1. send_rsp_data(Empty(k), TRUE) /\ UNCHANGED <<writeq, queryq, qpc, timerAt, asked>>
    BY <1>11, Zenon DEF QueryTimeout
  <2>2. Empty(k) \in Rsps
    BY RspTypes, Zenon
  <2> QED
    BY <1>0, <1>6, <2>1, <2>2, Zenon
<1>12. ASSUME NEW how \in {"failed", "exited"}, QueryEnds(how)
       PROVE  WireTypes' /\ QueryTypes' /\ timers' = qdoing'
  <2>1. /\ qpc' = how /\ qdoing' = {} /\ timers' = {} /\ writeq' = <<>>
        /\ queryq' = <<>> /\ asked' = {} /\ UNCHANGED <<rspq, timerAt>>
    BY <1>12, Zenon DEF QueryEnds
  <2> QED
    BY <1>0, <2>1, SeqElems, Zenon DEF WireTypes, QueryTypes
<1>13. CASE Tick
  <2>1. /\ timerAt' = [k \in Ips |-> Less(timerAt[k])]
        /\ UNCHANGED <<queryq, qpc, qdoing, timers, writeq, asked>>
    BY <1>13, Zenon DEF Tick
  <2>2. timerAt' \in [Ips -> Nat]
    BY <1>0, <2>1, SMTT(30) DEF Less
  <2> QED
    BY <1>0, <1>13, <2>1, <2>2, TickEffect, Zenon DEF WireTypes, QueryTypes
<1> QED
  BY <1>2, <1>3, <1>4, <1>5, <1>7, <1>8, <1>9, <1>10, <1>11, <1>12, <1>13, Steps, ZenonT(60)

(* An open address keeps its answer to come, unless a result for it was    *)
(* ignored.                                                                *)
LEMMA ToComeNext ==
  /\ CallTypes /\ TableTypes /\ WireTypes /\ QueryTypes /\ timers = qdoing /\ ToCome
  /\ [Next]_vars
  => ToCome'
<1> SUFFICES ASSUME CallTypes, TableTypes, WireTypes, QueryTypes, timers = qdoing, ToCome,
                    [Next]_vars, CacheAlive', QueryAlive', NEW k \in doing' \ ignored'
             PROVE  OnItsWay(k)'
  BY Zenon DEF ToCome
<1>0. /\ queryq \in Seq(Ips) /\ rspq \in Seq(Rsps) /\ reqq \in Seq(Req)
      /\ writeq \in Seq(Ips) /\ qdoing \subseteq Ips
  BY Zenon DEF WireTypes, CallTypes, QueryTypes
<1>a. ASSUME QueryAlive, CacheAlive, k \in doing \ ignored PROVE OnItsWay(k)
  BY <1>a, Zenon DEF ToCome
<1>1. CASE UNCHANGED <<doing, ignored, qpc, qdoing, queryq, rspq>> /\ CacheAlive
  BY <1>a, <1>1, Zenon DEF OnItsWay, QueryAlive
<1>2. CASE \/ \E j \in Jobs, l \in Ips : Fetch(j, l)
           \/ \E j \in Jobs : FetchTimeout(j)
           \/ DropHandles \/ QuerySend \/ UNCHANGED vars
  <2>1. UNCHANGED <<cpc, doing, ignored, qpc, qdoing, queryq, rspq>>
    BY <1>2, Zenon DEF Fetch, FetchTimeout, DropHandles, QuerySend, vars, runtime, table, query
  <2> QED
    BY <1>1, <2>1, Zenon DEF CacheAlive
<1>3. CASE PollEnter \/ PollRspEmpty \/ PollReqEmpty \/ NextRound
  <2>1. /\ UNCHANGED <<doing, ignored, qpc, qdoing, queryq, rspq>>
        /\ cpc \in {"idle", "rsp", "req"}
    BY <1>3, Zenon DEF PollEnter, PollRspEmpty, PollReqEmpty, NextRound, table, query
  <2> QED
    BY <1>1, <2>1, Zenon DEF CacheAlive
<1>4. CASE PollRsp
  <2>1. /\ rspq # <<>> /\ handle_rsp(Head(rspq)) /\ rspq' = Tail(rspq)
        /\ UNCHANGED <<cpc, qpc, qdoing, queryq>>
    BY <1>4, Zenon DEF PollRsp, runtime, query
  <2>2. Head(rspq) \in Rsps /\ Elems(rspq) = Elems(rspq') \cup {Head(rspq)}
    BY <1>0, <2>1, TailSeq, Zenon
  <2>3. k \in doing \ ignored /\ k # Head(rspq).ip
    BY <2>1, <2>2, RspEffect, Zenon
  <2>4. OnItsWay(k)
    BY <1>a, <2>1, <2>3, Zenon DEF CacheAlive, QueryAlive
  <2> QED
    BY <2>1, <2>2, <2>3, <2>4, Zenon DEF OnItsWay
<1>5. CASE PollReq
  <2>1. /\ reqq # <<>> /\ handle_req(Head(reqq).job, Head(reqq).ip)
        /\ UNCHANGED <<cpc, qpc, qdoing, rspq>>
    BY <1>5, Zenon DEF PollReq, query
  <2>2. Head(reqq) \in Req
    BY <1>0, <2>1, TailSeq, Zenon
  <2>3. Head(reqq).job \in Jobs /\ Head(reqq).ip \in Ips
    BY <2>2, Zenon DEF Req
  <2>4. /\ k \in doing \ ignored \/ k \in Elems(queryq')
        /\ Elems(queryq) \subseteq Elems(queryq')
    BY <2>1, <2>3, ReqEffect, Zenon
  <2>5. k \in doing \ ignored => OnItsWay(k)
    BY <1>a, <2>1, Zenon DEF CacheAlive, QueryAlive
  <2> QED
    BY <2>1, <2>4, <2>5, Zenon DEF OnItsWay
<1>6. ASSUME NEW how \in {"exited", "panicked"}, CacheEnds(how) PROVE OnItsWay(k)'
  BY <1>6, Zenon DEF CacheEnds, CacheAlive
<1>7. ASSUME NEW r \in Rsps, NEW expired \in BOOLEAN, send_rsp_data(r, expired),
             UNCHANGED <<cpc, qpc, doing, ignored, queryq>>
      PROVE  OnItsWay(k)'
  <2>1. CacheAlive /\ QueryAlive
    BY <1>7, Zenon DEF CacheAlive, QueryAlive
  <2>2. qdoing' = qdoing \ {r.ip} /\ Elems(rspq') = Elems(rspq) \cup {r}
    BY <1>7, <2>1, SentEffect, Zenon
  <2>3. OnItsWay(k)
    BY <1>7, <1>a, <2>1, Zenon
  <2> QED
    BY <1>7, <2>2, <2>3, Zenon DEF OnItsWay
<1>8. CASE QueryRecv
  <2>1. PICK r \in PeerSends : send_rsp_data(r, FALSE)
    BY <1>8, Zenon DEF QueryRecv
  <2>2. UNCHANGED <<cpc, qpc, doing, ignored, queryq>> /\ r \in Rsps
    BY <1>8, RspTypes, Zenon DEF QueryRecv, runtime, table
  <2> QED
    BY <1>7, <2>1, <2>2, Zenon
<1>9. CASE QuerySendFails
  <2>1. /\ writeq # <<>> /\ send_rsp_data(Empty(Head(writeq)), FALSE)
        /\ UNCHANGED <<cpc, qpc, doing, ignored, queryq>>
    BY <1>9, Zenon DEF QuerySendFails, runtime, table
  <2>2. Head(writeq) \in Ips
    BY <1>0, <2>1, TailSeq, Zenon
  <2>3. Empty(Head(writeq)) \in Rsps
    BY <2>2, RspTypes, Zenon
  <2> QED
    BY <1>7, <2>1, <2>3, Zenon
<1>10. CASE QueryReq
  <2> DEFINE e == Head(queryq)
  <2>1. /\ queryq # <<>> /\ queryq' = Tail(queryq) /\ UNCHANGED <<cpc, qpc, doing, ignored>>
        /\ \/ e \in qdoing /\ UNCHANGED <<qdoing, rspq>>
           \/ qdoing' = qdoing \cup {e} /\ UNCHANGED rspq
           \/ Sent(Empty(e)) /\ UNCHANGED qdoing
    BY <1>10, Zenon DEF QueryReq, runtime, table
  <2>2. e \in Ips /\ Elems(queryq) = Elems(queryq') \cup {e}
    BY <1>0, <2>1, TailSeq, Zenon
  <2>3. CacheAlive /\ QueryAlive
    BY <2>1, Zenon DEF CacheAlive, QueryAlive
  <2>4. OnItsWay(k)
    BY <1>a, <2>1, <2>3, Zenon
  <2>5. CASE qdoing' = qdoing \cup {e} /\ UNCHANGED rspq
    BY <2>1, <2>2, <2>4, <2>5, Zenon DEF OnItsWay
  <2>6. CASE e \in qdoing /\ UNCHANGED <<qdoing, rspq>>
    BY <2>1, <2>2, <2>4, <2>6, Zenon DEF OnItsWay
  <2>7. CASE Sent(Empty(e)) /\ UNCHANGED qdoing
    <3>1. Empty(e) \in Rsps /\ Empty(e).ip = e
      BY <2>2, RspTypes, Zenon
    <3>2. rspq' = Append(rspq, Empty(e))
      BY <2>3, <2>7, Zenon DEF Sent
    <3>3. Elems(rspq') = Elems(rspq) \cup {Empty(e)}
      BY <1>0, <3>1, <3>2, AppendSeq
    <3> QED
      BY <2>1, <2>2, <2>4, <2>7, <3>1, <3>3, Zenon DEF OnItsWay
  <2> QED
    BY <2>1, <2>5, <2>6, <2>7, Zenon
<1>11. ASSUME NEW l \in Ips, QueryTimeout(l) PROVE OnItsWay(k)'
  <2>1. send_rsp_data(Empty(l), TRUE) /\ UNCHANGED <<cpc, qpc, doing, ignored, queryq>>
    BY <1>11, Zenon DEF QueryTimeout, runtime, table
  <2>2. Empty(l) \in Rsps
    BY RspTypes, Zenon
  <2> QED
    BY <1>7, <2>1, <2>2, Zenon
<1>12. ASSUME NEW how \in {"failed", "exited"}, QueryEnds(how) PROVE OnItsWay(k)'
  BY <1>12, Zenon DEF QueryEnds, QueryAlive
<1>13. CASE Tick
  <2>1. UNCHANGED <<cpc, qpc, doing, ignored, queryq, qdoing>>
    BY <1>13, Zenon DEF Tick, runtime
  <2>2. OnItsWay(k)
    BY <1>a, <2>1, Zenon DEF CacheAlive, QueryAlive
  <2>3. \A r \in Elems(rspq) : \E s \in Elems(rspq') : s.ip = r.ip
    BY <1>13, TickEffect, Zenon
  <2> QED
    BY <2>1, <2>2, <2>3, Zenon DEF OnItsWay
<1> QED
  BY <1>2, <1>3, <1>4, <1>5, <1>6, <1>8, <1>9, <1>10, <1>11, <1>12, <1>13, Steps, ZenonT(60)

(* A caller that waits is in the request channel or at an open address.    *)
LEMMA CallersNext ==
  CallTypes /\ TableTypes /\ WireTypes /\ Callers /\ [Next]_vars => Callers'
<1> SUFFICES ASSUME CallTypes, TableTypes, WireTypes, Callers, [Next]_vars,
                    NEW j \in Jobs, job'[j] # "idle"
             PROVE  InReqs(j)' \/ InDoing(j)'
  BY Zenon DEF Callers
<1>0. /\ job \in [Jobs -> {"idle", "waiting", "gone"}] /\ reqq \in Seq(Req)
      /\ rspq \in Seq(Rsps)
      /\ job[j] # "idle" => InReqs(j) \/ InDoing(j)
  BY Zenon DEF CallTypes, WireTypes, Callers
<1>1. CASE UNCHANGED <<job, reqq, doing, waiters, known, left, ignored>>
  BY <1>0, <1>1, Zenon DEF InReqs, InDoing
<1>2. ASSUME NEW i \in Jobs, NEW k \in Ips, Fetch(i, k) PROVE InReqs(j)' \/ InDoing(j)'
  <2>1. /\ job' = [job EXCEPT ![i] = "waiting"] /\ UNCHANGED <<doing, waiters>>
        /\ reqq' = Append(reqq, [job |-> i, ip |-> k])
    BY <1>2, Zenon DEF Fetch, table
  <2>2. [job |-> i, ip |-> k] \in Req
    BY Zenon DEF Req
  <2>3. Elems(reqq') = Elems(reqq) \cup {[job |-> i, ip |-> k]}
    BY <1>0, <2>1, <2>2, AppendSeq
  <2>4. CASE j = i
    <3> DEFINE m == [job |-> i, ip |-> k]
    <3>1. m \in Elems(reqq') /\ m.job = j
      BY <2>3, <2>4, Zenon
    <3> QED
      BY <3>1, Zenon DEF InReqs
  <2>5. CASE j # i
    <3>1. job[j] # "idle"
      BY <1>0, <2>1, <2>5, Zenon
    <3> QED
      BY <1>0, <2>1, <2>3, <3>1, Zenon DEF InReqs, InDoing
  <2> QED
    BY <2>4, <2>5, Zenon
<1>3. ASSUME NEW i \in Jobs, FetchTimeout(i) PROVE InReqs(j)' \/ InDoing(j)'
  <2>1. /\ job[i] = "waiting" /\ job' = [job EXCEPT ![i] = "gone"]
        /\ UNCHANGED <<reqq, doing, waiters>>
    BY <1>3, Zenon DEF FetchTimeout, table
  <2>2. job[j] # "idle"
    BY <1>0, <2>1, Zenon
  <2> QED
    BY <1>0, <2>1, <2>2, Zenon DEF InReqs, InDoing
<1>4. CASE PollRsp
  <2>1. rspq # <<>> /\ handle_rsp(Head(rspq)) /\ reqq' = reqq
    BY <1>4, Zenon DEF PollRsp
  <2>2. Head(rspq) \in Rsps
    BY <1>0, <2>1, TailSeq, Zenon
  <2>3. /\ job[j] # "idle"
        /\ \A k \in doing : j \in waiters[k] => k \in doing' /\ j \in waiters'[k]
    BY <2>1, <2>2, RspEffect, Zenon
  <2> QED
    BY <1>0, <2>1, <2>3, Zenon DEF InReqs, InDoing
<1>5. CASE PollReq
  <2>1. reqq # <<>> /\ handle_req(Head(reqq).job, Head(reqq).ip) /\ reqq' = Tail(reqq)
    BY <1>5, Zenon DEF PollReq
  <2>2. Head(reqq) \in Req /\ Elems(reqq) = Elems(reqq') \cup {Head(reqq)}
    BY <1>0, <2>1, TailSeq, Zenon
  <2>3. Head(reqq).job \in Jobs /\ Head(reqq).ip \in Ips
    BY <2>2, Zenon DEF Req
  <2>4. /\ job[j] # "idle"
        /\ j = Head(reqq).job => InDoing(j)'
        /\ \A l \in doing : j \in waiters[l] => l \in doing' /\ j \in waiters'[l]
    BY <2>1, <2>3, ReqEffect, Zenon DEF InDoing
  <2> QED
    BY <1>0, <2>2, <2>4, Zenon DEF InReqs, InDoing
<1>6. ASSUME NEW how \in {"exited", "panicked"}, CacheEnds(how) PROVE InReqs(j)' \/ InDoing(j)'
  <2>1. job' = [i \in Jobs |-> "idle"]
    BY <1>6, Zenon DEF CacheEnds
  <2> QED
    BY <2>1, Zenon
<1>7. CASE Tick
  <2>1. UNCHANGED <<job, reqq, doing, waiters>>
    BY <1>7, Zenon DEF Tick
  <2> QED
    BY <1>0, <2>1, Zenon DEF InReqs, InDoing
<1> QED
  BY <1>1, <1>2, <1>3, <1>4, <1>5, <1>6, <1>7, QuietSteps, Steps, ZenonT(60)

-----------------------------------------------------------------------------
(* The theorems.                                                           *)

(* The invariant holds at the start.                                       *)
LEMMA IInvInit == Init => IInv
<1> SUFFICES ASSUME Init PROVE IInv
  BY Zenon
<1>1. RunTypes /\ CallTypes
  BY DEF Init, RunTypes, CallTypes
<1>2. TableTypes /\ WireTypes
  BY DEF Init, TableTypes, WireTypes
<1>3. QueryTypes /\ timers = qdoing
  BY DEF Init, QueryTypes
<1>4. ToCome /\ Callers
  BY Zenon DEF Init, ToCome, Callers
<1> QED
  BY <1>1, <1>2, <1>3, <1>4, Zenon DEF IInv, Types

(* The invariant holds always.                                             *)
LEMMA IInvAlways == Spec => []IInv
<1>1. IInv /\ [Next]_vars => IInv'
  BY RunNext, TableNext, QueryNext, ToComeNext, CallersNext, Zenon DEF IInv, Types
<1> QED
  BY <1>1, IInvInit, PTL DEF Spec

(* The state has its types, and the timeout queue of the query task holds  *)
(* exactly the addresses of doing_cache: `remove` never meets a timer that *)
(* has fired, whatever the peer answers, pushes or leaves unanswered       *)
(* (IpLocationQueryHandle::send_rsp_data, should_send_raw_query).          *)
THEOREM TimersAlwaysMatch == Spec => []TimersMatch
<1>1. IInv => TimersMatch
  BY Zenon DEF IInv, Types, RunTypes, CallTypes, TableTypes, WireTypes, QueryTypes,
     TimersMatch, TypeOK, Req
<1> QED
  BY <1>1, IInvAlways, PTL

(* Every address somebody waits for has a result to come, unless an empty  *)
(* one was ignored, and every caller that waits is known to the cache task *)
(* (handle_req and handle_rsp of the two tasks).                           *)
THEOREM AlwaysAnswerToCome == Spec => []AnswerToCome
<1>1. IInv => AnswerToCome
  <2> SUFFICES ASSUME IInv PROVE AnswerToCome
    BY Zenon
  <2>1. ToCome /\ Callers
    BY Zenon DEF IInv
  <2>2. ASSUME CacheAlive, QueryAlive, NEW k \in doing \ ignored
        PROVE  \/ k \in qdoing
               \/ \E i \in DOMAIN queryq : queryq[i] = k
               \/ \E i \in DOMAIN rspq : rspq[i].ip = k
    BY <2>1, <2>2, Zenon DEF ToCome, OnItsWay, Elems
  <2>3. ASSUME NEW j \in Jobs, job[j] # "idle"
        PROVE  \/ \E i \in DOMAIN reqq : reqq[i].job = j
               \/ \E k \in doing : j \in waiters[k]
    BY <2>1, <2>3, Zenon DEF Callers, InReqs, InDoing, Elems
  <2> QED
    BY <2>2, <2>3, Zenon DEF AnswerToCome
<1> QED
  BY <1>1, IInvAlways, PTL
=============================================================================
