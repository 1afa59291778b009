------------------------ MODULE EffectiveCacheProofs ------------------------
(***************************************************************************)
(* Safety of the two-task cache, for any number of keys, callers and       *)
(* datagrams and any lifetimes: type correctness, the inductive invariant  *)
(* with a lemma for each of its conjuncts, and the theorems.               *)
(***************************************************************************)
EXTENDS EffectiveCache, FiniteSetTheorems, TLAPS


(* What Append does to a sequence.                                         *)
LEMMA AppendSeq ==
  ASSUME NEW S, NEW s \in Seq(S), NEW e \in S
  PROVE  /\ Append(s, e) \in Seq(S) /\ Len(Append(s, e)) = Len(s) + 1
         /\ Append(s, e)[Len(s) + 1] = e
         /\ \A i \in 1 .. Len(s) : Append(s, e)[i] = s[i]
OBVIOUS

(* The rest of a sequence without its first element.                       *)
LEMMA TailSeq ==
  ASSUME NEW S, NEW s \in Seq(S), s # <<>>
  PROVE  /\ Len(s) \in Nat /\ Len(s) >= 1 /\ Head(s) = s[1] /\ Head(s) \in S
         /\ Tail(s) \in Seq(S) /\ Len(Tail(s)) = Len(s) - 1
         /\ \A i \in 1 .. Len(s) - 1 : Tail(s)[i] = s[i + 1]
OBVIOUS

-----------------------------------------------------------------------------
(* The inductive invariant.                                                *)

(* The query runtime returns only after the cache runtime, or when its     *)
(* socket fails.                                                           *)
ShutOK == (qpc = "exited" => ~CacheAlive) /\ OnlySocketPanics

(* Every result under way can be put into the cache.                       *)
RspOK == \A i \in 1 .. Len(rspq) : Present(rspq[i].rec)

TimerOK == timers = qdoing

VanishOK ==
  \A k \in Keys :
    /\ Present(cache[k]) <=> k \in vanishq
    /\ k \in vanishq => vanishAt[k] = cache[k].vanish

CountOK ==
  CacheAlive /\ QueryAlive =>
    \A k \in Keys :
      Queries(k) + Results(k) + (IF k \in qdoing THEN 1 ELSE 0)
        = IF k \in doing THEN 1 ELSE 0

CallersOK ==
  \A j \in Jobs :
    job[j] # "idle" => \/ \E i \in 1 .. Len(reqq) : reqq[i].job = j
                       \/ \E k \in doing : j \in waiters[k]

IInv == TypeOK /\ ShutOK /\ RspOK /\ TimerOK /\ VanishOK /\ CountOK /\ CallersOK

-----------------------------------------------------------------------------
Rsp == [key : Keys, rec : Data]
Req == [job : Jobs, key : Keys, only : BOOLEAN]

(* The results the query runtime makes up are results, and ageing keeps    *)
(* them so.                                                                *)
LEMMA DataFacts ==
  /\ NoData \in Data /\ ~Present(NoData)
  /\ Empty \in Data /\ Present(Empty)
  /\ \A t \in PeerTtls : New(TtlOf(t)) \in Data /\ Present(New(TtlOf(t)))
  /\ \A r \in Data : Aged(r) \in Data /\ (Present(Aged(r)) <=> Present(r))
<1>1. NoData \in Data /\ ~Present(NoData)
  BY Zenon DEF NoData, Data, Present
<1>2. Empty \in Data /\ Present(Empty)
  BY EffectiveCacheAssumption DEF Empty, Data, Present
<1>3. ASSUME NEW t \in PeerTtls PROVE New(TtlOf(t)) \in Data /\ Present(New(TtlOf(t)))
  <2>1. TtlOf(t) \in Nat
    BY EffectiveCacheAssumption, Zenon DEF TtlOf
  <2> QED
    BY <2>1, EffectiveCacheAssumption DEF New, Data, Present
<1>4. ASSUME NEW r \in Data PROVE Aged(r) \in Data /\ (Present(Aged(r)) <=> Present(r))
  BY DEF Aged, Less, Data, Present
<1> QED
  BY <1>1, <1>2, <1>3, <1>4, Zenon

(* The elements of the two record channels.                                *)
LEMMA SeqTypes ==
  ASSUME TypeOK
  PROVE  /\ rspq \in Seq(Rsp) /\ Len(rspq) \in Nat
         /\ \A i \in 1 .. Len(rspq) : rspq[i].key \in Keys /\ rspq[i].rec \in Data
         /\ reqq \in Seq(Req) /\ Len(reqq) \in Nat
         /\ \A i \in 1 .. Len(reqq) : reqq[i].job \in Jobs /\ reqq[i].key \in Keys
         /\ queryq \in Seq(Keys) /\ Len(queryq) \in Nat
<1>1. rspq \in Seq(Rsp) /\ reqq \in Seq(Req) /\ queryq \in Seq(Keys)
  BY Zenon DEF TypeOK, Rsp, Req
<1>2. /\ \A i \in 1 .. Len(rspq) : rspq[i] \in Rsp
      /\ \A i \in 1 .. Len(reqq) : reqq[i] \in Req
  BY <1>1
<1>3. \A i \in 1 .. Len(rspq) : rspq[i].key \in Keys /\ rspq[i].rec \in Data
  BY <1>2, Zenon DEF Rsp
<1>4. \A i \in 1 .. Len(reqq) : reqq[i].job \in Jobs /\ reqq[i].key \in Keys
  BY <1>2, Zenon DEF Req
<1> QED
  BY <1>1, <1>3, <1>4

(* Tick leaves the results in their places and ages them.                  *)
LEMMA TickEffect ==
  ASSUME TypeOK, Tick
  PROVE  /\ rspq' \in Seq(Rsp) /\ Len(rspq') = Len(rspq)
         /\ \A i \in 1 .. Len(rspq) : /\ rspq'[i].key = rspq[i].key
                                      /\ rspq'[i].rec = Aged(rspq[i].rec)
<1>1. rspq \in Seq(Rsp) /\ Len(rspq) \in Nat
  BY SeqTypes, Zenon
<1>2. \A i \in 1 .. Len(rspq) : rspq[i].key \in Keys /\ rspq[i].rec \in Data
  BY SeqTypes, Zenon
<1>3. rspq' = [i \in 1 .. Len(rspq) |->
                 [key |-> rspq[i].key, rec |-> Aged(rspq[i].rec)]]
  BY Zenon DEF Tick
<1>4. rspq' \in [1 .. Len(rspq) -> Rsp]
  BY <1>2, <1>3, DataFacts, Zenon DEF Rsp
<1>5. rspq' \in Seq(Rsp) /\ Len(rspq') = Len(rspq)
  BY <1>1, <1>4
<1>6. ASSUME NEW i \in 1 .. Len(rspq)
      PROVE  rspq'[i].key = rspq[i].key /\ rspq'[i].rec = Aged(rspq[i].rec)
  BY <1>3, Zenon
<1> QED
  BY <1>5, <1>6, Zenon

(* What the query runtime does to the two sides of a result: nothing, an   *)
(* answer to the query of k, or the end of a timer nobody needs.           *)
LEMMA RspEffect ==
  ASSUME TypeOK, TimerOK, NEW k \in Keys, NEW r \in Data, Present(r),
         NEW expired \in BOOLEAN, expired => k \in timers,
         send_rsp_data(k, r, expired)
  PROVE  /\ qdoing' = qdoing \ {k} /\ timers' = timers \ {k}
         /\ IF k \in qdoing /\ CacheAlive
            THEN rspq' = Append(rspq, [key |-> k, rec |-> r]) ELSE rspq' = rspq
BY Zenon DEF send_rsp_data, Sent, TimerOK, TypeOK

(* An answer, by a datagram, a failed send or a timeout.                   *)
Answer(k) == \E r \in Data : 
  /\ Present(r)
  /\ qdoing' = qdoing \ {k} /\ timers' = timers \ {k}
  /\ IF k \in qdoing /\ CacheAlive
     THEN rspq' = Append(rspq, [key |-> k, rec |-> r]) ELSE rspq' = rspq
  /\ queryq' = queryq

(* Every step of the system is one of these, as far as the queries and     *)
(* their results go.                                                       *)
LEMMA QuerySteps ==
  ASSUME TypeOK, TimerOK, [Next]_vars
  PROVE  \/ /\ UNCHANGED <<doing, queryq, rspq, qpc, qdoing, timers>>
            /\ cpc' = cpc \/ (CacheAlive /\ CacheAlive')
         \/ PollRsp \/ PollReq
         \/ \E how \in {"exited", "panicked"} :
              CacheAlive /\ CacheEnds(how) /\ (how = "panicked" => ~QueryAlive)
         \/ /\ \E k \in Keys : Answer(k)
            /\ UNCHANGED <<runtime, doing, qpc>>
         \/ QueryReq
         \/ \E how \in {"exited", "failed"} :
              QueryAlive /\ QueryEnds(how) /\ (how = "exited" => ~CacheAlive)
         \/ Tick
<1>1. CASE poll_loop
  <2>1. CASE PollEnter \/ PollRspEmpty \/ PollVanishNone \/ PollReqEmpty \/ NextRound
    BY <2>1, Zenon
    DEF PollEnter, PollRspEmpty, PollVanishNone, PollReqEmpty, NextRound, CacheAlive,
        table, query
  <2>2. CASE handle_vanish
    BY <2>2, Zenon DEF handle_vanish, runtime, query
  <2> QED
    BY <1>1, <2>1, <2>2, Zenon
    DEF poll_loop, PollRspClosed, PollReqPanics, PollReqClosed, CacheAlive
<1>2. ASSUME NEW k \in Keys, QueryRecv(k)
      PROVE  \/ UNCHANGED <<doing, queryq, rspq, qpc, qdoing, timers, runtime>>
             \/ Answer(k) /\ UNCHANGED <<runtime, doing, qpc>>
  <2>1. CASE UNCHANGED <<qdoing, timers, rspq>>
    BY <1>2, <2>1, Zenon DEF QueryRecv, table
  <2>2. ASSUME NEW t \in PeerTtls, send_rsp_data(k, New(TtlOf(t)), FALSE)
        PROVE  Answer(k)
    BY <1>2, <2>2, RspEffect, DataFacts, Zenon DEF Answer, QueryRecv
  <2> QED
    BY <1>2, <2>1, <2>2, Zenon DEF QueryRecv, table
<1>3. ASSUME NEW k \in Keys, QueryTimeout(k)
      PROVE  Answer(k) /\ UNCHANGED <<runtime, doing, qpc>>
  BY <1>3, RspEffect, DataFacts, Zenon DEF Answer, QueryTimeout, table
<1>4. CASE QuerySendFails
  <2>1. Head(writeq) \in Keys
    BY <1>4, TailSeq, Zenon DEF QuerySendFails, TypeOK
  <2>2. Answer(Head(writeq)) /\ UNCHANGED <<runtime, doing, qpc>>
    BY <1>4, <2>1, RspEffect, DataFacts, Zenon DEF Answer, QuerySendFails, table
  <2> QED
    BY <2>1, <2>2, Zenon
<1>5. CASE QuerySend
  BY <1>5, Zenon DEF QuerySend, table, runtime
<1>6. CASE QueryReqClosed \/ QueryRecvFails
  BY <1>6, Zenon DEF QueryReqClosed, QueryRecvFails
<1>7. ASSUME NEW j \in Jobs, NEW k \in Keys, NEW only \in BOOLEAN,
             Fetch(j, k, only) \/ FetchTimeout(j) \/ DropHandles \/ PeerAnswers(k) \/ Lost(k)
      PROVE  UNCHANGED <<doing, queryq, rspq, qpc, qdoing, timers, runtime>>
  BY <1>7, Zenon DEF Fetch, FetchTimeout, DropHandles, PeerAnswers, Lost, table, query
<1>8. CASE UNCHANGED vars
  BY <1>8, Zenon DEF vars, table, query, runtime
<1>9. runtime' = runtime => cpc' = cpc
  BY Zenon DEF runtime
<1> QED
  BY <1>1, <1>2, <1>3, <1>4, <1>5, <1>6, <1>7, <1>8, <1>9, Zenon
  DEF Next, query_loop, DropHandles, FetchTimeout, PeerAnswers, Lost, table, query

(* Every step keeps the order in which the two runtimes shut down.         *)
LEMMA ShutNext ==
  ASSUME TypeOK, TimerOK, ShutOK, [Next]_vars
  PROVE  ShutOK'
<1> USE DEF ShutOK, OnlySocketPanics, CacheAlive, QueryAlive, runtime, query
<1>0. qpc \in {"running", "failed", "exited"}
  BY Zenon DEF TypeOK
<1>1. CASE UNCHANGED qpc /\ (cpc' = cpc \/ (CacheAlive /\ CacheAlive'))
  BY <1>1, Zenon
<1>2. CASE PollRsp \/ PollReq \/ QueryReq \/ Tick
  BY <1>2, Zenon DEF PollRsp, PollReq, QueryReq, Tick
<1>3. ASSUME NEW how \in {"exited", "panicked"},
             CacheAlive, CacheEnds(how), how = "panicked" => ~QueryAlive
      PROVE  ShutOK'
  BY <1>0, <1>3, Zenon DEF CacheEnds
<1>4. ASSUME NEW how \in {"exited", "failed"},
             QueryAlive, QueryEnds(how), how = "exited" => ~CacheAlive
      PROVE  ShutOK'
  BY <1>0, <1>4, Zenon DEF QueryEnds
<1> QED
  BY <1>1, <1>2, <1>3, <1>4, QuerySteps, Zenon

(* Every step keeps one timer for each query the query runtime has.        *)
LEMMA TimerNext ==
  ASSUME TypeOK, TimerOK, [Next]_vars
  PROVE  TimerOK'
<1> USE DEF TimerOK, query
<1>1. CASE PollRsp \/ PollReq \/ Tick \/ UNCHANGED <<qdoing, timers>>
  BY <1>1, ZenonT(60) DEF PollRsp, PollReq, Tick
<1>2. ASSUME NEW how, CacheEnds(how) PROVE TimerOK'
  BY <1>2, Zenon DEF CacheEnds
<1>3. ASSUME NEW how, QueryEnds(how) PROVE TimerOK'
  BY <1>3, Zenon DEF QueryEnds
<1>4. ASSUME NEW k \in Keys, Answer(k) PROVE TimerOK'
  BY <1>4, Zenon DEF Answer
<1>5. CASE QueryReq
  BY <1>5, Zenon DEF QueryReq
<1> QED
  BY <1>1, <1>2, <1>3, <1>4, <1>5, QuerySteps, Zenon

(* The result channel gets a present result at its end, loses its head, or *)
(* is left alone.                                                          *)
LEMMA RspNext ==
  ASSUME TypeOK, TimerOK, RspOK, [Next]_vars
  PROVE  RspOK'
<1>0. rspq \in Seq(Rsp) /\ Len(rspq) \in Nat
  BY SeqTypes, Zenon
<1>1. CASE UNCHANGED rspq
  BY <1>1, Zenon DEF RspOK
<1>2. ASSUME NEW k \in Keys, NEW r \in Data, Present(r),
             rspq' = Append(rspq, [key |-> k, rec |-> r])
      PROVE  RspOK'
  <2>1. [key |-> k, rec |-> r] \in Rsp
    BY Zenon DEF Rsp
  <2>2. /\ Len(rspq') = Len(rspq) + 1 /\ rspq'[Len(rspq) + 1].rec = r
        /\ \A i \in 1 .. Len(rspq) : rspq'[i] = rspq[i]
    BY <1>0, <1>2, <2>1, AppendSeq, SMTT(30)
  <2> QED
    BY <1>0, <1>2, <2>2 DEF RspOK
<1>3. CASE PollRsp
  <2>1. /\ Len(rspq') = Len(rspq) - 1
        /\ \A i \in 1 .. Len(rspq) - 1 : rspq'[i] = rspq[i + 1]
    BY <1>0, <1>3, TailSeq, Zenon DEF PollRsp
  <2> QED
    BY <1>0, <2>1, SMTT(30) DEF RspOK
<1>4. CASE Tick
  <2>1. /\ Len(rspq') = Len(rspq)
        /\ \A i \in 1 .. Len(rspq) : rspq'[i].rec = Aged(rspq[i].rec)
    BY <1>4, TickEffect, Zenon
  <2>2. \A i \in 1 .. Len(rspq) : rspq[i].rec \in Data
    BY SeqTypes, Zenon
  <2> QED
    BY <2>1, <2>2, DataFacts DEF RspOK
<1>5. ASSUME NEW how, CacheEnds(how) PROVE RspOK'
  BY <1>5 DEF CacheEnds, RspOK
<1>6. ASSUME NEW how, QueryEnds(how) PROVE RspOK'
  BY <1>1, <1>6, Zenon DEF QueryEnds
<1>7. ASSUME NEW k \in Keys, Answer(k) PROVE RspOK'
  BY <1>1, <1>2, <1>7, Zenon DEF Answer
<1>8. CASE QueryReq
  <2>1. Head(queryq) \in Keys
    BY <1>8, TailSeq, Zenon DEF QueryReq, TypeOK
  <2> QED
    BY <1>1, <1>2, <1>8, <2>1, DataFacts, Zenon DEF QueryReq, Sent
<1> QED
  BY <1>1, <1>3, <1>4, <1>5, <1>6, <1>7, <1>8, QuerySteps, Zenon DEF PollReq
-----------------------------------------------------------------------------
(* Every step keeps the vanish queue in step with the cache.               *)
LEMMA VanishNext ==
  ASSUME TypeOK, TimerOK, RspOK, VanishOK, [Next]_vars
  PROVE  VanishOK'
<1> USE DEF table
<1>0. /\ cache \in [Keys -> Data] /\ vanishAt \in [Keys -> Nat]
  BY Zenon DEF TypeOK
<1>1. CASE UNCHANGED <<cache, vanishq, vanishAt>>
  BY <1>1, Zenon DEF VanishOK
<1>2. CASE PollRsp
  <2> DEFINE e == Head(rspq).key
             r == Head(rspq).rec
  <2>1. Head(rspq) = rspq[1] /\ 1 \in 1 .. Len(rspq)
    BY <1>2, SeqTypes, TailSeq DEF PollRsp
  <2>2. e \in Keys /\ r \in Data /\ Present(r)
    BY <2>1, SeqTypes, Zenon DEF RspOK
  <2>3. \/ UNCHANGED <<cache, vanishq, vanishAt>>
        \/ /\ cache' = [cache EXCEPT ![e] = r] /\ vanishq' = vanishq \cup {e}
           /\ vanishAt' = [vanishAt EXCEPT ![e] = r.vanish]
    BY <1>2, Zenon DEF PollRsp, handle_rsp, HandleRspTaken
  <2>4. CASE /\ cache' = [cache EXCEPT ![e] = r] /\ vanishq' = vanishq \cup {e}
             /\ vanishAt' = [vanishAt EXCEPT ![e] = r.vanish]
    <3>1. cache'[e] = r /\ vanishAt'[e] = r.vanish /\ e \in vanishq'
      BY <1>0, <2>2, <2>4, Zenon
    <3>2. ASSUME NEW k \in Keys, k # e
          PROVE  cache'[k] = cache[k] /\ vanishAt'[k] = vanishAt[k]
                 /\ (k \in vanishq' <=> k \in vanishq)
      BY <1>0, <2>4, <3>2, Zenon
    <3> QED
      BY <2>2, <3>1, <3>2, Zenon DEF VanishOK
  <2> QED
    BY <1>1, <2>3, <2>4, Zenon
<1>3. CASE handle_vanish
  <2>1. PICK e \in Due : vanishq' = vanishq \ {e} /\ cache' = [cache EXCEPT ![e] = NoData]
    BY <1>3, Zenon DEF handle_vanish
  <2>2. e \in Keys /\ vanishAt' = vanishAt
    BY <1>3, Zenon DEF handle_vanish, Due, TypeOK
  <2>3. cache'[e] = NoData
    BY <1>0, <2>1, <2>2, Zenon
  <2>4. ASSUME NEW k \in Keys, k # e
        PROVE  cache'[k] = cache[k] /\ (k \in vanishq' <=> k \in vanishq)
    BY <1>0, <2>1, <2>4, Zenon
  <2> QED
    BY <2>1, <2>2, <2>3, <2>4, DataFacts, SMTT(30) DEF VanishOK
<1>4. CASE Tick
  <2>1. ASSUME NEW k \in Keys
        PROVE  /\ cache'[k] = Aged(cache[k]) /\ vanishAt'[k] = Less(vanishAt[k])
               /\ cache[k] \in Data /\ Aged(cache[k]).vanish = Less(cache[k].vanish)
    BY <1>0, <1>4, Zenon DEF Tick, Aged
  <2>2. vanishq' = vanishq
    BY <1>4, Zenon DEF Tick
  <2> QED
    BY <2>1, <2>2, DataFacts, SMTT(30) DEF VanishOK
<1>5. ASSUME NEW how, CacheEnds(how) PROVE VanishOK'
  <2>1. /\ \A k \in Keys : cache'[k] = NoData
        /\ vanishq' = {}
    BY <1>5, Zenon DEF CacheEnds
  <2> QED
    BY <2>1, DataFacts, ZenonT(60) DEF VanishOK
<1>6. CASE PollReq
  BY <1>1, <1>6, Zenon DEF PollReq, handle_req, ReqOnly, ReqCached, ReqMissed
<1>7. CASE query_loop \/ QueryRecvFails
  BY <1>1, <1>7, Zenon
  DEF query_loop, QueryRecv, QueryTimeout, QuerySend, QuerySendFails, QueryReq,
      QueryReqClosed, QueryRecvFails, QueryEnds
<1>8. CASE PollEnter \/ PollRspEmpty \/ PollVanishNone \/ PollReqEmpty \/ NextRound
  BY <1>1, <1>8, Zenon DEF PollEnter, PollRspEmpty, PollVanishNone, PollReqEmpty, NextRound
<1>9. CASE UNCHANGED vars
  BY <1>1, <1>9, Zenon DEF vars
<1>10. ASSUME NEW j, NEW k, NEW only,
              Fetch(j, k, only) \/ FetchTimeout(j) \/ DropHandles \/ PeerAnswers(k) \/ Lost(k)
       PROVE  VanishOK'
  BY <1>1, <1>10, Zenon DEF Fetch, FetchTimeout, DropHandles, PeerAnswers, Lost
<1> QED
  BY <1>2, <1>3, <1>4, <1>5, <1>6, <1>7, <1>8, <1>9, <1>10, Zenon
  DEF Next, poll_loop, PollRspClosed, PollReqPanics, PollReqClosed

(* Every step keeps each caller's request in the channel or its notifier   *)
(* with a key that is being queried, until it has been answered.           *)
LEMMA CallersNext ==
  ASSUME TypeOK, CallersOK, [Next]_vars
  PROVE  CallersOK'
<1> USE DEF table
<1>0. /\ job \in [Jobs -> {"idle", "waiting", "gone"}] /\ waiters \in [Keys -> SUBSET Jobs]
      /\ doing \subseteq Keys
  BY Zenon DEF TypeOK
<1>1. CASE UNCHANGED <<job, reqq, doing, waiters>>
  BY <1>1, Zenon DEF CallersOK
<1>2. ASSUME NEW a \in Jobs, NEW k \in Keys, NEW only \in BOOLEAN, Fetch(a, k, only)
      PROVE  CallersOK'
  <2>1. [job |-> a, key |-> k, only |-> only] \in Req
    BY Zenon DEF Req
  <2>2. /\ Len(reqq') = Len(reqq) + 1 /\ reqq'[Len(reqq) + 1].job = a
        /\ \A i \in 1 .. Len(reqq) : reqq'[i] = reqq[i]
        /\ Len(reqq) \in Nat
    BY <1>2, <2>1, SeqTypes, AppendSeq DEF Fetch
  <2>3. /\ \A j \in Jobs : j # a => job'[j] = job[j]
        /\ UNCHANGED <<doing, waiters>>
    BY <1>0, <1>2, Zenon DEF Fetch
  <2>4. ASSUME NEW i \in 1 .. Len(reqq) PROVE i \in 1 .. Len(reqq') /\ reqq'[i] = reqq[i]
    BY <2>2
  <2>5. Len(reqq) + 1 \in 1 .. Len(reqq')
    BY <2>2
  <2> QED
    BY <2>2, <2>3, <2>4, <2>5, Zenon DEF CallersOK
<1>3. ASSUME NEW a \in Jobs, FetchTimeout(a) PROVE CallersOK'
  <2>1. /\ \A j \in Jobs : job'[j] # "idle" => job[j] # "idle"
        /\ UNCHANGED <<reqq, doing, waiters>>
    BY <1>0, <1>3, Zenon DEF FetchTimeout
  <2> QED
    BY <2>1, Zenon DEF CallersOK
<1>4. CASE PollRsp
  <2> DEFINE e == Head(rspq).key
  <2>1. Head(rspq) = rspq[1] /\ 1 \in 1 .. Len(rspq)
    BY <1>4, SeqTypes, TailSeq DEF PollRsp
  <2>2. e \in Keys
    BY <2>1, SeqTypes, Zenon
  <2>3. CASE e \notin doing
    BY <1>1, <1>4, <2>3, Zenon DEF PollRsp, handle_rsp
  <2>4. CASE e \in doing
    <3>1. /\ doing' = doing \ {e} /\ reqq' = reqq
          /\ \A j \in Jobs : job'[j] = IF j \in waiters[e] THEN "idle" ELSE job[j]
          /\ waiters' = [waiters EXCEPT ![e] = {}]
      BY <1>4, <2>4, ZenonT(60) DEF PollRsp, handle_rsp, HandleRspTaken, Notify
    <3>2. \A k \in doing' : waiters'[k] = waiters[k]
      BY <1>0, <3>1, Zenon
    <3> QED
      BY <3>1, <3>2, ZenonT(60) DEF CallersOK
  <2> QED
    BY <2>3, <2>4, Zenon
<1>5. CASE PollReq
  <2> DEFINE a == Head(reqq).job
             e == Head(reqq).key
  <2>1. /\ Head(reqq) = reqq[1] /\ Len(reqq) \in Nat /\ Len(reqq) >= 1
        /\ Len(reqq') = Len(reqq) - 1
        /\ \A i \in 1 .. Len(reqq) - 1 : reqq'[i] = reqq[i + 1]
    BY <1>5, SeqTypes, TailSeq, Zenon DEF PollReq
  <2>2. 1 \in 1 .. Len(reqq)
    BY <2>1
  <2>3. a \in Jobs /\ e \in Keys
    BY <2>1, <2>2, SeqTypes, Zenon
  <2>4. /\ \A j \in Jobs : j # a => job'[j] = job[j]
        /\ job'[a] = "idle" \/ (e \in doing' /\ a \in waiters'[e])
        /\ doing \subseteq doing'
        /\ \A k \in doing : waiters[k] \subseteq waiters'[k]
    <3>0. handle_req(a, e, Head(reqq).only)
      BY <1>5, Zenon DEF PollReq
    <3>1. CASE ReqOnly(a, e) \/ ReqCached(a, e)
      BY <1>0, <2>3, <3>1, ZenonT(60) DEF ReqOnly, ReqCached, Notify
    <3>2. CASE ReqMissed(a, e)
      BY <1>0, <2>3, <3>2, Zenon DEF ReqMissed
    <3> QED
      BY <3>0, <3>1, <3>2, ZenonT(60) DEF handle_req
  <2>5. ASSUME NEW j \in Jobs, j # a, NEW i \in 1 .. Len(reqq), reqq[i].job = j
        PROVE  \E n \in 1 .. Len(reqq') : reqq'[n].job = j
    <3>1. i - 1 \in 1 .. Len(reqq) - 1 /\ (i - 1) + 1 = i
      BY <2>1, <2>5
    <3>2. reqq'[i - 1] = reqq[i]
      BY <2>1, <3>1, Zenon
    <3> QED
      BY <2>1, <2>5, <3>1, <3>2, Zenon
  <2>6. ASSUME NEW j \in Jobs, j # a, job'[j] # "idle"
        PROVE  \/ \E i \in 1 .. Len(reqq') : reqq'[i].job = j
               \/ \E k \in doing' : j \in waiters'[k]
    <3>1. \/ \E i \in 1 .. Len(reqq) : reqq[i].job = j
          \/ \E k \in doing : j \in waiters[k]
      BY <2>4, <2>6, Zenon DEF CallersOK
    <3> QED
      BY <2>4, <2>5, <2>6, <3>1, Zenon
  <2> QED
    BY <2>4, <2>6, ZenonT(60) DEF CallersOK
<1>6. ASSUME NEW how, CacheEnds(how) PROVE CallersOK'
  BY <1>6, Zenon DEF CacheEnds, CallersOK
<1>7. CASE query_loop \/ QueryRecvFails
  BY <1>1, <1>7, Zenon
  DEF query_loop, QueryRecv, QueryTimeout, QuerySend, QuerySendFails, QueryReq,
      QueryReqClosed, QueryRecvFails, QueryEnds
<1>8. CASE \/ PollEnter \/ PollRspEmpty \/ PollVanishNone \/ PollReqEmpty \/ NextRound
           \/ handle_vanish \/ Tick \/ DropHandles \/ UNCHANGED vars
  BY <1>1, <1>8, ZenonT(60)
  DEF PollEnter, PollRspEmpty, PollVanishNone, PollReqEmpty, NextRound, handle_vanish,
      Tick, DropHandles, vars
<1>9. ASSUME NEW k, PeerAnswers(k) \/ Lost(k) PROVE CallersOK'
  BY <1>1, <1>9, Zenon DEF PeerAnswers, Lost
<1> QED
  BY <1>2, <1>3, <1>4, <1>5, <1>6, <1>7, <1>8, <1>9, Zenon
  DEF Next, poll_loop, PollRspClosed, PollReqPanics, PollReqClosed

-----------------------------------------------------------------------------
(* TypeOK, taken apart.                                                    *)
RunTypes ==
  /\ cpc \in {"idle", "rsp", "vanish", "req", "exited", "panicked"}
  /\ batch \in Nat /\ (batch = 0 \/ batch < Batch)
  /\ handles \in BOOLEAN

CallTypes ==
  /\ job \in [Jobs -> {"idle", "waiting", "gone"}]
  /\ reqq \in Seq(Req)

TableTypes ==
  /\ doing \subseteq Keys /\ waiters \in [Keys -> SUBSET Jobs]
  /\ cache \in [Keys -> Data]
  /\ vanishq \subseteq Keys /\ vanishAt \in [Keys -> Nat]

QueryTypes ==
  /\ queryq \in Seq(Keys) /\ rspq \in Seq(Rsp)
  /\ qpc \in {"running", "failed", "exited"}
  /\ qdoing \subseteq Keys /\ timers \subseteq Keys

WireTypes ==
  /\ timerAt \in [Keys -> Nat] /\ writeq \in Seq(Keys)
  /\ asked \subseteq Keys /\ air \subseteq Keys

(* TypeOK by parts: runtimes, calls, tables, query task and wire.          *)
LEMMA TypeParts ==
  TypeOK <=> RunTypes /\ CallTypes /\ TableTypes /\ QueryTypes /\ WireTypes
BY Zenon DEF TypeOK, RunTypes, CallTypes, TableTypes, QueryTypes, WireTypes, Req, Rsp

(* What a request at the head of its channel holds.                        *)
LEMMA HeadReq ==
  ASSUME TypeOK, reqq # <<>>
  PROVE  Head(reqq).job \in Jobs /\ Head(reqq).key \in Keys /\ Tail(reqq) \in Seq(Req)
<1>1. Head(reqq) = reqq[1] /\ 1 \in 1 .. Len(reqq) /\ Tail(reqq) \in Seq(Req)
  BY SeqTypes, TailSeq
<1> QED
  BY <1>1, SeqTypes, Zenon

(* What a result at the head of its channel holds.                         *)
LEMMA HeadRsp ==
  ASSUME TypeOK, rspq # <<>>
  PROVE  Head(rspq).key \in Keys /\ Head(rspq).rec \in Data /\ Tail(rspq) \in Seq(Rsp)
<1>1. Head(rspq) = rspq[1] /\ 1 \in 1 .. Len(rspq) /\ Tail(rspq) \in Seq(Rsp)
  BY SeqTypes, TailSeq
<1> QED
  BY <1>1, SeqTypes, Zenon

(* The place of the cache runtime, and its callers.                        *)
LEMMA RunTypesNext ==
  ASSUME TypeOK, [Next]_vars
  PROVE  RunTypes'
<1> USE DEF runtime
<1>0. RunTypes /\ Batch \in Nat
  BY EffectiveCacheAssumption, TypeParts, Zenon
<1>1. CASE UNCHANGED <<cpc, batch, handles>>
  BY <1>0, <1>1, Zenon DEF RunTypes
<1>2. CASE PollEnter \/ PollRspEmpty \/ PollVanishNone \/ PollReqEmpty \/ NextRound
  BY <1>0, <1>2
  DEF PollEnter, PollRspEmpty, PollVanishNone, PollReqEmpty, NextRound, RunTypes
<1>3. CASE PollReq
  <2>1. batch < Batch - 1 /\ batch' = batch + 1 /\ UNCHANGED <<cpc, handles>>
    BY <1>3, Zenon DEF PollReq
  <2> QED
    BY <1>0, <2>1 DEF RunTypes
<1>4. ASSUME NEW how \in {"exited", "panicked"}, CacheEnds(how) PROVE RunTypes'
  BY <1>0, <1>4, Zenon DEF CacheEnds, RunTypes
<1>5. CASE DropHandles
  BY <1>0, <1>5, Zenon DEF DropHandles, RunTypes
<1>6. CASE PollRsp \/ handle_vanish \/ Tick \/ UNCHANGED vars
  BY <1>1, <1>6, ZenonT(60) DEF PollRsp, handle_vanish, Tick, vars
<1>7. CASE query_loop \/ QueryRecvFails
  BY <1>1, <1>7, Zenon
  DEF query_loop, QueryRecv, QueryTimeout, QuerySend, QuerySendFails, QueryReq,
      QueryReqClosed, QueryRecvFails, QueryEnds
<1>8. ASSUME NEW j, NEW k, NEW only,
             Fetch(j, k, only) \/ FetchTimeout(j) \/ PeerAnswers(k) \/ Lost(k)
      PROVE  RunTypes'
  BY <1>1, <1>8, Zenon DEF Fetch, FetchTimeout, PeerAnswers, Lost
<1> QED
  BY <1>2, <1>3, <1>4, <1>5, <1>6, <1>7, <1>8, Zenon
  DEF Next, poll_loop, PollRspClosed, PollReqPanics, PollReqClosed

(* The callers of fetch and their requests keep their types.               *)
LEMMA CallTypesNext ==
  ASSUME TypeOK, [Next]_vars
  PROVE  CallTypes'
<1> USE DEF table
<1>0. CallTypes
  BY TypeParts, Zenon
<1>1. CASE UNCHANGED <<job, reqq>>
  BY <1>0, <1>1, Zenon DEF CallTypes
<1>2. ASSUME NEW js, Notify(js), reqq' \in Seq(Req) PROVE CallTypes'
  BY <1>0, <1>2, Zenon DEF Notify, CallTypes
<1>3. ASSUME NEW j \in Jobs, NEW k \in Keys, NEW only \in BOOLEAN, Fetch(j, k, only)
      PROVE  CallTypes'
  <2>1. [job |-> j, key |-> k, only |-> only] \in Req
    BY Zenon DEF Req
  <2>2. reqq' \in Seq(Req)
    BY <1>3, <2>1, SeqTypes, AppendSeq, ZenonT(60) DEF Fetch
  <2> QED
    BY <1>0, <1>3, <2>2, Zenon DEF Fetch, CallTypes
<1>4. ASSUME NEW j \in Jobs, FetchTimeout(j) PROVE CallTypes'
  BY <1>0, <1>4, Zenon DEF FetchTimeout, CallTypes
<1>5. CASE PollRsp
  <2>1. reqq' = reqq /\ (UNCHANGED job \/ \E js : Notify(js))
    BY <1>5, ZenonT(60) DEF PollRsp, handle_rsp, HandleRspTaken
  <2> QED
    BY <1>0, <1>1, <1>2, <2>1, Zenon DEF CallTypes
<1>6. CASE PollReq
  <2>1. reqq' \in Seq(Req)
    BY <1>6, HeadReq, Zenon DEF PollReq
  <2>2. UNCHANGED job \/ \E js : Notify(js)
    BY <1>6, ZenonT(60) DEF PollReq, handle_req, ReqOnly, ReqCached, ReqMissed
  <2> QED
    BY <1>0, <1>2, <2>1, <2>2, Zenon DEF CallTypes
<1>7. ASSUME NEW how, CacheEnds(how) PROVE CallTypes'
  BY <1>7 DEF CacheEnds, CallTypes
<1>8. CASE query_loop \/ QueryRecvFails
  BY <1>1, <1>8, Zenon
  DEF query_loop, QueryRecv, QueryTimeout, QuerySend, QuerySendFails, QueryReq,
      QueryReqClosed, QueryRecvFails, QueryEnds
<1>9. CASE \/ PollEnter \/ PollRspEmpty \/ PollVanishNone \/ PollReqEmpty \/ NextRound
           \/ handle_vanish \/ Tick \/ DropHandles \/ UNCHANGED vars
  BY <1>1, <1>9, ZenonT(60)
  DEF PollEnter, PollRspEmpty, PollVanishNone, PollReqEmpty, NextRound, handle_vanish,
      Tick, DropHandles, vars
<1>10. ASSUME NEW k, PeerAnswers(k) \/ Lost(k) PROVE CallTypes'
  BY <1>1, <1>10, Zenon DEF PeerAnswers, Lost
<1> QED
  BY <1>3, <1>4, <1>5, <1>6, <1>7, <1>8, <1>9, <1>10, Zenon
  DEF Next, poll_loop, PollRspClosed, PollReqPanics, PollReqClosed

(* The tables of the cache runtime.                                        *)
LEMMA TableTypesNext ==
  ASSUME TypeOK, [Next]_vars
  PROVE  TableTypes'
<1> USE DEF table
<1>0. TableTypes
  BY TypeParts, Zenon
<1>1. CASE UNCHANGED <<doing, waiters, cache, vanishq, vanishAt>>
  BY <1>0, <1>1, Zenon DEF TableTypes
<1>2. CASE PollRsp
  <2>1. Head(rspq).key \in Keys /\ Head(rspq).rec \in Data /\ Head(rspq).rec.vanish \in Nat
    BY <1>2, HeadRsp, ZenonT(60) DEF PollRsp, Data
  <2>2. handle_rsp(Head(rspq).key, Head(rspq).rec)
    BY <1>2, Zenon DEF PollRsp
  <2>3. ASSUME NEW k \in Keys, NEW r \in Data, r.vanish \in Nat, handle_rsp(k, r)
        PROVE  TableTypes'
    BY <1>0, <1>1, <2>3, SMTT(30) DEF handle_rsp, HandleRspTaken, TableTypes
  <2> QED
    BY <2>1, <2>2, <2>3, ZenonT(60)
<1>3. CASE PollReq
  <2>1. Head(reqq).job \in Jobs /\ Head(reqq).key \in Keys
    BY <1>3, HeadReq, Zenon DEF PollReq
  <2>2. handle_req(Head(reqq).job, Head(reqq).key, Head(reqq).only)
    BY <1>3, Zenon DEF PollReq
  <2>3. ASSUME NEW j \in Jobs, NEW k \in Keys, ReqCached(j, k) \/ ReqMissed(j, k)
        PROVE  TableTypes'
    BY <1>0, <2>3, ZenonT(60) DEF ReqCached, ReqMissed, TableTypes
  <2> QED
    BY <1>1, <2>1, <2>2, <2>3, ZenonT(60) DEF handle_req, ReqOnly
<1>4. CASE handle_vanish
  BY <1>0, <1>4, DataFacts DEF handle_vanish, Due, TableTypes
<1>5. CASE Tick
  <2>1. cache' \in [Keys -> Data]
    BY <1>0, <1>5, DataFacts, ZenonT(60) DEF Tick, TableTypes
  <2>2. vanishAt' \in [Keys -> Nat]
    BY <1>0, <1>5 DEF Tick, TableTypes, Less
  <2> QED
    BY <1>0, <1>5, <2>1, <2>2, Zenon DEF Tick, TableTypes
<1>6. ASSUME NEW how, CacheEnds(how) PROVE TableTypes'
  BY <1>6, DataFacts, Zenon DEF CacheEnds, TableTypes
<1>7. CASE query_loop \/ QueryRecvFails
  BY <1>1, <1>7, Zenon
  DEF query_loop, QueryRecv, QueryTimeout, QuerySend, QuerySendFails, QueryReq,
      QueryReqClosed, QueryRecvFails, QueryEnds
<1>8. CASE \/ PollEnter \/ PollRspEmpty \/ PollVanishNone \/ PollReqEmpty \/ NextRound
           \/ DropHandles \/ UNCHANGED vars
  BY <1>1, <1>8, ZenonT(60)
  DEF PollEnter, PollRspEmpty, PollVanishNone, PollReqEmpty, NextRound, DropHandles, vars
<1>9. ASSUME NEW j, NEW k, NEW only,
             Fetch(j, k, only) \/ FetchTimeout(j) \/ PeerAnswers(k) \/ Lost(k)
      PROVE  TableTypes'
  BY <1>1, <1>9, ZenonT(60) DEF Fetch, FetchTimeout, PeerAnswers, Lost
<1> QED
  BY <1>2, <1>3, <1>4, <1>5, <1>6, <1>7, <1>8, <1>9, ZenonT(60)
  DEF Next, poll_loop, PollRspClosed, PollReqPanics, PollReqClosed

(* The channels and tables of the query runtime.                           *)
LEMMA QueryTypesNext ==
  ASSUME TypeOK, TimerOK, [Next]_vars
  PROVE  QueryTypes'
<1> USE DEF query
<1>0. QueryTypes
  BY TypeParts, Zenon
<1>1. CASE UNCHANGED <<queryq, rspq, qpc, qdoing, timers>>
  BY <1>0, <1>1, Zenon DEF QueryTypes
<1>2. CASE PollRsp
  BY <1>0, <1>2, HeadRsp, Zenon DEF PollRsp, QueryTypes
<1>3. CASE PollReq
  <2>1. Head(reqq).key \in Keys
    BY <1>3, HeadReq, Zenon DEF PollReq
  <2>2. queryq' = queryq \/ queryq' = Append(queryq, Head(reqq).key)
    BY <1>3, ZenonT(60) DEF PollReq, handle_req, ReqOnly, ReqCached, ReqMissed, send_req
  <2>3. queryq' \in Seq(Keys)
    BY <2>1, <2>2, SeqTypes, AppendSeq, ZenonT(60)
  <2> QED
    BY <1>0, <1>3, <2>3, Zenon DEF PollReq, QueryTypes
<1>4. ASSUME NEW how, CacheEnds(how) PROVE QueryTypes'
  BY <1>0, <1>4 DEF CacheEnds, QueryTypes
<1>5. ASSUME NEW k \in Keys, Answer(k), UNCHANGED qpc PROVE QueryTypes'
  <2>1. rspq' \in Seq(Rsp)
    <3>1. \A r \in Data : [key |-> k, rec |-> r] \in Rsp
      BY Zenon DEF Rsp
    <3>2. rspq' = rspq \/ \E r \in Data : rspq' = Append(rspq, [key |-> k, rec |-> r])
      BY <1>5, Zenon DEF Answer
    <3> QED
      BY <3>1, <3>2, SeqTypes, AppendSeq, ZenonT(60)
  <2> QED
    BY <1>0, <1>5, <2>1, Zenon DEF Answer, QueryTypes
<1>6. CASE QueryReq
  <2>1. Head(queryq) \in Keys /\ Tail(queryq) \in Seq(Keys) /\ queryq' = Tail(queryq)
    BY <1>6, SeqTypes, TailSeq, ZenonT(60) DEF QueryReq
  <2>2. [key |-> Head(queryq), rec |-> Empty] \in Rsp
    BY <2>1, DataFacts, ZenonT(60) DEF Rsp
  <2>3. rspq' \in Seq(Rsp)
    <3>1. rspq' = rspq \/ rspq' = Append(rspq, [key |-> Head(queryq), rec |-> Empty])
      BY <1>6, Zenon DEF QueryReq, Sent
    <3> QED
      BY <2>2, <3>1, SeqTypes, AppendSeq, ZenonT(60)
  <2>4. qdoing' \subseteq Keys /\ timers' \subseteq Keys /\ qpc' = qpc
    BY <1>0, <1>6, <2>1, Zenon DEF QueryReq, QueryTypes
  <2> QED
    BY <1>0, <2>1, <2>3, <2>4, Zenon DEF QueryTypes
<1>7. ASSUME NEW how \in {"exited", "failed"}, QueryEnds(how) PROVE QueryTypes'
  BY <1>0, <1>7 DEF QueryEnds, QueryTypes
<1>8. CASE Tick
  BY <1>0, <1>8, TickEffect, ZenonT(60) DEF Tick, QueryTypes
<1> QED
  BY <1>1, <1>2, <1>3, <1>4, <1>5, <1>6, <1>7, <1>8, QuerySteps, Zenon

(* The socket of the query runtime and the network.                        *)
LEMMA WireTypesNext ==
  ASSUME TypeOK, [Next]_vars
  PROVE  WireTypes'
<1> USE DEF query, wire
<1>0. WireTypes
  BY TypeParts, Zenon
<1>1. CASE UNCHANGED <<timerAt, writeq, asked, air>>
  BY <1>0, <1>1, Zenon DEF WireTypes
<1>2. ASSUME NEW k \in Keys, QueryRecv(k) \/ QueryTimeout(k) \/ PeerAnswers(k) \/ Lost(k)
      PROVE  WireTypes'
  BY <1>0, <1>2, Zenon DEF QueryRecv, QueryTimeout, PeerAnswers, Lost, WireTypes
<1>3. CASE QuerySend \/ QuerySendFails
  <2>1. /\ writeq' \in Seq(Keys) /\ Head(writeq) \in Keys
    BY <1>0, <1>3, TailSeq, Zenon DEF QuerySend, QuerySendFails, WireTypes
  <2> QED
    BY <1>0, <1>3, <2>1, Zenon DEF QuerySend, QuerySendFails, WireTypes
<1>4. CASE QueryReq
  <2>1. Head(queryq) \in Keys
    BY <1>4, SeqTypes, TailSeq, Zenon DEF QueryReq
  <2>2. writeq' = writeq \/ writeq' = Append(writeq, Head(queryq))
    BY <1>4, Zenon DEF QueryReq
  <2>3. timerAt' = timerAt \/ timerAt' = [timerAt EXCEPT ![Head(queryq)] = QueryWait]
    BY <1>4, Zenon DEF QueryReq
  <2>4. writeq' \in Seq(Keys)
    BY <1>0, <2>1, <2>2, AppendSeq, SMTT(60) DEF WireTypes
  <2>5. timerAt' \in [Keys -> Nat]
    BY <1>0, <2>1, <2>3, EffectiveCacheAssumption, Zenon DEF WireTypes
  <2> QED
    BY <1>0, <1>4, <2>4, <2>5, Zenon DEF QueryReq, WireTypes
<1>5. ASSUME NEW how, QueryEnds(how) PROVE WireTypes'
  BY <1>0, <1>5 DEF QueryEnds, WireTypes
<1>6. CASE Tick
  <2>1. timerAt' \in [Keys -> Nat]
    BY <1>0, <1>6, SMTT(30) DEF Tick, WireTypes, Less
  <2> QED
    BY <1>0, <1>6, <2>1, Zenon DEF Tick, WireTypes
<1>7. CASE poll_loop \/ DropHandles \/ UNCHANGED vars
  BY <1>1, <1>7, Zenon
  DEF poll_loop, PollEnter, PollRsp, PollRspEmpty, PollRspClosed, handle_vanish,
      PollVanishNone, PollReq, PollReqPanics, PollReqEmpty, PollReqClosed, NextRound,
      CacheEnds, DropHandles, vars
<1>8. ASSUME NEW j, NEW k, NEW only, Fetch(j, k, only) \/ FetchTimeout(j)
      PROVE  WireTypes'
  BY <1>1, <1>8, Zenon DEF Fetch, FetchTimeout
<1> QED
  BY <1>2, <1>3, <1>4, <1>5, <1>6, <1>7, <1>8, Zenon
  DEF Next, query_loop, QueryReqClosed, QueryRecvFails


(* Positions of a sequence that an Append leaves or adds.                  *)
LEMMA CountGrows ==
  ASSUME NEW n \in Nat, NEW A \in SUBSET (1 .. n), NEW B \in SUBSET (1 .. n + 1),
         \A i \in 1 .. n : i \in B <=> i \in A
  PROVE  /\ Cardinality(A) \in Nat
         /\ Cardinality(B) = Cardinality(A) + (IF n + 1 \in B THEN 1 ELSE 0)
<1>0. IsFiniteSet(1 .. n)
  BY FS_Interval, SMTT(30)
<1>1. IsFiniteSet(A) /\ Cardinality(A) \in Nat
  BY <1>0, FS_Subset, FS_CardinalityType, Zenon
<1>a. \A i \in 1 .. n + 1 : i \in 1 .. n \/ i = n + 1
  BY SMTT(30)
<1>b. \A i \in 1 .. n : i \in 1 .. n + 1 /\ i # n + 1
  OBVIOUS
<1>2. CASE n + 1 \in B
  <2>1. B = A \cup {n + 1} /\ n + 1 \notin A
    BY <1>a, <1>b, <1>2, Zenon
  <2> QED
    BY <1>1, <1>2, <2>1, FS_AddElement, Zenon
<1>3. CASE n + 1 \notin B
  <2>1. B = A
    BY <1>a, <1>b, <1>3, Zenon
  <2> QED
    BY <1>1, <1>3, <2>1, SMTT(30)
<1> QED
  BY <1>1, <1>2, <1>3, ZenonT(60)

(* Positions of a sequence that a Tail moves down by one.                  *)
LEMMA CountShifts ==
  ASSUME NEW n \in Nat, n >= 1, NEW A \in SUBSET (1 .. n), NEW B \in SUBSET (1 .. n - 1),
         \A i \in 1 .. n - 1 : i \in B <=> i + 1 \in A
  PROVE  /\ Cardinality(B) \in Nat
         /\ Cardinality(A) = Cardinality(B) + (IF 1 \in A THEN 1 ELSE 0)
<1> DEFINE C == A \ {1}
           f == [i \in B |-> i + 1]
<1>0. IsFiniteSet(1 .. n - 1)
  BY FS_Interval, SMTT(30)
<1>1. IsFiniteSet(B) /\ Cardinality(B) \in Nat
  BY <1>0, FS_Subset, FS_CardinalityType, Zenon
<1>2. f \in Bijection(B, C)
  <2>1. f \in [B -> C]
    BY DEF Bijection
  <2>2. \A x, y \in B : f[x] = f[y] => x = y
    OBVIOUS
  <2>3. ASSUME NEW c \in C PROVE \E x \in B : f[x] = c
    <3>1. c - 1 \in 1 .. n - 1 /\ (c - 1) + 1 = c
      BY <2>3, SMTT(30)
    <3>2. c - 1 \in B
      BY <3>1, Zenon
    <3> QED
      BY <3>1, <3>2, Zenon
  <2> QED
    BY <2>1, <2>2, <2>3, Zenon DEF Bijection, Injection, Surjection, IsInjective
<1>3. Cardinality(C) = Cardinality(B) /\ IsFiniteSet(C)
  BY <1>1, <1>2, FS_Bijection, Zenon DEF ExistsBijection
<1>4. CASE 1 \in A
  <2>1. A = C \cup {1} /\ 1 \notin C
    BY <1>4, Zenon
  <2> QED
    BY <1>1, <1>3, <1>4, <2>1, FS_AddElement, Zenon
<1>5. CASE 1 \notin A
  <2>1. A = C
    BY <1>5, Zenon
  <2> QED
    BY <1>1, <1>3, <1>5, <2>1, SMTT(30)
<1> QED
  BY <1>1, <1>4, <1>5, ZenonT(60)

(* The positions of a sequence are finitely many.                          *)
LEMMA CountType ==
  ASSUME NEW n \in Nat, NEW A \in SUBSET (1 .. n)
  PROVE  /\ Cardinality(A) \in Nat
         /\ Cardinality(A) = 0 <=> A = {}
<1>1. IsFiniteSet(1 .. n)
  BY FS_Interval, SMTT(30)
<1>2. IsFiniteSet(A)
  BY <1>1, FS_Subset, Zenon
<1> QED
  BY <1>2, FS_CardinalityType, FS_EmptySet, Zenon
-----------------------------------------------------------------------------
(* Counting the queries and the results of a key.                          *)

At(k) == {i \in 1 .. Len(queryq) : queryq[i] = k}
For(k) == {i \in 1 .. Len(rspq) : rspq[i].key = k}
One(P) == IF P THEN 1 ELSE 0

(* The two counts, as cardinalities of sets of positions.                  *)
LEMMA Counts ==
  ASSUME TypeOK, NEW k
  PROVE  /\ Queries(k) = Cardinality(At(k)) /\ Queries(k) \in Nat
         /\ Results(k) = Cardinality(For(k)) /\ Results(k) \in Nat
         /\ At(k) \in SUBSET (1 .. Len(queryq)) /\ For(k) \in SUBSET (1 .. Len(rspq))
<1>1. /\ Len(queryq) \in Nat /\ DOMAIN queryq = 1 .. Len(queryq)
      /\ Len(rspq) \in Nat /\ DOMAIN rspq = 1 .. Len(rspq)
  BY SeqTypes, SMTT(30)
<1>3. At(k) \in SUBSET (1 .. Len(queryq)) /\ For(k) \in SUBSET (1 .. Len(rspq))
  BY Zenon DEF At, For
<1>4. Queries(k) = Cardinality(At(k)) /\ Results(k) = Cardinality(For(k))
  BY <1>1, Zenon DEF Queries, Results, At, For
<1>5. Cardinality(At(k)) \in Nat /\ Cardinality(For(k)) \in Nat
  BY <1>1, <1>3, CountType, Zenon
<1> QED
  BY <1>3, <1>4, <1>5, Zenon

(* send_req puts one more query of its key into the channel.               *)
LEMMA QueriesAppend ==
  ASSUME TypeOK, NEW e \in Keys, queryq' = Append(queryq, e), NEW k
  PROVE  Queries(k)' = Queries(k) + One(k = e)
<1>a. queryq' \in Seq(Keys)
  BY SeqTypes, AppendSeq, Zenon
<1>b. DOMAIN queryq' = 1 .. Len(queryq')
  BY <1>a, SMTT(30)
<1>1. /\ Len(queryq) \in Nat /\ Len(queryq') = Len(queryq) + 1
      /\ queryq'[Len(queryq) + 1] = e
      /\ \A i \in 1 .. Len(queryq) : queryq'[i] = queryq[i]
  BY SeqTypes, AppendSeq, SMTT(30)
<1>2. /\ \A i \in 1 .. Len(queryq) : i \in At(k)' <=> i \in At(k)
      /\ Len(queryq) + 1 \in At(k)' <=> k = e
  BY <1>1, SMTT(30) DEF At
<1>3. /\ At(k) \in SUBSET (1 .. Len(queryq)) /\ At(k)' \in SUBSET (1 .. Len(queryq) + 1)
      /\ Queries(k) = Cardinality(At(k))
  BY <1>1, Counts, Zenon DEF At
<1>4. Queries(k)' = Cardinality(At(k)')
  BY <1>b, Zenon DEF Queries, At
<1>5. Cardinality(At(k)')
        = Cardinality(At(k)) + (IF Len(queryq) + 1 \in At(k)' THEN 1 ELSE 0)
  BY <1>1, <1>2, <1>3, CountGrows, Zenon
<1> QED
  BY <1>2, <1>3, <1>4, <1>5, Zenon DEF One

(* QueryReq takes one query of its key out of it.                          *)
LEMMA QueriesTail ==
  ASSUME TypeOK, queryq # <<>>, queryq' = Tail(queryq), NEW k
  PROVE  Queries(k) = Queries(k)' + One(k = Head(queryq)) /\ Queries(k)' \in Nat
<1>a. queryq' \in Seq(Keys)
  BY SeqTypes, TailSeq, Zenon
<1>b. DOMAIN queryq' = 1 .. Len(queryq')
  BY <1>a, SMTT(30)
<1>1. /\ Len(queryq) \in Nat /\ Len(queryq) >= 1 /\ Len(queryq') = Len(queryq) - 1
      /\ Head(queryq) = queryq[1]
      /\ \A i \in 1 .. Len(queryq) - 1 : queryq'[i] = queryq[i + 1]
  BY SeqTypes, TailSeq, Zenon
<1>2. /\ \A i \in 1 .. Len(queryq) - 1 : i \in At(k)' <=> i + 1 \in At(k)
      /\ 1 \in At(k) <=> k = Head(queryq)
  BY <1>1, SMTT(30) DEF At
<1>3. /\ At(k) \in SUBSET (1 .. Len(queryq)) /\ At(k)' \in SUBSET (1 .. Len(queryq) - 1)
      /\ Queries(k) = Cardinality(At(k))
  BY <1>1, Counts, Zenon DEF At
<1>4. Queries(k)' = Cardinality(At(k)')
  BY <1>b, Zenon DEF Queries, At
<1>5. /\ Cardinality(At(k)) = Cardinality(At(k)') + (IF 1 \in At(k) THEN 1 ELSE 0)
      /\ Cardinality(At(k)') \in Nat
  BY <1>1, <1>2, <1>3, CountShifts, Zenon
<1> QED
  BY <1>2, <1>3, <1>4, <1>5, Zenon DEF One

(* A result of the query runtime counts for its key.                       *)
LEMMA ResultsAppend ==
  ASSUME TypeOK, NEW e \in Keys, NEW r \in Data,
         rspq' = Append(rspq, [key |-> e, rec |-> r]), NEW k
  PROVE  Results(k)' = Results(k) + One(k = e)
<1>0. [key |-> e, rec |-> r] \in Rsp
  BY Zenon DEF Rsp
<1>a. rspq' \in Seq(Rsp)
  BY <1>0, SeqTypes, AppendSeq, ZenonT(60)
<1>b. DOMAIN rspq' = 1 .. Len(rspq')
  BY <1>a, SMTT(30)
<1>1. /\ Len(rspq) \in Nat /\ Len(rspq') = Len(rspq) + 1
      /\ rspq'[Len(rspq) + 1].key = e
      /\ \A i \in 1 .. Len(rspq) : rspq'[i] = rspq[i]
  BY <1>0, SeqTypes, AppendSeq, SMTT(30)
<1>2. /\ \A i \in 1 .. Len(rspq) : i \in For(k)' <=> i \in For(k)
      /\ Len(rspq) + 1 \in For(k)' <=> k = e
  BY <1>1, SMTT(30) DEF For
<1>3. /\ For(k) \in SUBSET (1 .. Len(rspq)) /\ For(k)' \in SUBSET (1 .. Len(rspq) + 1)
      /\ Results(k) = Cardinality(For(k))
  BY <1>1, Counts, Zenon DEF For
<1>4. Results(k)' = Cardinality(For(k)')
  BY <1>b, Zenon DEF Results, For
<1>5. Cardinality(For(k)')
        = Cardinality(For(k)) + (IF Len(rspq) + 1 \in For(k)' THEN 1 ELSE 0)
  BY <1>1, <1>2, <1>3, CountGrows, Zenon
<1> QED
  BY <1>2, <1>3, <1>4, <1>5, ZenonT(60) DEF One

(* PollRsp takes one result of its key.                                    *)
LEMMA ResultsTail ==
  ASSUME TypeOK, rspq # <<>>, rspq' = Tail(rspq), NEW k
  PROVE  Results(k) = Results(k)' + One(k = Head(rspq).key) /\ Results(k)' \in Nat
<1>a. rspq' \in Seq(Rsp)
  BY SeqTypes, TailSeq, Zenon
<1>b. DOMAIN rspq' = 1 .. Len(rspq')
  BY <1>a, SMTT(30)
<1>1. /\ Len(rspq) \in Nat /\ Len(rspq) >= 1 /\ Len(rspq') = Len(rspq) - 1
      /\ Head(rspq) = rspq[1]
      /\ \A i \in 1 .. Len(rspq) - 1 : rspq'[i] = rspq[i + 1]
  BY SeqTypes, TailSeq, Zenon
<1>2. /\ \A i \in 1 .. Len(rspq) - 1 : i \in For(k)' <=> i + 1 \in For(k)
      /\ 1 \in For(k) <=> k = Head(rspq).key
  BY <1>1, SMTT(30) DEF For
<1>3. /\ For(k) \in SUBSET (1 .. Len(rspq)) /\ For(k)' \in SUBSET (1 .. Len(rspq) - 1)
      /\ Results(k) = Cardinality(For(k))
  BY <1>1, Counts, Zenon DEF For
<1>4. Results(k)' = Cardinality(For(k)')
  BY <1>b, Zenon DEF Results, For
<1>5. /\ Cardinality(For(k)) = Cardinality(For(k)') + (IF 1 \in For(k) THEN 1 ELSE 0)
      /\ Cardinality(For(k)') \in Nat
  BY <1>1, <1>2, <1>3, CountShifts, Zenon
<1> QED
  BY <1>2, <1>3, <1>4, <1>5, Zenon DEF One

(* Time changes no count.                                                  *)
LEMMA ResultsTick ==
  ASSUME TypeOK, Tick, NEW k
  PROVE  Results(k)' = Results(k)
<1>1. For(k)' = For(k)
  BY TickEffect, Zenon DEF For
<1>a. rspq' \in Seq(Rsp)
  BY TickEffect, Zenon
<1>b. DOMAIN rspq' = 1 .. Len(rspq')
  BY <1>a, SMTT(30)
<1>2. Results(k)' = Cardinality(For(k)')
  BY <1>b, Zenon DEF Results, For
<1> QED
  BY <1>1, <1>2, Counts, ZenonT(60)

(* The query of key k, wherever it is.                                     *)
Balance(k) == Queries(k) + Results(k) + One(k \in qdoing) = One(k \in doing)

(* Every step keeps exactly one query or result on its way for each key of *)
(* doing, and none for the others.                                         *)
LEMMA CountNext ==
  ASSUME TypeOK, TimerOK, CountOK, [Next]_vars
  PROVE  CountOK'
<1> SUFFICES ASSUME (CacheAlive /\ QueryAlive)', NEW k \in Keys PROVE Balance(k)'
  BY Zenon DEF CountOK, Balance, One
<1> USE DEF table, query, runtime
<1>0. /\ Queries(k) \in Nat /\ Results(k) \in Nat
      /\ CacheAlive /\ QueryAlive => Balance(k)
  BY Counts, Zenon DEF CountOK, Balance, One
<1>1. UNCHANGED queryq => Queries(k)' = Queries(k)
  BY Zenon DEF Queries
<1>2. UNCHANGED rspq => Results(k)' = Results(k)
  BY Zenon DEF Results
<1>3. CASE /\ UNCHANGED <<doing, queryq, rspq, qpc, qdoing, timers>>
           /\ cpc' = cpc \/ (CacheAlive /\ CacheAlive')
  BY <1>0, <1>1, <1>2, <1>3, ZenonT(60) DEF Balance, CacheAlive, QueryAlive
<1>4. CASE PollRsp
  <2>1. /\ rspq # <<>> /\ rspq' = Tail(rspq) /\ UNCHANGED <<queryq, qdoing, cpc, qpc>>
        /\ handle_rsp(Head(rspq).key, Head(rspq).rec)
    BY <1>4, Zenon DEF PollRsp
  <2>2. Results(k) = Results(k)' + One(k = Head(rspq).key) /\ Results(k)' \in Nat
    BY <2>1, ResultsTail, Zenon
  <2>3. doing' = doing \ {Head(rspq).key}
    BY <2>1, Zenon DEF handle_rsp, HandleRspTaken
  <2>4. Balance(k)
    BY <1>0, <2>1, ZenonT(60) DEF CacheAlive, QueryAlive
  <2>5. Queries(k)' = Queries(k)
    BY <1>1, <2>1, ZenonT(60)
  <2>6. CASE k = Head(rspq).key
    BY <1>0, <2>1, <2>2, <2>3, <2>4, <2>5, <2>6, SMTT(30) DEF Balance, One
  <2>7. CASE k # Head(rspq).key
    BY <1>0, <2>1, <2>2, <2>3, <2>4, <2>5, <2>7, SMTT(30) DEF Balance, One
  <2> QED
    BY <2>6, <2>7, Zenon
<1>5. CASE PollReq
  <2>1. /\ reqq # <<>> /\ UNCHANGED <<rspq, qdoing, cpc, qpc>>
        /\ handle_req(Head(reqq).job, Head(reqq).key, Head(reqq).only)
    BY <1>5, Zenon DEF PollReq
  <2>2. Head(reqq).key \in Keys
    <3>1. Head(reqq) = reqq[1] /\ 1 \in 1 .. Len(reqq)
      BY <2>1, SeqTypes, TailSeq, SMTT(30)
    <3> QED
      BY <3>1, SeqTypes, ZenonT(60)
  <2>3. \/ UNCHANGED <<doing, queryq>>
        \/ Head(reqq).key \in doing /\ UNCHANGED queryq /\ doing' = doing
        \/ /\ Head(reqq).key \notin doing /\ doing' = doing \cup {Head(reqq).key}
           /\ queryq' = Append(queryq, Head(reqq).key)
    BY <2>1, Zenon DEF handle_req, ReqOnly, ReqCached, ReqMissed, send_req
  <2>4. Balance(k) /\ Results(k)' = Results(k)
    BY <1>0, <1>2, <2>1, Zenon DEF CacheAlive, QueryAlive
  <2>5. CASE UNCHANGED <<doing, queryq>>
    BY <1>1, <2>1, <2>4, <2>5, Zenon DEF Balance
  <2>6. CASE /\ Head(reqq).key \notin doing /\ doing' = doing \cup {Head(reqq).key}
             /\ queryq' = Append(queryq, Head(reqq).key)
    <3>1. Queries(k)' = Queries(k) + One(k = Head(reqq).key)
      BY <2>2, <2>6, QueriesAppend, SMTT(30)
    <3>2. CASE k = Head(reqq).key
      BY <1>0, <2>1, <2>4, <2>6, <3>1, <3>2, SMTT(30) DEF Balance, One
    <3>3. CASE k # Head(reqq).key
      BY <1>0, <2>1, <2>4, <2>6, <3>1, <3>3, SMTT(30) DEF Balance, One
    <3> QED
      BY <3>2, <3>3, Zenon
  <2> QED
    BY <2>3, <2>5, <2>6, ZenonT(60)
<1>6. ASSUME NEW how \in {"exited", "panicked"}, CacheEnds(how) PROVE Balance(k)'
  BY <1>6, ZenonT(60) DEF CacheEnds, CacheAlive
<1>7. ASSUME NEW e \in Keys, Answer(e), UNCHANGED <<cpc, doing, qpc>>
      PROVE  Balance(k)'
  <2>1. PICK r \in Data :
          /\ qdoing' = qdoing \ {e} /\ queryq' = queryq
          /\ IF e \in qdoing /\ CacheAlive
             THEN rspq' = Append(rspq, [key |-> e, rec |-> r]) ELSE rspq' = rspq
    BY <1>7, Zenon DEF Answer
  <2>2. CacheAlive /\ QueryAlive /\ Balance(k)
    BY <1>0, <1>7, ZenonT(60) DEF CacheAlive, QueryAlive
  <2>3. CASE e \notin qdoing
    BY <1>1, <1>2, <1>7, <2>1, <2>2, <2>3, ZenonT(60) DEF Balance, One
  <2>4. CASE e \in qdoing
    <3>1. Results(k)' = Results(k) + One(k = e)
      BY <2>1, <2>2, <2>4, ResultsAppend, SMTT(30)
    <3>2. CASE k = e
      BY <1>0, <1>1, <1>7, <2>1, <2>2, <2>4, <3>1, <3>2, SMTT(30) DEF Balance, One
    <3>3. CASE k # e
      BY <1>0, <1>1, <1>7, <2>1, <2>2, <2>4, <3>1, <3>3, SMTT(30) DEF Balance, One
    <3> QED
      BY <3>2, <3>3, Zenon
  <2> QED
    BY <2>3, <2>4, ZenonT(60)
<1>8. CASE QueryReq
  <2> DEFINE e == Head(queryq)
  <2>1. /\ queryq # <<>> /\ queryq' = Tail(queryq) /\ UNCHANGED <<cpc, doing, qpc>>
    BY <1>8, Zenon DEF QueryReq
  <2>2. CacheAlive /\ QueryAlive /\ Balance(k)
    BY <1>0, <2>1, ZenonT(60) DEF CacheAlive, QueryAlive
  <2>3. e \in Keys
    BY <2>1, SeqTypes, TailSeq, ZenonT(60)
  <2>4. Queries(k) = Queries(k)' + One(k = e) /\ Queries(k)' \in Nat
    BY <2>1, QueriesTail, ZenonT(60)
  <2>5. \/ e \in qdoing /\ UNCHANGED <<qdoing, rspq>>
        \/ e \notin qdoing /\ qdoing' = qdoing \cup {e} /\ UNCHANGED rspq
        \/ /\ e \notin qdoing /\ UNCHANGED qdoing
           /\ rspq' = Append(rspq, [key |-> e, rec |-> Empty])
    BY <1>8, <2>2, ZenonT(60) DEF QueryReq, Sent
  <2>6. \/ UNCHANGED rspq /\ Results(k)' = Results(k)
        \/ rspq' = Append(rspq, [key |-> e, rec |-> Empty])
           /\ Results(k)' = Results(k) + One(k = e)
    BY <1>2, <2>3, <2>5, ResultsAppend, DataFacts, SMTT(30)
  <2>7. CASE k = e
    BY <1>0, <2>1, <2>2, <2>4, <2>5, <2>6, <2>7, SMTT(30) DEF Balance, One
  <2>8. CASE k # e
    BY <1>0, <2>1, <2>2, <2>4, <2>5, <2>6, <2>8, SMTT(30) DEF Balance, One
  <2> QED
    BY <2>7, <2>8, Zenon
<1>9. ASSUME NEW how \in {"exited", "failed"}, QueryEnds(how) PROVE Balance(k)'
  BY <1>9, Zenon DEF QueryEnds, QueryAlive
<1>10. CASE Tick
  <2>1. UNCHANGED <<cpc, doing, queryq, qpc, qdoing>>
    BY <1>10, Zenon DEF Tick
  <2>2. Results(k)' = Results(k)
    BY <1>10, ResultsTick, ZenonT(60)
  <2> QED
    BY <1>0, <1>1, <2>1, <2>2, Zenon DEF Balance, CacheAlive, QueryAlive
<1> QED
  BY <1>3, <1>4, <1>5, <1>6, <1>7, <1>8, <1>9, <1>10, QuerySteps, ZenonT(60)

-----------------------------------------------------------------------------
(* The invariant holds at the start.                                       *)
LEMMA IInvInit == Init => IInv
<1> SUFFICES ASSUME Init PROVE IInv
  BY Zenon
<1>1. RunTypes /\ CallTypes
  BY DEF Init, RunTypes, CallTypes
<1>2. TableTypes
  BY DataFacts, Zenon DEF Init, TableTypes
<1>3. QueryTypes /\ WireTypes
  BY DEF Init, QueryTypes, WireTypes
<1>4. TypeOK
  BY <1>1, <1>2, <1>3, TypeParts, ZenonT(60)
<1>5. ShutOK /\ RspOK /\ TimerOK /\ CallersOK
  BY DEF Init, ShutOK, OnlySocketPanics, RspOK, TimerOK, CallersOK
<1>6. VanishOK
  BY DataFacts, Zenon DEF Init, VanishOK
<1>7. CountOK
  <2>1. ASSUME NEW k \in Keys
        PROVE  /\ Queries(k) = 0 /\ Results(k) = 0
               /\ k \notin qdoing /\ k \notin doing
    <3>1. At(k) = {} /\ For(k) = {}
      BY DEF Init, At, For
    <3> QED
      BY <1>4, <3>1, SeqTypes, Counts, CountType, Zenon DEF Init
  <2> QED
    BY <2>1, SMTT(30) DEF CountOK
<1> QED
  BY <1>4, <1>5, <1>6, <1>7, ZenonT(60) DEF IInv

(* Every step keeps the invariant.                                         *)
LEMMA IInvNext == IInv /\ [Next]_vars => IInv'
<1> SUFFICES ASSUME IInv, [Next]_vars PROVE IInv'
  BY Zenon
<1>1. (RunTypes /\ CallTypes /\ TableTypes /\ QueryTypes /\ WireTypes)'
  BY RunTypesNext, CallTypesNext, TableTypesNext, QueryTypesNext, WireTypesNext,
     ZenonT(60) DEF IInv
<1>2. TypeOK'
  BY <1>1, Zenon
  DEF TypeOK, RunTypes, CallTypes, TableTypes, QueryTypes, WireTypes, Req, Rsp
<1> QED
  BY <1>2, ShutNext, TimerNext, RspNext, VanishNext, CountNext, CallersNext, ZenonT(60) DEF IInv

(* The inductive invariant of the two runtimes.                            *)
LEMMA IInvAlways == Spec => []IInv
BY IInvInit, IInvNext, PTL DEF Spec

(* Each key in doing has exactly one query or result on its way, whatever  *)
(* the network does, and every caller that waits will be told: no key can  *)
(* stay in doing for ever, or be answered twice.                           *)
THEOREM AlwaysOneAnswerToCome == Spec => []OneAnswerToCome
<1>1. IInv => OneAnswerToCome
  <2> SUFFICES ASSUME IInv PROVE OneAnswerToCome
    BY Zenon
  <2>1. DOMAIN reqq = 1 .. Len(reqq)
    BY SeqTypes, SMTT(30) DEF IInv
  <2> QED
    BY <2>1, Zenon DEF IInv, CountOK, CallersOK, OneAnswerToCome
<1> QED
  BY <1>1, IInvAlways, PTL

(* The delay queues and the maps that keep their handles never part:       *)
(* remove and reset_at never meet a dead handle.                           *)
THEOREM TimersAlwaysMatch == Spec => []TimersMatch
<1>1. IInv => TimersMatch
  BY ZenonT(60) DEF IInv, TimerOK, VanishOK, TimersMatch
<1> QED
  BY <1>1, IInvAlways, PTL

(* The unreachable!() of the cache runtime are reached only after the      *)
(* socket of the query runtime failed.                                     *)
THEOREM OnlySocketEverPanics == Spec => []OnlySocketPanics
<1>1. IInv => OnlySocketPanics
  BY Zenon DEF IInv, ShutOK
<1> QED
  BY <1>1, IInvAlways, PTL
=============================================================================
