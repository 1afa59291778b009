--------------------------- MODULE ResolverProofs ---------------------------
(***************************************************************************)
(* Safety of the resolver runtime, for every number of clients and keys,   *)
(* every TTL configuration and every batch size: type correctness, the     *)
(* inductive invariant with a lemma for each of its conjuncts, and the     *)
(* theorems.                                                               *)
(***************************************************************************)
EXTENDS Resolver, MCResolvedRecord, TLAPS

-----------------------------------------------------------------------------
(* What `ResolvedRecord::resolved` computes, for all TTLs and bounds.      *)

(* Sums that stay below the modulus do not wrap, nor do differences that   *)
(* are not negative.                                                       *)
LEMMA NoWrap ==
  ASSUME NEW a \in Nat, NEW b \in Nat
  PROVE  /\ a + b < U32 => U32Add(a, b) = a + b
         /\ b <= a /\ a < U32 => U32Sub(a, b) = a - b
BY U32Assumption DEF U32Add, U32Sub

(* `resolved` keeps a record exactly as long as the documentation says,    *)
(* whenever the sum of the configured bounds is a u32.                     *)
THEOREM ResolvedAsDocumented ==
  ASSUME NEW lo \in Nat, NEW hi \in Nat, NEW t \in Nat,
         lo <= hi, hi + lo < U32, lo + 1 < U32, t < U32
  PROVE  Ttls(t, lo, hi) = DocTtls(t, lo, hi)
<1>1. U32Add(hi, lo) = hi + lo
  BY NoWrap, Zenon
<1>2. U32Add(lo, lo) = lo + lo
  <2>1. lo + lo < U32
    BY U32Assumption
  <2> QED
    BY <2>1, NoWrap, Zenon
<1>3. U32Add(lo, 1) = lo + 1
  BY NoWrap, Zenon
<1>4. lo <= t => U32Sub(t, lo) = t - lo
  BY NoWrap, Zenon
<1> QED
  BY <1>1, <1>2, <1>3, <1>4 DEF Ttls, DocTtls, Larger, Smaller

(* Under the same condition a record is cached for a time between the two  *)
(* configured bounds and never vanishes before it has expired.             *)
THEOREM DeadlinesInOrder ==
  ASSUME NEW lo \in Nat, NEW hi \in Nat, NEW t \in Nat,
         lo <= hi, hi + lo < U32, lo + 1 < U32, t < U32
  PROVE  LET d == Ttls(t, lo, hi)
         IN  lo <= d.expire /\ d.expire <= hi /\ d.expire <= d.vanish
BY ResolvedAsDocumented, SMTT(30) DEF DocTtls, Larger, Smaller

(* `resolved` as documented with any bounds, after the drivers' check of   *)
(* them.                                                                   *)
LEMMA LoadedAsDocumented ==
  ASSUME NEW lo \in Nat, NEW hi \in Nat, NEW t \in Nat,
         lo + lo < U32, hi + lo < U32, lo + 1 < U32, t < U32
  PROVE  Ttls(t, lo, CheckedMax(lo, hi)) = DocTtls(t, lo, CheckedMax(lo, hi))
<1> DEFINE m == CheckedMax(lo, hi)
<1>1. m \in Nat /\ lo <= m /\ m + lo < U32
  BY U32Assumption DEF CheckedMax
<1> QED
  BY <1>1, ResolvedAsDocumented, Zenon

(* Whatever bounds a driver is configured with, up to MinConf and MaxConf, *)
(* it keeps every answer for the documented times: what the run finds for  *)
(* a small TTL type holds for the u32 of `resolved`, as long as the bounds *)
(* do not add up to 2^32.                                                  *)
THEOREM AlwaysAsDocumented == RecordSpec => []TtlsAsDocumented
<1>1. \A lo \in 0 .. MinConf, m \in 0 .. MaxConf, t \in 0 .. U32 - 1 :
        Ttls(t, lo, CheckedMax(lo, m)) = DocTtls(t, lo, CheckedMax(lo, m))
  BY LoadedAsDocumented, U32Assumption, MCResolvedRecordAssumption, SMTT(30)
<1>2. RecordInit => Load /\ TtlsAsDocumented
  BY <1>1, U32Assumption, SMTT(30) DEF RecordInit, Load, TtlsAsDocumented
<1>3. Load /\ TtlsAsDocumented /\ [Answer]_recordVars => (Load /\ TtlsAsDocumented)'
  BY <1>1 DEF Load, Answer, recordVars, TtlsAsDocumented
<1> QED
  BY <1>2, <1>3, PTL DEF RecordSpec

-----------------------------------------------------------------------------
(* Types.                                                                  *)

(* Wrapping or not, the sums and differences of TTLs are TTLs.             *)
LEMMA U32Type ==
  ASSUME NEW a \in Nat, NEW b \in Nat
  PROVE  U32Add(a, b) \in Nat /\ U32Sub(a, b) \in Nat
BY U32Assumption DEF U32Add, U32Sub

(* The deadlines of a record are times.                                    *)
LEMMA TtlsType ==
  ASSUME NEW t \in Nat, NEW lo \in Nat, NEW hi \in Nat
  PROVE  Ttls(t, lo, hi) \in [expire : Nat, vanish : Nat]
<1>1. /\ U32Add(lo, 1) \in Nat
      /\ U32Sub(t, lo) \in Nat
  BY U32Type, Zenon
<1> QED
  BY <1>1, Zenon DEF Ttls

(* What the driver can answer is a record.                                 *)
LEMMA AnswersType ==
  ASSUME NEW v \in Nat
  PROVE  Answers(v) \subseteq Rec
<1>1. ASSUME NEW t \in AnswerTtls PROVE Resolved(t, v) \in Rec
  <2>1. Ttls(t, MinTtl, MaxTtl) \in [expire : Nat, vanish : Nat]
    BY TtlsType, ResolverAssumption, Zenon
  <2> QED
    BY <2>1, Zenon DEF Resolved, Rec
<1>2. Empty(v) \in Rec /\ Failed(v) \in Rec
  BY ResolverAssumption, Zenon DEF Empty, Failed, Rec
<1> QED
  BY <1>1, <1>2, Zenon DEF Answers

(* Time that passes leaves a record a record.                              *)
LEMMA AgedType ==
  ASSUME NEW r \in Rec
  PROVE  Aged(r) \in Rec
<1>1. Less(r.expire) \in Nat /\ Less(r.vanish) \in Nat
  BY DEF Rec, Less
<1> QED
  BY <1>1, Zenon DEF Aged, Rec

(* The absent record is a record.                                          *)
LEMMA NoRecType == NoRec \in Rec
BY Zenon DEF NoRec, Rec

(* Versions stay numbers.                                                  *)
LEMMA NextVerType ==
  ASSUME NEW v \in Nat
  PROVE  NextVer(v) \in Nat /\ v <= NextVer(v)
BY ResolverAssumption DEF NextVer

(* Sending to clients and dropping the runtime keep the types.             *)
LEMMA SendToType ==
  ASSUME TypeOK, NEW js \in SUBSET Jobs, NEW k \in Keys, NEW r \in Rec,
         SendTo(js, k, r)
  PROVE  /\ job' \in [Jobs -> {"idle", "waiting", "abandoned"}]
         /\ told' \in [Keys -> Nat]
BY Zenon DEF TypeOK, SendTo, Rec

(* The end of the runtime leaves every variable its type.                  *)
LEMMA DroppedType == TypeOK /\ Dropped => TypeOK'
<1> SUFFICES ASSUME TypeOK, Dropped PROVE TypeOK'
  BY Zenon
<1>1. /\ pc' \in Places /\ batch' \in 0..(Batch - 1)
      /\ armed' \subseteq Sources
  BY ResolverAssumption DEF TypeOK, Dropped, Places
<1>5. driver' \in BOOLEAN /\ woken' \in BOOLEAN
  BY Zenon DEF TypeOK, Dropped
<1>2. /\ ctlq' \in Seq({"update", "quit"})
      /\ reqq' \in Seq([job : Jobs, key : Keys])
      /\ rspq' \subseteq [key : Keys, rec : Rec]
  BY DEF Dropped
<1>3. /\ job' \in [Jobs -> {"idle", "waiting", "abandoned"}]
      /\ doing' \subseteq Keys /\ waiters' \in [Keys -> SUBSET Jobs]
      /\ queued' \subseteq Keys /\ at' \in [Keys -> Nat]
      /\ inflight' \in [Keys -> Nat]
  BY Zenon DEF Dropped
<1>4. cache' \in [Keys -> Rec] /\ trash' \in [Keys -> Rec]
  BY NoRecType, Zenon DEF Dropped
<1> QED
  BY <1>1, <1>2, <1>3, <1>4, <1>5, Zenon DEF TypeOK, Dropped

(* A query more leaves the counts numbers.                                 *)
LEMMA StartQueryType ==
  ASSUME TypeOK, NEW k \in Keys, StartQuery(k) \/ UNCHANGED inflight
  PROVE  inflight' \in [Keys -> Nat]
<1>1. inflight \in [Keys -> Nat]
  BY Zenon DEF TypeOK
<1>2. CASE StartQuery(k)
  BY <1>1, <1>2 DEF StartQuery
<1>3. CASE UNCHANGED inflight
  BY <1>1, <1>3, Zenon
<1> QED
  BY <1>2, <1>3, Zenon

(* The handlers keep the types of the tables.                              *)
TablesOK ==
  /\ doing \subseteq Keys /\ waiters \in [Keys -> SUBSET Jobs]
  /\ cache \in [Keys -> Rec] /\ trash \in [Keys -> Rec]
  /\ queued \subseteq Keys /\ at \in [Keys -> Nat]
  /\ job \in [Jobs -> {"idle", "waiting", "abandoned"}]
  /\ told \in [Keys -> Nat]

(* A response leaves the tables their types.                               *)
LEMMA HandleRspType ==
  ASSUME TypeOK, NEW k \in Keys, NEW r \in Rec, handle_rsp(k, r)
  PROVE  TablesOK'
<1>1. CASE RspTrashed(k)
  <2>1. trash[k] \in Rec /\ waiters[k] \in SUBSET Jobs
    BY Zenon DEF TypeOK
  <2>2. /\ job' \in [Jobs -> {"idle", "waiting", "abandoned"}]
        /\ told' \in [Keys -> Nat]
    BY <1>1, <2>1, SendToType, Zenon DEF RspTrashed
  <2> QED
    BY <1>1, <2>2, Zenon DEF RspTrashed, TypeOK, TablesOK
<1>2. CASE RspCached(k, r)
  <2>1. waiters[k] \in SUBSET Jobs
    BY Zenon DEF TypeOK
  <2>2. /\ job' \in [Jobs -> {"idle", "waiting", "abandoned"}]
        /\ told' \in [Keys -> Nat]
    BY <1>2, <2>1, SendToType, Zenon DEF RspCached
  <2>3. trash' \in [Keys -> Rec]
    BY <1>2, NoRecType, Zenon DEF RspCached, TypeOK
  <2>4. at' \in [Keys -> Nat] /\ cache' \in [Keys -> Rec]
    BY <1>2, Zenon DEF RspCached, update_cache, TypeOK, Rec
  <2> QED
    BY <1>2, <2>2, <2>3, <2>4, ZenonT(60) DEF RspCached, update_cache, TypeOK, TablesOK
<1> QED
  BY <1>1, <1>2, Zenon DEF handle_rsp

(* A request leaves the tables their types.                                *)
LEMMA HandleReqType ==
  ASSUME TypeOK, NEW j \in Jobs, NEW k \in Keys, handle_req(j, k)
  PROVE  TablesOK' /\ inflight' \in [Keys -> Nat]
<1>1. cache[k] \in Rec /\ trash[k] \in Rec /\ {j} \in SUBSET Jobs
  BY Zenon DEF TypeOK
<1>2. CASE ReqCached(j, k)
  <2>1. /\ job' \in [Jobs -> {"idle", "waiting", "abandoned"}]
        /\ told' \in [Keys -> Nat]
    BY <1>1, <1>2, SendToType, Zenon DEF ReqCached
  <2> QED
    BY <1>2, <2>1, ZenonT(60) DEF ReqCached, tables, TypeOK, TablesOK
<1>3. CASE ReqTrashed(j, k)
  <2>1. /\ job' \in [Jobs -> {"idle", "waiting", "abandoned"}]
        /\ told' \in [Keys -> Nat]
    BY <1>1, <1>3, SendToType, Zenon DEF ReqTrashed
  <2>2. inflight' \in [Keys -> Nat]
    BY <1>3, StartQueryType, Zenon DEF ReqTrashed
  <2> QED
    BY <1>3, <2>1, <2>2, Zenon DEF ReqTrashed, TypeOK, TablesOK
<1>4. CASE ReqQueried(j, k)
  <2>1. inflight' \in [Keys -> Nat]
    BY <1>4, StartQueryType, Zenon DEF ReqQueried
  <2> QED
    BY <1>4, <2>1, Zenon DEF ReqQueried, TypeOK, TablesOK
<1> QED
  BY <1>2, <1>3, <1>4, Zenon DEF handle_req

(* The initial state is well typed.                                        *)
LEMMA TypeInit == Init => TypeOK
<1> SUFFICES ASSUME Init PROVE TypeOK
  BY Zenon
<1>1. batch \in 0..(Batch - 1)
  BY ResolverAssumption DEF Init
<1>2. cache \in [Keys -> Rec] /\ trash \in [Keys -> Rec]
  BY NoRecType, Zenon DEF Init
<1>3. pc \in Places /\ armed \subseteq Sources
  BY Zenon DEF Init, Places
<1>4. driver \in BOOLEAN /\ woken \in BOOLEAN
  BY Zenon DEF Init
<1>5. /\ ctlq \in Seq({"update", "quit"})
      /\ reqq \in Seq([job : Jobs, key : Keys])
      /\ rspq \subseteq [key : Keys, rec : Rec]
  BY DEF Init
<1>6. /\ job \in [Jobs -> {"idle", "waiting", "abandoned"}]
      /\ doing \subseteq Keys /\ waiters \in [Keys -> SUBSET Jobs]
      /\ queued \subseteq Keys /\ at \in [Keys -> Nat]
  BY Zenon DEF Init
<1>7. /\ inflight \in [Keys -> Nat] /\ ver \in [Keys -> Nat]
      /\ told \in [Keys -> Nat]
      /\ owner \in {"running", "joining", "joined"}
  BY Zenon DEF Init
<1> QED
  BY <1>1, <1>2, <1>3, <1>4, <1>5, <1>6, <1>7, Zenon DEF TypeOK

(* The two parts of a channel that is not empty.                           *)
LEMMA HeadTail ==
  ASSUME NEW S, NEW s \in Seq(S), s # <<>>
  PROVE  /\ Head(s) \in S /\ Tail(s) \in Seq(S)
         /\ Len(Tail(s)) = Len(s) - 1
         /\ \A i \in 2..Len(s) : Tail(s)[i - 1] = s[i]
OBVIOUS

(* The request PollReq handles.                                            *)
LEMMA ReqHead ==
  ASSUME TypeOK, PollReq
  PROVE  /\ Head(reqq) \in [job : Jobs, key : Keys]
         /\ Head(reqq).job \in Jobs /\ Head(reqq).key \in Keys
         /\ reqq' \in Seq([job : Jobs, key : Keys])
<1>1. reqq \in Seq([job : Jobs, key : Keys]) /\ reqq # <<>>
  BY Zenon DEF PollReq, TypeOK
<1>2. Head(reqq) \in [job : Jobs, key : Keys]
  BY <1>1, HeadTail, Zenon
<1>3. reqq' \in Seq([job : Jobs, key : Keys])
  BY <1>1, HeadTail, Zenon DEF PollReq
<1> QED
  BY <1>2, <1>3, Zenon

(* A message to the runtime is one more element of a channel.              *)
LEMMA WakeType ==
  ASSUME TypeOK, NEW source, Wake(source)
  PROVE  woken' \in BOOLEAN /\ armed' \subseteq Sources
BY Zenon DEF TypeOK, Wake

(* Every step keeps the types.                                             *)
LEMMA TypeNext == TypeOK /\ [Next]_vars => TypeOK'
<1> SUFFICES ASSUME TypeOK, [Next]_vars PROVE TypeOK'
  BY Zenon
<1> USE DEF loop, wakers, tables, drv
<1>1. ASSUME NEW j \in Jobs, NEW k \in Keys, Get(j, k) PROVE TypeOK'
  <2>1. woken' \in BOOLEAN /\ armed' \subseteq Sources
    BY <1>1, WakeType, Zenon DEF Get
  <2>2. reqq' \in Seq([job : Jobs, key : Keys])
    BY <1>1 DEF Get, TypeOK
  <2> QED
    BY <1>1, <2>1, <2>2, Zenon DEF Get, TypeOK
<1>2. ASSUME NEW j \in Jobs, Abandon(j) PROVE TypeOK'
  BY <1>2, Zenon DEF Abandon, TypeOK
<1>3. CASE UpdateConfig
  <2>1. woken' \in BOOLEAN /\ armed' \subseteq Sources
    BY <1>3, WakeType, Zenon DEF UpdateConfig
  <2>2. ctlq' \in Seq({"update", "quit"})
    BY <1>3 DEF UpdateConfig, TypeOK
  <2> QED
    BY <1>3, <2>1, <2>2, Zenon DEF UpdateConfig, TypeOK
<1>4. CASE Shutdown
  <2>1. woken' \in BOOLEAN /\ armed' \subseteq Sources
    BY <1>4, WakeType, Zenon DEF Shutdown, TypeOK
  <2>2. ctlq' \in Seq({"update", "quit"})
    <3>1. ctlq \in Seq({"update", "quit"})
      BY Zenon DEF TypeOK
    <3>2. Append(ctlq, "quit") \in Seq({"update", "quit"})
      BY <3>1
    <3> QED
      BY <1>4, <3>1, <3>2, Zenon DEF Shutdown
  <2> QED
    BY <1>4, <2>1, <2>2, ZenonT(60) DEF Shutdown, TypeOK
<1>5. CASE Joined
  BY <1>5, Zenon DEF Joined, TypeOK
<1>6. ASSUME NEW k \in Keys, DriverAnswer(k) PROVE TypeOK'
  <2>1. woken' \in BOOLEAN /\ armed' \subseteq Sources
    BY <1>6, WakeType, Zenon DEF DriverAnswer
  <2>2. inflight' \in [Keys -> Nat]
    BY <1>6, SMTT(30) DEF DriverAnswer, TypeOK
  <2>3. ver' \in [Keys -> Nat] /\ NextVer(ver[k]) \in Nat
    BY <1>6, NextVerType, Zenon DEF DriverAnswer, TypeOK
  <2>4. rspq' \subseteq [key : Keys, rec : Rec]
    BY <1>6, <2>3, AnswersType, SMTT(30) DEF DriverAnswer, TypeOK
  <2> QED
    BY <1>6, <2>1, <2>2, <2>3, <2>4, Zenon DEF DriverAnswer, TypeOK
<1>7. CASE Tick
  <2>1. woken' \in BOOLEAN /\ armed' \subseteq Sources
    BY <1>7, WakeType, Zenon DEF Tick, TypeOK
  <2>2. cache' \in [Keys -> Rec] /\ trash' \in [Keys -> Rec]
    BY <1>7, AgedType, Zenon DEF Tick, TypeOK
  <2>3. rspq' \subseteq [key : Keys, rec : Rec]
    BY <1>7, AgedType, SMTT(30) DEF Tick, TypeOK
  <2>4. at' \in [Keys -> Nat]
    BY <1>7, SMTT(30) DEF Tick, TypeOK, Less
  <2> QED
    BY <1>7, <2>1, <2>2, <2>3, <2>4, ZenonT(60) DEF Tick, TypeOK
<1>8. CASE SpawnFails \/ PollQuit
  BY <1>8, DroppedType, Zenon DEF SpawnFails, PollQuit
<1>9. CASE PollEnter
  <2>1. trash' \in [Keys -> Rec]
    BY <1>9, NoRecType, Zenon DEF PollEnter, clean_trash, TypeOK
  <2> QED
    BY <1>9, <2>1, Zenon DEF PollEnter, TypeOK, Places
<1>10. CASE PollCtlEmpty \/ PollRspEmpty \/ PollExpiredNone
  BY <1>10, Zenon DEF PollCtlEmpty, PollRspEmpty, PollExpiredNone, TypeOK, Places,
               Sources
<1>11. CASE handle_cmd
  <2>1. ctlq' \in Seq({"update", "quit"})
    BY <1>11 DEF handle_cmd, TypeOK
  <2> QED
    BY <1>11, <2>1, ZenonT(60) DEF handle_cmd, TypeOK, Places
<1>12. CASE PollRsp
  <2>1. PICK m \in rspq : rspq' = rspq \ {m} /\ handle_rsp(m.key, m.rec)
    BY <1>12, Zenon DEF PollRsp
  <2>2. m.key \in Keys /\ m.rec \in Rec
    BY <2>1, Zenon DEF TypeOK
  <2>3. TablesOK'
    BY <2>1, <2>2, HandleRspType, Zenon
  <2> QED
    BY <1>12, <2>1, <2>3, Zenon DEF PollRsp, TypeOK, TablesOK
<1>13. CASE PollExpired
  <2>1. PICK k \in queued : handle_expired(k)
    BY <1>13, Zenon DEF PollExpired
  <2>2. cache' \in [Keys -> Rec] /\ trash' \in [Keys -> Rec]
    BY <2>1, NoRecType, Zenon DEF handle_expired, TypeOK
  <2> QED
    BY <1>13, <2>1, <2>2, ZenonT(60) DEF PollExpired, handle_expired, TypeOK
<1>14. CASE PollReq
  <2>1. /\ Head(reqq).job \in Jobs /\ Head(reqq).key \in Keys
        /\ reqq' \in Seq([job : Jobs, key : Keys])
    BY <1>14, ReqHead, Zenon
  <2>3. TablesOK' /\ inflight' \in [Keys -> Nat]
    BY <1>14, <2>1, HandleReqType, ZenonT(60) DEF PollReq
  <2>4. batch' \in 0..(Batch - 1)
    BY <1>14, ResolverAssumption, SMTT(30) DEF PollReq, TypeOK
  <2> QED
    BY <1>14, <2>1, <2>3, <2>4, Zenon DEF PollReq, TypeOK, TablesOK
<1>15. CASE PollReqEmpty \/ NextRound
  <2>1. batch' \in 0..(Batch - 1)
    BY <1>15, ResolverAssumption, SMTT(30) DEF PollReqEmpty, NextRound
  <2> QED
    BY <1>15, <2>1, Zenon DEF PollReqEmpty, NextRound, TypeOK, Places, Sources
<1>16. CASE UNCHANGED vars
  BY <1>16, Zenon DEF vars, TypeOK
<1> QED
  BY <1>1, <1>2, <1>3, <1>4, <1>5, <1>6, <1>7, <1>8, <1>9, <1>10, <1>11,
     <1>12, <1>13, <1>14, <1>15, <1>16, Zenon DEF Next, poll_loop

(* The variables always hold values of their Rust types: no deadline       *)
(* underflows and no channel carries anything but its messages.            *)
THEOREM TypeCorrect == Spec => []TypeOK
BY TypeInit, TypeNext, PTL DEF Spec

-----------------------------------------------------------------------------
(* The inductive invariant.  Between OneQueryPerKey, TablesAgree,          *)
(* NoLostJob and NoLostWakeup stand facts that only hold within the loop,  *)
(* or that only matter to the next conjunct.                               *)

(* The driver is there from the first poll on.                             *)
Spawned == pc \notin {"idle", "exited"} => driver

(* Clients wait only for keys that are being queried.                      *)
Waiting == \A k \in Keys : waiters[k] # {} => k \in doing

(* A response is the latest version of its key.                            *)
Responses == \A m \in rspq : Present(m.rec) /\ m.rec.ver = ver[m.key]

(* Nothing that can still be served is older than what has been served.    *)
Fresh(k, r) == Present(r) => told[k] <= r.ver /\ r.ver <= ver[k]

Versions ==
  \A k \in Keys :
    told[k] <= ver[k] /\ Fresh(k, cache[k]) /\ Fresh(k, trash[k])

(* What the loop has already polled empty stays so until it parks, or the  *)
(* task has been scheduled again.                                          *)
Parked ==
  /\ pc \in {"expired", "req"} => rspq = {} /\ "rsp" \in armed
  /\ pc = "req" /\ ~woken =>
       "timer" \in armed /\ \A k \in queued : at[k] > 0
  /\ NoLostWakeup

IInv ==
  /\ TypeOK /\ Spawned /\ OneQueryPerKey /\ Waiting /\ Responses
  /\ TablesAgree /\ Versions /\ NoLostJob /\ Parked

(* The steps that can disturb the tables, and what all the others keep.    *)
LEMMA Steps ==
  ASSUME [Next]_vars
  PROVE  \/ UNCHANGED <<rspq, tables, drv, told>>
         \/ \E k \in Keys : DriverAnswer(k)
         \/ Tick \/ Dropped \/ PollEnter \/ PollRsp \/ PollExpired \/ PollReq
<1> USE DEF loop, wakers
<1>1. ASSUME NEW j \in Jobs, NEW k \in Keys, Get(j, k)
      PROVE  UNCHANGED <<rspq, tables, drv, told>>
  BY <1>1, Zenon DEF Get
<1>2. ASSUME NEW j \in Jobs, Abandon(j)
      PROVE  UNCHANGED <<rspq, tables, drv, told>>
  BY <1>2, Zenon DEF Abandon
<1>3. CASE UpdateConfig \/ Shutdown \/ Joined
  BY <1>3, Zenon DEF UpdateConfig, Shutdown, Joined
<1>4. CASE PollCtlEmpty \/ handle_cmd \/ PollRspEmpty
  BY <1>4, Zenon DEF PollCtlEmpty, handle_cmd, PollRspEmpty
<1>5. CASE PollExpiredNone \/ PollReqEmpty \/ NextRound
  BY <1>5, Zenon DEF PollExpiredNone, PollReqEmpty, NextRound
<1>6. CASE SpawnFails \/ PollQuit
  BY <1>6, Zenon DEF SpawnFails, PollQuit
<1>7. CASE UNCHANGED vars
  BY <1>7, Zenon DEF vars
<1> QED
  BY <1>1, <1>2, <1>3, <1>4, <1>5, <1>6, <1>7, Zenon DEF Next, poll_loop

(* Only the entry of poll_loop starts a round, and it spawns the driver.   *)
LEMMA SpawnedNext == TypeOK /\ Spawned /\ [Next]_vars => Spawned'
<1> SUFFICES ASSUME TypeOK, Spawned, [Next]_vars PROVE Spawned'
  BY Zenon
<1> USE DEF loop, Spawned
<1>1. CASE UNCHANGED loop
  BY <1>1, Zenon
<1>2. CASE Dropped
  BY <1>2, Zenon DEF Dropped
<1>3. CASE PollEnter
  BY <1>3, Zenon DEF PollEnter
<1>4. CASE PollCtlEmpty \/ handle_cmd \/ PollRspEmpty \/ PollExpiredNone
  BY <1>4, Zenon DEF PollCtlEmpty, handle_cmd, PollRspEmpty, PollExpiredNone
<1>5. CASE PollReq \/ PollReqEmpty \/ NextRound
  BY <1>5, Zenon DEF PollReq, PollReqEmpty, NextRound
<1>6. [Next]_vars => \/ UNCHANGED loop \/ Dropped \/ PollEnter
                     \/ PollCtlEmpty \/ handle_cmd \/ PollRspEmpty
                     \/ PollExpiredNone \/ PollReq \/ PollReqEmpty \/ NextRound
  BY Zenon DEF Next, poll_loop, vars, Get, Abandon, UpdateConfig, Shutdown, Joined,
         DriverAnswer, Tick, SpawnFails, PollQuit, PollRsp, PollExpired
<1> QED
  BY <1>1, <1>2, <1>3, <1>4, <1>5, <1>6, Zenon

(* What handle_req does to the query under way for its key.                *)
LEMMA ReqStarts ==
  ASSUME TypeOK, driver, NEW j \in Jobs, NEW k \in Keys, handle_req(j, k)
  PROVE  \/ UNCHANGED <<doing, inflight>>
         \/ /\ k \notin doing /\ doing' = doing \cup {k}
            /\ inflight' = [inflight EXCEPT ![k] = @ + 1]
<1>1. CASE ReqCached(j, k)
  BY <1>1, Zenon DEF ReqCached, tables
<1>2. CASE ReqTrashed(j, k)
  BY <1>2, Zenon DEF ReqTrashed, StartQuery
<1>3. CASE ReqQueried(j, k)
  BY <1>3, Zenon DEF ReqQueried, StartQuery
<1> QED
  BY <1>1, <1>2, <1>3, ZenonT(60) DEF handle_req

(* Every step keeps one query for each key of doing.                       *)
LEMMA OneQueryNext ==
  ASSUME TypeOK, Spawned, OneQueryPerKey, [Next]_vars
  PROVE  OneQueryPerKey'
<1>1. /\ inflight \in [Keys -> Nat] /\ doing \subseteq Keys
      /\ rspq \subseteq [key : Keys, rec : Rec]
  BY Zenon DEF TypeOK
<1>2. CASE UNCHANGED <<rspq, tables, drv, told>>
  BY <1>2, ZenonT(60) DEF OneQueryPerKey, tables, drv
<1>3. ASSUME NEW k \in Keys, DriverAnswer(k) PROVE OneQueryPerKey'
  <2>1. PICK r : rspq' = rspq \cup {[key |-> k, rec |-> r]}
    BY <1>3, Zenon DEF DriverAnswer
  <2>2. /\ inflight[k] = 1 /\ inflight' = [inflight EXCEPT ![k] = 0]
        /\ doing' = doing
    <3>1. inflight[k] > 0 /\ inflight[k] <= 1
      BY <1>3, Zenon DEF DriverAnswer, OneQueryPerKey
    <3>2. inflight[k] = 1
      BY <1>1, <3>1
    <3>3. /\ inflight' = [inflight EXCEPT ![k] = inflight[k] - 1]
          /\ doing' = doing
      BY <1>3, Zenon DEF DriverAnswer, tables
    <3> QED
      BY <3>2, <3>3
  <2>3. \A m \in rspq : m.key # k
    BY <2>2 DEF OneQueryPerKey
  <2>4. \A m \in rspq' : m \in rspq \/ m = [key |-> k, rec |-> r]
    BY <2>1, Zenon
  <2>5. /\ \A l \in Keys : inflight'[l] <= 1
        /\ \A m \in rspq' : inflight'[m.key] = 0
    BY <1>1, <2>2, <2>4, SMTT(30) DEF OneQueryPerKey
  <2>6. \A m, n \in rspq' : m.key = n.key => m = n
    BY <2>3, <2>4 DEF OneQueryPerKey
  <2>7. \E m \in rspq' : m.key = k
    <3>1. [key |-> k, rec |-> r] \in rspq' /\ [key |-> k, rec |-> r].key = k
      BY <2>1, Zenon
    <3> QED
      BY <3>1, Zenon
  <2>8. ASSUME NEW l \in Keys
        PROVE  l \in doing' <=> inflight'[l] = 1 \/ \E m \in rspq' : m.key = l
    <3>1. CASE l = k
      BY <1>1, <2>2, <2>7, <3>1, Zenon DEF OneQueryPerKey
    <3>2. CASE l # k
      <4>1. (\E m \in rspq' : m.key = l) <=> \E m \in rspq : m.key = l
        BY <2>1, <2>4, <3>2
      <4>2. inflight'[l] = inflight[l]
        BY <1>1, <2>2, <3>2, Zenon
      <4> QED
        BY <2>2, <4>1, <4>2, Zenon DEF OneQueryPerKey
    <3> QED
      BY <3>1, <3>2, Zenon
  <2> QED
    BY <2>5, <2>6, <2>8, ZenonT(60) DEF OneQueryPerKey
<1>4. CASE Tick
  <2>1. /\ inflight' = inflight /\ doing' = doing
        /\ rspq' = {[key |-> m.key, rec |-> Aged(m.rec)] : m \in rspq}
    BY <1>4, ZenonT(60) DEF Tick, drv
  <2>2. \A n \in rspq' : \E m \in rspq :
          n.key = m.key /\ n = [key |-> m.key, rec |-> Aged(m.rec)]
    BY <2>1
  <2>3. ASSUME NEW m \in rspq PROVE \E n \in rspq' : n.key = m.key
    <3> DEFINE n == [key |-> m.key, rec |-> Aged(m.rec)]
    <3>1. n \in rspq' /\ n.key = m.key
      BY <2>1, ZenonT(60)
    <3> QED
      BY <3>1, Zenon
  <2> QED
    BY <2>1, <2>2, <2>3, SMTT(30) DEF OneQueryPerKey
<1>5. CASE Dropped
  <2>1. doing' = {} /\ rspq' = {} /\ inflight' = [k \in Keys |-> 0]
    BY <1>5, Zenon DEF Dropped
  <2> QED
    BY <2>1 DEF OneQueryPerKey
<1>6. CASE PollEnter \/ PollExpired
  BY <1>6, ZenonT(60) DEF PollEnter, PollExpired, handle_expired, OneQueryPerKey, drv
<1>7. CASE PollRsp
  <2>1. PICK m \in rspq : rspq' = rspq \ {m} /\ handle_rsp(m.key, m.rec)
    BY <1>7, Zenon DEF PollRsp
  <2>2. doing' = doing \ {m.key} /\ inflight' = inflight
    BY <1>7, <2>1, Zenon DEF PollRsp, handle_rsp, RspTrashed, RspCached, drv
  <2> QED
    BY <1>1, <2>1, <2>2 DEF OneQueryPerKey
<1>8. CASE PollReq
  <2> DEFINE j == Head(reqq).job
             k == Head(reqq).key
  <2>1. j \in Jobs /\ k \in Keys
    BY <1>8, ReqHead, Zenon
  <2>2. driver /\ handle_req(j, k) /\ rspq' = rspq
    BY <1>8, Zenon DEF PollReq, Spawned
  <2>3. CASE UNCHANGED <<doing, inflight>>
    BY <2>2, <2>3, ZenonT(60) DEF OneQueryPerKey
  <2>4. CASE /\ k \notin doing /\ doing' = doing \cup {k}
             /\ inflight' = [inflight EXCEPT ![k] = @ + 1]
    <3>1. inflight[k] = 0 /\ \A m \in rspq : m.key # k
      BY <1>1, <2>1, <2>4, SMTT(30) DEF OneQueryPerKey
    <3>2. inflight' = [inflight EXCEPT ![k] = 1]
      BY <3>1, <2>4
    <3> HIDE DEF j, k
    <3> QED
      BY <1>1, <2>1, <2>2, <2>4, <3>1, <3>2, SMTT(30) DEF OneQueryPerKey
  <2> QED
    BY <2>1, <2>2, <2>3, <2>4, ReqStarts, ZenonT(60)
<1> QED
  BY <1>2, <1>3, <1>4, <1>5, <1>6, <1>7, <1>8, Steps, Zenon


(* What the two handlers do to the entries of their key.                   *)
LEMMA ReqEffect ==
  ASSUME TypeOK, NEW j \in Jobs, NEW k \in Keys, handle_req(j, k)
  PROVE  /\ UNCHANGED <<cache, trash, queued, at>>
         /\ \/ UNCHANGED <<doing, waiters>>
            \/ /\ doing' = doing \cup {k} /\ ~Present(cache[k])
               /\ UNCHANGED waiters
            \/ /\ doing' = doing \cup {k} /\ ~Present(cache[k])
               /\ ~Present(trash[k])
               /\ waiters' = [waiters EXCEPT ![k] = @ \cup {j}]
<1>1. CASE Present(cache[k])
  BY <1>1, Zenon DEF handle_req, ReqCached, tables
<1>2. CASE ~Present(cache[k]) /\ Present(trash[k])
  BY <1>2, Zenon DEF handle_req, ReqTrashed
<1>3. CASE ~Present(cache[k]) /\ ~Present(trash[k])
  BY <1>3, Zenon DEF handle_req, ReqQueried
<1> QED
  BY <1>1, <1>2, <1>3, Zenon

(* What a response does to the entries of a key.                           *)
LEMMA RspEffect ==
  ASSUME TypeOK, NEW k \in Keys, NEW r \in Rec, handle_rsp(k, r)
  PROVE  /\ doing' = doing \ {k} /\ waiters' = [waiters EXCEPT ![k] = {}]
         /\ \/ UNCHANGED <<cache, trash, queued, at>> /\ Present(trash[k])
            \/ /\ cache' = [cache EXCEPT ![k] = r] /\ queued' = queued \cup {k}
               /\ at' = [at EXCEPT ![k] = r.expire]
               /\ ~Present(trash'[k])
               /\ \A l \in Keys \ {k} : trash'[l] = trash[l]
<1>1. CASE ~Acceptable(r) /\ Present(trash[k])
  BY <1>1, Zenon DEF handle_rsp, RspTrashed
<1>2. CASE Acceptable(r)
  BY <1>2, SMTT(30) DEF handle_rsp, RspCached, update_cache, TypeOK, Present, NoRec
<1>3. CASE ~Acceptable(r) /\ ~Present(trash[k])
  BY <1>3, Zenon DEF handle_rsp, RspCached, update_cache
<1> QED
  BY <1>1, <1>2, <1>3, Zenon

(* Every step keeps clients waiting only where a query is under way.       *)
LEMMA WaitingNext ==
  ASSUME TypeOK, Waiting, [Next]_vars
  PROVE  Waiting'
<1>1. waiters \in [Keys -> SUBSET Jobs]
  BY Zenon DEF TypeOK
<1>2. CASE UNCHANGED <<waiters, doing>>
  BY <1>2, Zenon DEF Waiting
<1>3. CASE Dropped
  BY <1>3, Zenon DEF Dropped, Waiting
<1>4. CASE PollRsp
  <2>1. PICK m \in rspq : handle_rsp(m.key, m.rec)
    BY <1>4, Zenon DEF PollRsp
  <2>2. m.key \in Keys /\ m.rec \in Rec
    BY <2>1, Zenon DEF TypeOK
  <2>3. /\ doing' = doing \ {m.key}
        /\ waiters' = [waiters EXCEPT ![m.key] = {}]
    BY <2>1, <2>2, RspEffect, Zenon
  <2> QED
    BY <1>1, <2>2, <2>3, Zenon DEF Waiting
<1>5. CASE PollReq
  <2> DEFINE j == Head(reqq).job
             k == Head(reqq).key
  <2>1. j \in Jobs /\ k \in Keys /\ handle_req(j, k)
    BY <1>5, ReqHead, Zenon DEF PollReq
  <2>2. \/ UNCHANGED <<doing, waiters>>
        \/ doing' = doing \cup {k} /\ UNCHANGED waiters
        \/ /\ doing' = doing \cup {k}
           /\ waiters' = [waiters EXCEPT ![k] = @ \cup {j}]
    BY <2>1, ReqEffect, Zenon
  <2> HIDE DEF j, k
  <2> QED
    BY <1>1, <2>1, <2>2, Zenon DEF Waiting
<1> QED
  BY <1>2, <1>3, <1>4, <1>5, Steps, Zenon
  DEF tables, DriverAnswer, Tick, PollEnter, PollExpired, handle_expired

(* Every step keeps responses at the latest version.                       *)
LEMMA ResponsesNext ==
  ASSUME TypeOK, OneQueryPerKey, Responses, [Next]_vars
  PROVE  Responses'
<1>1. rspq \subseteq [key : Keys, rec : Rec] /\ ver \in [Keys -> Nat]
  BY Zenon DEF TypeOK
<1>2. CASE rspq' \subseteq rspq /\ UNCHANGED ver
  BY <1>2, Zenon DEF Responses
<1>3. ASSUME NEW k \in Keys, DriverAnswer(k) PROVE Responses'
  <2> DEFINE v == NextVer(ver[k])
  <2>1. PICK r \in Answers(v) : rspq' = rspq \cup {[key |-> k, rec |-> r]}
    BY <1>3, Zenon DEF DriverAnswer
  <2>2. ver' = [ver EXCEPT ![k] = v]
    BY <1>3, Zenon DEF DriverAnswer
  <2>3. Present(r) /\ r.ver = v
    BY <2>1 DEF Answers, Resolved, Empty, Failed, Present
  <2>4. inflight[k] # 0
    <3>1. inflight[k] \in Nat /\ inflight[k] > 0
      BY <1>3, Zenon DEF DriverAnswer, TypeOK
    <3> QED
      BY <3>1
  <2>5. \A m \in rspq : m.key # k
    BY <2>4, Zenon DEF OneQueryPerKey
  <2> HIDE DEF v
  <2> QED
    BY <1>1, <2>1, <2>2, <2>3, <2>5, SMTT(30) DEF Responses
<1>4. CASE Tick
  <2>1. /\ ver' = ver
        /\ rspq' = {[key |-> m.key, rec |-> Aged(m.rec)] : m \in rspq}
    BY <1>4, Zenon DEF Tick, drv
  <2> QED
    BY <2>1 DEF Responses, Aged, Present
<1>5. CASE Dropped
  BY <1>5, Zenon DEF Dropped, Responses
<1> QED
  BY <1>2, <1>3, <1>4, <1>5, Steps, Zenon
  DEF drv, PollEnter, PollRsp, PollExpired, PollReq

(* Every step keeps the tables in agreement.                               *)
LEMMA TablesNext ==
  ASSUME TypeOK, OneQueryPerKey, Waiting, Responses, TablesAgree, [Next]_vars
  PROVE  TablesAgree'
<1>1. /\ doing \subseteq Keys /\ waiters \in [Keys -> SUBSET Jobs]
      /\ cache \in [Keys -> Rec] /\ trash \in [Keys -> Rec]
      /\ queued \subseteq Keys /\ at \in [Keys -> Nat]
  BY Zenon DEF TypeOK
<1>2. CASE UNCHANGED tables
  BY <1>2, Zenon DEF TablesAgree, tables
<1>3. CASE Tick
  <2>1. /\ doing' = doing /\ queued' = queued /\ waiters' = waiters
        /\ cache' = [k \in Keys |-> Aged(cache[k])]
        /\ trash' = [k \in Keys |-> Aged(trash[k])]
        /\ at' = [k \in Keys |-> Less(at[k])]
    BY <1>3, Zenon DEF Tick
  <2>2. ASSUME NEW k \in Keys
        PROVE  /\ Present(cache'[k]) <=> Present(cache[k])
               /\ Present(trash'[k]) <=> Present(trash[k])
               /\ cache'[k].expire = Less(cache[k].expire)
               /\ at'[k] = Less(at[k])
    BY <2>1, Zenon DEF Aged, Present
  <2> QED
    BY <2>1, <2>2, ZenonT(60) DEF TablesAgree
<1>4. CASE Dropped
  BY <1>4, Zenon DEF Dropped, TablesAgree, Present, NoRec
<1>5. CASE PollEnter
  <2>1. /\ doing' = doing /\ queued' = queued /\ waiters' = waiters
        /\ cache' = cache /\ at' = at
    BY <1>5, Zenon DEF PollEnter
  <2>2. \A k \in Keys : Present(trash'[k]) => Present(trash[k])
    BY <1>5, Zenon DEF PollEnter, clean_trash, Present, NoRec
  <2> QED
    BY <2>1, <2>2, Zenon DEF TablesAgree
<1>6. CASE PollRsp
  <2>1. PICK m \in rspq : handle_rsp(m.key, m.rec)
    BY <1>6, Zenon DEF PollRsp
  <2> DEFINE k == m.key
             r == m.rec
  <2>2. k \in Keys /\ r \in Rec /\ Present(r)
    BY <2>1, Zenon DEF TypeOK, Responses
  <2>3. /\ doing' = doing \ {k} /\ waiters' = [waiters EXCEPT ![k] = {}]
        /\ \/ UNCHANGED <<cache, trash, queued, at>> /\ Present(trash[k])
           \/ /\ cache' = [cache EXCEPT ![k] = r] /\ queued' = queued \cup {k}
              /\ at' = [at EXCEPT ![k] = r.expire]
              /\ ~Present(trash'[k])
              /\ \A l \in Keys \ {k} : trash'[l] = trash[l]
    BY <2>1, <2>2, RspEffect, Zenon
  <2> HIDE DEF k, r
  <2> QED
    BY <1>1, <2>2, <2>3 DEF TablesAgree
<1>7. CASE PollExpired
  <2>1. PICK k \in queued : handle_expired(k)
    BY <1>7, Zenon DEF PollExpired
  <2>2. k \in Keys /\ waiters[k] = {}
    BY <1>1, Zenon DEF TablesAgree, Waiting
  <2> QED
    BY <1>1, <2>1, <2>2, Zenon DEF handle_expired, TablesAgree, Present, NoRec
<1>8. CASE PollReq
  <2> DEFINE j == Head(reqq).job
             k == Head(reqq).key
  <2>1. j \in Jobs /\ k \in Keys /\ handle_req(j, k)
    BY <1>8, ReqHead, Zenon DEF PollReq
  <2>2. /\ UNCHANGED <<cache, trash, queued, at>>
        /\ \/ UNCHANGED <<doing, waiters>>
           \/ /\ doing' = doing \cup {k} /\ ~Present(cache[k])
              /\ UNCHANGED waiters
           \/ /\ doing' = doing \cup {k} /\ ~Present(cache[k])
              /\ ~Present(trash[k])
              /\ waiters' = [waiters EXCEPT ![k] = @ \cup {j}]
    BY <2>1, ReqEffect, Zenon
  <2> HIDE DEF j, k
  <2> QED
    BY <1>1, <2>1, <2>2, ZenonT(60) DEF TablesAgree
<1> QED
  BY <1>2, <1>3, <1>4, <1>5, <1>6, <1>7, <1>8, Steps, Zenon DEF DriverAnswer

(* Every step keeps each unanswered client known.                          *)
LEMMA NoLostJobNext ==
  ASSUME TypeOK, NoLostJob, [Next]_vars
  PROVE  NoLostJob'
<1> USE DEF loop, wakers, tables, drv
<1> DEFINE Asked(j) == \E i \in 1..Len(reqq) : reqq[i].job = j
           Joins(j) == \E k \in doing : j \in waiters[k]
<1>1. /\ reqq \in Seq([job : Jobs, key : Keys])
      /\ job \in [Jobs -> {"idle", "waiting", "abandoned"}]
      /\ doing \subseteq Keys /\ waiters \in [Keys -> SUBSET Jobs]
  BY Zenon DEF TypeOK
<1>2. CASE UNCHANGED <<reqq, job, doing, waiters>>
  BY <1>2, Zenon DEF NoLostJob
<1>3. ASSUME NEW j \in Jobs, NEW k \in Keys, Get(j, k) PROVE NoLostJob'
  <2>1. /\ reqq' = Append(reqq, [job |-> j, key |-> k])
        /\ job' = [job EXCEPT ![j] = "waiting"]
        /\ doing' = doing /\ waiters' = waiters
    BY <1>3, Zenon DEF Get
  <2>2. reqq'[Len(reqq')].job = j /\ Len(reqq') \in 1..Len(reqq')
    BY <1>1, <2>1, SMTT(30)
  <2>3. \A i \in 1..Len(reqq) : i \in 1..Len(reqq') /\ reqq'[i] = reqq[i]
    BY <1>1, <2>1
  <2>4. ASSUME NEW l \in Jobs, job'[l] # "idle" PROVE Asked(l)' \/ Joins(l)'
    BY <1>1, <2>1, <2>2, <2>3, <2>4, ZenonT(60) DEF NoLostJob
  <2> QED
    BY <2>4, Zenon DEF NoLostJob
<1>4. ASSUME NEW j \in Jobs, Abandon(j) PROVE NoLostJob'
  BY <1>1, <1>4, ZenonT(60) DEF Abandon, NoLostJob
<1>5. CASE Dropped
  BY <1>5, Zenon DEF Dropped, NoLostJob
<1>6. CASE PollRsp
  <2>1. PICK m \in rspq : handle_rsp(m.key, m.rec)
    BY <1>6, Zenon DEF PollRsp
  <2> DEFINE k == m.key
  <2>2. k \in Keys /\ m.rec \in Rec
    BY <2>1, Zenon DEF TypeOK
  <2>3. doing' = doing \ {k} /\ waiters' = [waiters EXCEPT ![k] = {}]
    BY <2>1, <2>2, RspEffect, Zenon
  <2>4. /\ job' = [j \in Jobs |-> IF j \in waiters[k] THEN "idle" ELSE job[j]]
        /\ reqq' = reqq
    BY <1>6, <2>1, ZenonT(60) DEF PollRsp, handle_rsp, RspTrashed, RspCached, SendTo
  <2> HIDE DEF k
  <2> QED
    BY <1>1, <2>2, <2>3, <2>4, Zenon DEF NoLostJob
<1>7. CASE PollReq
  <2> DEFINE h == Head(reqq).job
             k == Head(reqq).key
  <2>1. /\ h \in Jobs /\ k \in Keys /\ handle_req(h, k)
        /\ reqq # <<>> /\ reqq' = Tail(reqq)
    BY <1>7, ReqHead, ZenonT(60) DEF PollReq
  <2>2. ASSUME NEW j \in Jobs, j # h, Asked(j) PROVE Asked(j)'
    <3>1. PICK i \in 1..Len(reqq) : reqq[i].job = j
      BY <2>2, Zenon
    <3>2. i # 1
      BY <1>1, <2>1, <2>2, <3>1, SMTT(30)
    <3>3. i \in 2..Len(reqq)
      BY <1>1, <3>2
    <3>4. reqq'[i - 1] = reqq[i] /\ Len(reqq') = Len(reqq) - 1
      BY <1>1, <2>1, <3>3, HeadTail, Zenon
    <3>5. i - 1 \in 1..Len(reqq')
      BY <1>1, <3>3, <3>4, SMTT(30)
    <3> QED
      BY <3>1, <3>4, <3>5, Zenon
  <2>3. \/ /\ job' = [j \in Jobs |-> IF j \in {h} THEN "idle" ELSE job[j]]
           /\ doing \subseteq doing' /\ UNCHANGED waiters
        \/ /\ doing' = doing \cup {k} /\ UNCHANGED job
           /\ waiters' = [waiters EXCEPT ![k] = @ \cup {h}]
    BY <2>1, Zenon DEF handle_req, ReqCached, ReqTrashed, ReqQueried, SendTo
  <2> HIDE DEF h, k
  <2>4. ASSUME NEW j \in Jobs, job'[j] # "idle" PROVE Asked(j)' \/ Joins(j)'
    <3>1. j # h => job[j] # "idle"
      BY <1>1, <2>3, <2>4, Zenon
    <3>2. j # h /\ Joins(j) => Joins(j)'
      BY <1>1, <2>3, Zenon
    <3>3. j = h => Joins(j)'
      BY <1>1, <2>1, <2>3, <2>4, Zenon
    <3>4. j # h => Asked(j) \/ Joins(j)
      BY <3>1, ZenonT(60) DEF NoLostJob
    <3> QED
      BY <2>2, <3>2, <3>3, <3>4, Zenon
  <2> QED
    BY <2>4, Zenon DEF NoLostJob
<1>8. [Next]_vars => \/ UNCHANGED <<reqq, job, doing, waiters>>
                     \/ \E j \in Jobs, k \in Keys : Get(j, k)
                     \/ \E j \in Jobs : Abandon(j)
                     \/ Dropped \/ PollRsp \/ PollReq
  BY Zenon DEF Next, poll_loop, vars, UpdateConfig, Shutdown, Joined, DriverAnswer,
         Tick, SpawnFails, PollQuit, PollEnter, PollCtlEmpty, handle_cmd,
         PollRspEmpty, PollExpired, handle_expired, PollExpiredNone,
         PollReqEmpty, NextRound
<1> QED
  BY <1>2, <1>3, <1>4, <1>5, <1>6, <1>7, <1>8, Zenon

(* Versions is kept, and told only grows.                                  *)
LEMMA VersionsNext ==
  ASSUME TypeOK, OneQueryPerKey, Responses, TablesAgree, Versions, [Next]_vars
  PROVE  Versions' /\ \A k \in Keys : told'[k] >= told[k]
<1>1. /\ cache \in [Keys -> Rec] /\ trash \in [Keys -> Rec]
      /\ ver \in [Keys -> Nat] /\ told \in [Keys -> Nat]
      /\ rspq \subseteq [key : Keys, rec : Rec]
  BY Zenon DEF TypeOK
<1> DEFINE Goal == Versions' /\ \A k \in Keys : told'[k] >= told[k]
<1>2. CASE UNCHANGED <<cache, trash, ver, told>>
  BY <1>1, <1>2, SMTT(30) DEF Versions, Fresh
<1>3. ASSUME NEW k \in Keys, DriverAnswer(k) PROVE Goal
  <2>1. /\ ver' = [ver EXCEPT ![k] = NextVer(ver[k])]
        /\ UNCHANGED <<cache, trash, told>>
    BY <1>3, Zenon DEF DriverAnswer, tables
  <2>2. \A l \in Keys : ver[l] <= ver'[l] /\ ver'[l] \in Nat
    BY <1>1, <2>1, NextVerType
  <2>3. \A l \in Keys : cache[l].ver \in Nat /\ trash[l].ver \in Nat
    BY <1>1, Zenon DEF Rec
  <2> QED
    BY <1>1, <2>1, <2>2, <2>3, SMTT(30) DEF Versions, Fresh
<1>4. CASE Tick
  <2>1. /\ cache' = [k \in Keys |-> Aged(cache[k])]
        /\ trash' = [k \in Keys |-> Aged(trash[k])]
        /\ ver' = ver /\ told' = told
    BY <1>4, Zenon DEF Tick, drv
  <2>2. \A k \in Keys : /\ cache'[k].st = cache[k].st /\ cache'[k].ver = cache[k].ver
                        /\ trash'[k].st = trash[k].st /\ trash'[k].ver = trash[k].ver
    BY <2>1, Zenon DEF Aged
  <2>3. \A k \in Keys : told'[k] \in Nat /\ told'[k] = told[k] /\ ver'[k] = ver[k]
    BY <1>1, <2>1, Zenon
  <2>4. Versions'
    BY <2>2, <2>3, ZenonT(60) DEF Versions, Fresh, Present
  <2> QED
    BY <2>3, <2>4
<1>5. CASE Dropped
  BY <1>1, <1>5 DEF Dropped, Versions, Fresh, Present, NoRec
<1>6. CASE PollEnter
  <2>1. /\ \A k \in Keys : trash'[k] = NoRec \/ trash'[k] = trash[k]
        /\ cache' = cache /\ ver' = ver /\ told' = told
    BY <1>6, ZenonT(60) DEF PollEnter, clean_trash, drv
  <2> QED
    BY <1>1, <2>1 DEF Versions, Fresh, Present, NoRec
<1>7. CASE PollRsp
  <2>1. PICK m \in rspq : handle_rsp(m.key, m.rec)
    BY <1>7, Zenon DEF PollRsp
  <2> DEFINE k == m.key
             r == m.rec
  <2>2. /\ k \in Keys /\ r \in Rec /\ r.ver = ver[k] /\ ver' = ver
        /\ k \in doing
    BY <1>7, <2>1, Zenon DEF PollRsp, drv, TypeOK, Responses, OneQueryPerKey
  <2>3. ~Present(cache[k])
    BY <2>2, ZenonT(60) DEF TablesAgree
  <2>4. /\ \/ UNCHANGED <<cache, trash, queued, at>> /\ Present(trash[k])
           \/ /\ cache' = [cache EXCEPT ![k] = r] /\ queued' = queued \cup {k}
              /\ at' = [at EXCEPT ![k] = r.expire]
              /\ ~Present(trash'[k])
              /\ \A l \in Keys \ {k} : trash'[l] = trash[l]
    BY <2>1, <2>2, RspEffect, Zenon
  <2>5. \/ told' = told
        \/ Present(trash[k]) /\ told' = [told EXCEPT ![k] = trash[k].ver]
           /\ UNCHANGED <<cache, trash>>
        \/ told' = [told EXCEPT ![k] = r.ver] /\ cache' = [cache EXCEPT ![k] = r]
           /\ ~Present(trash'[k])
    BY <1>1, <2>1, <2>2, SMTT(30)
    DEF handle_rsp, RspTrashed, RspCached, update_cache, SendTo, Present, NoRec
  <2>6. trash[k].ver \in Nat
    BY <1>1, <2>2, Zenon DEF Rec
  <2> HIDE DEF k, r
  <2> QED
    BY <1>1, <2>2, <2>3, <2>4, <2>5, <2>6, SMTT(30) DEF Versions, Fresh
<1>8. CASE PollExpired
  <2>1. PICK k \in queued : handle_expired(k)
    BY <1>8, Zenon DEF PollExpired
  <2>2. k \in Keys /\ ver' = ver /\ told' = told
    BY <1>8, <2>1, Zenon DEF PollExpired, TypeOK, drv
  <2> QED
    BY <1>1, <2>1, <2>2 DEF handle_expired, Versions, Fresh, Present, NoRec
<1>9. CASE PollReq
  <2> DEFINE j == Head(reqq).job
             k == Head(reqq).key
  <2>1. j \in Jobs /\ k \in Keys /\ handle_req(j, k) /\ ver' = ver
    BY <1>9, ReqHead, ZenonT(60) DEF PollReq
  <2>2. UNCHANGED <<cache, trash>>
    BY <2>1, ReqEffect, Zenon
  <2>3. \/ told' = told
        \/ Present(cache[k]) /\ told' = [told EXCEPT ![k] = cache[k].ver]
        \/ /\ ~Present(cache[k]) /\ Present(trash[k])
           /\ told' = [told EXCEPT ![k] = trash[k].ver]
    BY <2>1, ZenonT(60) DEF handle_req, ReqCached, ReqTrashed, ReqQueried, SendTo
  <2>4. Present(cache[k]) => ~Present(trash[k])
    BY <2>1, Zenon DEF TablesAgree
  <2>5. trash[k].ver \in Nat /\ cache[k].ver \in Nat
    BY <1>1, <2>1, Zenon DEF Rec
  <2> HIDE DEF j, k
  <2> QED
    BY <1>1, <2>1, <2>2, <2>3, <2>4, <2>5, SMTT(30) DEF Versions, Fresh
<1> QED
  BY <1>2, <1>3, <1>4, <1>5, <1>6, <1>7, <1>8, <1>9, Steps, ZenonT(60) DEF tables, drv

(* Every step keeps the wakers where the loop needs them.                  *)
LEMMA ParkedNext ==
  ASSUME TypeOK, Parked, [Next]_vars
  PROVE  Parked'
<1> USE DEF loop, wakers, tables, drv, Parked, NoLostWakeup
<1>1. /\ at \in [Keys -> Nat] /\ queued \subseteq Keys
      /\ pc \in Places
  BY Zenon DEF TypeOK
<1>2. ASSUME NEW j \in Jobs, NEW k \in Keys, Get(j, k) PROVE Parked'
  BY <1>2, Zenon DEF Get, Wake
<1>3. ASSUME NEW j \in Jobs, Abandon(j) PROVE Parked'
  BY <1>3, Zenon DEF Abandon
<1>4. CASE UpdateConfig \/ Shutdown \/ Joined
  BY <1>4, Zenon DEF UpdateConfig, Shutdown, Joined, Wake
<1>5. ASSUME NEW k \in Keys, DriverAnswer(k) PROVE Parked'
  BY <1>5, Zenon DEF DriverAnswer, Wake
<1>6. CASE Tick
  <2>1. /\ UNCHANGED <<pc, reqq, queued>>
        /\ at' = [k \in Keys |-> Less(at[k])]
        /\ rspq = {} => rspq' = {}
    BY <1>6, ZenonT(60) DEF Tick
  <2>2. CASE \E k \in queued : Less(at[k]) = 0
    <3>1. Wake("timer")
      BY <1>6, <2>2, ZenonT(60) DEF Tick
    <3> QED
      BY <2>1, <3>1, Zenon DEF Wake
  <2>3. CASE ~\E k \in queued : Less(at[k]) = 0
    <3>1. UNCHANGED wakers
      BY <1>6, <2>3, ZenonT(60) DEF Tick
    <3>2. \A k \in queued : at'[k] > 0
      BY <1>1, <2>1, <2>3, SMTT(30) DEF Less
    <3> QED
      BY <2>1, <3>1, <3>2, Zenon
  <2> QED
    BY <2>2, <2>3, Zenon
<1>7. CASE Dropped
  BY <1>7, Zenon DEF Dropped
<1>8. CASE PollEnter \/ PollCtlEmpty \/ handle_cmd \/ PollRsp
  BY <1>8, ZenonT(60) DEF PollEnter, PollCtlEmpty, handle_cmd, PollRsp
<1>9. CASE PollRspEmpty
  BY <1>9, Zenon DEF PollRspEmpty
<1>10. CASE PollExpired \/ PollExpiredNone
  BY <1>10, Zenon DEF PollExpired, PollExpiredNone
<1>11. CASE PollReq
  <2>1. UNCHANGED <<queued, at>>
    BY <1>11, ReqHead, ReqEffect, ZenonT(60) DEF PollReq
  <2> QED
    BY <1>11, <2>1, Zenon DEF PollReq
<1>12. CASE PollReqEmpty \/ NextRound
  BY <1>12, Zenon DEF PollReqEmpty, NextRound
<1>13. CASE UNCHANGED vars
  BY <1>13, Zenon DEF vars
<1> QED
  BY <1>2, <1>3, <1>4, <1>5, <1>6, <1>7, <1>8, <1>9, <1>10, <1>11, <1>12,
     <1>13, ZenonT(60) DEF Next, poll_loop, SpawnFails, PollQuit

(* The invariant holds at first.                                           *)
LEMMA IInvInit == Init => IInv
<1> SUFFICES ASSUME Init PROVE IInv
  BY Zenon
<1>1. TypeOK
  BY TypeInit, Zenon
<1>2. Spawned /\ Parked
  BY Zenon DEF Init, Spawned, Parked, NoLostWakeup
<1>3. OneQueryPerKey /\ Waiting /\ Responses
  BY SMTT(30) DEF Init, OneQueryPerKey, Waiting, Responses
<1>4. TablesAgree /\ Versions /\ NoLostJob
  BY SMTT(30) DEF Init, TablesAgree, Versions, Fresh, NoLostJob, Present, NoRec
<1> QED
  BY <1>1, <1>2, <1>3, <1>4, Zenon DEF IInv

(* Every step keeps the invariant.                                         *)
LEMMA IInvNext == IInv /\ [Next]_vars => IInv'
BY TypeNext, SpawnedNext, OneQueryNext, WaitingNext, ResponsesNext, TablesNext,
   VersionsNext, NoLostJobNext, ParkedNext, Zenon DEF IInv

(* The invariant holds always.                                             *)
LEMMA IInvAlways == Spec => []IInv
BY IInvInit, IInvNext, PTL DEF Spec

(* handle_rsp and handle_req never lose or double a query: each entry of   *)
(* doing_v4/doing_v6 has exactly one answer to come.                       *)
THEOREM OneQueryAlways == Spec => []OneQueryPerKey
<1>1. IInv => OneQueryPerKey
  BY Zenon DEF IInv
<1> QED
  BY <1>1, IInvAlways, PTL

(* The four tables of a key agree with each other at every step.           *)
THEOREM TablesAlwaysAgree == Spec => []TablesAgree
<1>1. IInv => TablesAgree
  BY Zenon DEF IInv
<1> QED
  BY <1>1, IInvAlways, PTL

(* No oneshot sender of a client is dropped without an answer while the    *)
(* runtime runs.                                                           *)
THEOREM NoJobIsLost == Spec => []NoLostJob
<1>1. IInv => NoLostJob
  BY Zenon DEF IInv
<1> QED
  BY <1>1, IInvAlways, PTL

(* poll_loop never returns Pending with a request, a response or a due     *)
(* record at hand, nor without a waker at the sources of the next one.     *)
THEOREM NoWakeupIsLost == Spec => []NoLostWakeup
<1>1. IInv => NoLostWakeup
  BY Zenon DEF IInv, Parked
<1> QED
  BY <1>1, IInvAlways, PTL

(* The `unreachable!()` of handle_req is unreachable.                      *)
THEOREM DriverAlwaysAtHand == Spec => []DriverAtHand
<1>1. IInv => DriverAtHand
  BY Zenon DEF IInv, Spawned, DriverAtHand
<1> QED
  BY <1>1, IInvAlways, PTL

(* Clients never get an older answer than one given out before.            *)
THEOREM AnswersAlwaysGoForward == Spec => AnswersGoForward
<1>1. IInv /\ [Next]_vars => [\A k \in Keys : told'[k] >= told[k]]_vars
  BY VersionsNext, Zenon DEF IInv
<1> QED
  BY <1>1, IInvAlways, PTL DEF Spec, AnswersGoForward
=============================================================================
