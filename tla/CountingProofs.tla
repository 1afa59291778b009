---------------------------- MODULE CountingProofs ----------------------------
(***************************************************************************)
(* Two counters that tasks change without a lock, and what they count.     *)
(*                                                                         *)
(* The gauge of the semaphore, for any number of threads, any counts and   *)
(* limits and any width of usize, is the number of held permits (Counted), *)
(* which is inductive once the value a thread compares with is known to    *)
(* have passed its checks (Passed).  The step refinement to AliveLimit     *)
(* follows.                                                                *)
(*                                                                         *)
(* The idle_conn_count of the ICAP connection pool, for any number of      *)
(* callers, requests and faults and any configuration, is the number of    *)
(* pollers; and what the pool keeps and gives out is clean.                *)
(***************************************************************************)
EXTENDS GaugeSemaphore, IcapPool, FiniteSetTheorems, TLAPS

-----------------------------------------------------------------------------
(* The semaphore: the inductive invariant.                                 *)

(* The permits of the threads S with counts n, one element for each.       *)
Units(S, n) == {u \in Threads \X (1..UsizeMax) : u[1] \in S /\ u[2] <= n[u[1]]}

Holders == {t \in Threads : pc[t] = "holding"}

Counted == gauge = Cardinality(Units(Holders, num))

Passed == \A t \in Threads : pc[t] = "cas" => Admits(t, curr[t])

IInv == TypeOK /\ Counted /\ Passed

-----------------------------------------------------------------------------
(* The permits held are finitely many.                                     *)
LEMMA UnitsFinite ==
  ASSUME NEW S, NEW n
  PROVE  IsFiniteSet(Units(S, n)) /\ Cardinality(Units(S, n)) \in Nat
<1>1. IsFiniteSet(1..UsizeMax)
  BY FS_Interval, GaugeSemaphoreAssumption
<1>2. IsFiniteSet(Threads \X (1..UsizeMax))
  BY <1>1, FS_Product, GaugeSemaphoreAssumption, Zenon
<1>3. Units(S, n) \subseteq Threads \X (1..UsizeMax)
  BY Zenon DEF Units
<1> QED
  BY <1>2, <1>3, FS_Subset, FS_CardinalityType, Zenon

(* The permit of one thread counts num_permits.                            *)
LEMMA UnitsOfOne ==
  ASSUME NEW t \in Threads, NEW n \in [Threads -> 0..UsizeMax]
  PROVE  Cardinality(Units({t}, n)) = n[t]
<1>1. Units({t}, n) = {t} \X (1..n[t])
  BY GaugeSemaphoreAssumption DEF Units
<1>2. IsFiniteSet({t}) /\ Cardinality({t}) = 1
  BY FS_Singleton, Zenon
<1>3. n[t] \in Nat
  BY GaugeSemaphoreAssumption, SMTT(30)
<1>4. IsFiniteSet(1..n[t]) /\ Cardinality(1..n[t]) = n[t]
  BY <1>3, FS_Interval, SMTT(30)
<1>5. Cardinality({t} \X (1..n[t])) = Cardinality({t}) * Cardinality(1..n[t])
  BY <1>2, <1>4, FS_Product, Zenon
<1>6. Cardinality({t} \X (1..n[t])) = 1 * n[t]
  BY <1>2, <1>4, <1>5, Zenon
<1>7. 1 * n[t] = n[t]
  BY <1>3, SMTT(30)
<1> QED
  BY <1>1, <1>6, <1>7, Zenon

(* A thread that joins the holders adds its count.                         *)
LEMMA UnitsJoin ==
  ASSUME NEW t \in Threads, NEW n \in [Threads -> 0..UsizeMax],
         NEW S, t \notin S
  PROVE  Cardinality(Units(S \cup {t}, n)) = Cardinality(Units(S, n)) + n[t]
<1>1. Units(S \cup {t}, n) = Units(S, n) \cup Units({t}, n)
  BY Zenon DEF Units
<1>2. Units(S, n) \cap Units({t}, n) = {}
  BY Zenon DEF Units
<1>3. Cardinality(Units(S, n) \cap Units({t}, n)) = 0
  BY <1>2, FS_EmptySet, Zenon
<1>4. n[t] \in Nat
  BY GaugeSemaphoreAssumption
<1>5. IsFiniteSet(Units(S, n)) /\ IsFiniteSet(Units({t}, n))
  BY UnitsFinite, Zenon
<1>6. Cardinality(Units(S, n) \cup Units({t}, n)) =
        Cardinality(Units(S, n)) + Cardinality(Units({t}, n))
          - Cardinality(Units(S, n) \cap Units({t}, n))
  BY <1>5, FS_Union, Zenon
<1>7. Cardinality(Units({t}, n)) = n[t]
  BY UnitsOfOne, Zenon
<1>8. Cardinality(Units(S, n)) \in Nat
  BY UnitsFinite, Zenon
<1>9. Cardinality(Units(S \cup {t}, n)) = Cardinality(Units(S, n)) + n[t] - 0
  BY <1>1, <1>3, <1>6, <1>7, Zenon
<1> QED
  BY <1>4, <1>8, <1>9, SMTT(30)

(* Counts of threads outside S do not matter.                              *)
LEMMA UnitsSame ==
  ASSUME NEW S, NEW n, NEW m, \A t \in S : n[t] = m[t]
  PROVE  Units(S, n) = Units(S, m)
BY Zenon DEF Units

-----------------------------------------------------------------------------
(* Threads that neither begin nor stop to hold leave the count alone.      *)
LEMMA CountKept ==
  ASSUME TypeOK, Counted, gauge' = gauge, Holders' = Holders,
         \A t \in Holders : num'[t] = num[t]
  PROVE  Counted'
<1>1. Units(Holders', num') = Units(Holders, num)
  BY Zenon DEF Units
<1> QED
  BY <1>1, Zenon DEF Counted

(* A thread that goes through its checks leaves the invariant.             *)
LEMMA CheckKeeps ==
  ASSUME IInv, NEW t \in Threads, pc[t] \in {"load", "cas"}, CheckLimit(t, gauge)
  PROVE  IInv'
<1> USE GaugeSemaphoreAssumption
<1>1. TypeOK'
  BY DEF IInv, TypeOK, CheckLimit
<1>2. Holders' = Holders
  BY Zenon DEF IInv, TypeOK, CheckLimit, Holders
<1>3. Counted'
  BY <1>2, CountKept, Zenon DEF IInv, CheckLimit
<1>4. Passed'
  BY Zenon DEF IInv, TypeOK, Passed, CheckLimit, Admits
<1> QED
  BY <1>1, <1>3, <1>4, Zenon DEF IInv

(* An exchange that finds the compared value adds the count of its thread. *)
LEMMA ExchangeKeeps ==
  ASSUME IInv, NEW t \in Threads, pc[t] = "cas", gauge = curr[t], Exchange(t)
  PROVE  IInv'
<1> USE GaugeSemaphoreAssumption
<1>0. curr[t] \in Nat /\ num[t] \in Nat /\ curr[t] + num[t] <= UsizeMax
  BY SMTT(30) DEF IInv, TypeOK, Passed, Admits
<1>1. TypeOK'
  BY <1>0 DEF IInv, TypeOK, Exchange
<1>2. Holders' = Holders \cup {t} /\ t \notin Holders
  BY Zenon DEF IInv, TypeOK, Exchange, Holders
<1>3. num' = num /\ num \in [Threads -> 0..UsizeMax]
  BY Zenon DEF IInv, TypeOK, Exchange
<1>4. Cardinality(Units(Holders \cup {t}, num))
        = Cardinality(Units(Holders, num)) + num[t]
  BY <1>2, <1>3, UnitsJoin, Zenon
<1>5. gauge' = gauge + num[t]
  BY Zenon DEF Exchange
<1>6. Counted'
  <2>1. Units(Holders, num)' = Units(Holders \cup {t}, num)
    BY <1>2, <1>3, Zenon DEF Units
  <2> QED
    BY <2>1, <1>4, <1>5, Zenon DEF IInv, Counted
<1>7. Passed'
  BY Zenon DEF IInv, TypeOK, Passed, Exchange, Admits
<1> QED
  BY <1>1, <1>6, <1>7, Zenon DEF IInv

(* A permit that is dropped takes its own count away, which is there.      *)
LEMMA DropKeeps ==
  ASSUME IInv, NEW t \in Threads, Drop(t)
  PROVE  IInv'
<1> USE GaugeSemaphoreAssumption
<1>1. Holders = Holders' \cup {t} /\ t \notin Holders'
  BY Zenon DEF IInv, TypeOK, Drop, Holders
<1>2. num' = num /\ num \in [Threads -> 0..UsizeMax] /\ num[t] \in Nat
  BY DEF IInv, TypeOK, Drop
<1>3. Cardinality(Units(Holders' \cup {t}, num))
        = Cardinality(Units(Holders', num)) + num[t]
  BY <1>1, <1>2, UnitsJoin, Zenon
<1>4. Cardinality(Units(Holders', num)) \in Nat
  BY UnitsFinite, Zenon
<1>5. gauge = Cardinality(Units(Holders', num)) + num[t]
  BY <1>1, <1>3, Zenon DEF IInv, Counted
<1>6. gauge' = Cardinality(Units(Holders', num))
  BY <1>2, <1>4, <1>5, SMTT(30) DEF Drop, Sub
<1>7. Counted'
  <2>1. Units(Holders, num)' = Units(Holders', num)
    BY <1>2, Zenon DEF Units
  <2> QED
    BY <2>1, <1>6, Zenon DEF Counted
<1>8. gauge' \in 0..UsizeMax
  BY <1>2, <1>4, <1>5, <1>6, SMTT(30) DEF IInv, TypeOK
<1>9. TypeOK'
  BY <1>8, Zenon DEF IInv, TypeOK, Drop
<1>10. Passed'
  BY Zenon DEF IInv, TypeOK, Passed, Drop, Admits
<1> QED
  BY <1>7, <1>9, <1>10, Zenon DEF IInv

-----------------------------------------------------------------------------
(* No thread holds a permit at first.                                      *)
LEMMA InitIInv == Init => IInv
<1> SUFFICES ASSUME Init PROVE IInv
  BY Zenon
<1>1. TypeOK
  BY GaugeSemaphoreAssumption DEF Init, TypeOK
<1>2. Units(Holders, num) = {}
  BY Zenon DEF Init, Units, Holders
<1>3. Counted
  BY <1>2, FS_EmptySet, Zenon DEF Init, Counted
<1>4. Passed
  BY Zenon DEF Init, Passed
<1> QED
  BY <1>1, <1>3, <1>4, Zenon DEF IInv

(* Every step keeps the invariant.                                         *)
LEMMA NextIInv == IInv /\ [Next]_vars => IInv'
<1> SUFFICES ASSUME IInv, [Next]_vars PROVE IInv'
  BY Zenon
<1> USE GaugeSemaphoreAssumption
<1>1. CASE UNCHANGED vars
  BY <1>1, Zenon DEF IInv, TypeOK, Counted, Passed, Admits, Units, Holders, vars
<1>2. ASSUME NEW p \in Limits, new_updated(p) PROVE IInv'
  <2>1. Holders' = Holders
    BY <1>2, Zenon DEF new_updated, Holders
  <2>2. Counted'
    BY <1>2, <2>1, CountKept, Zenon DEF IInv, new_updated
  <2> QED
    BY <1>2, <2>2, Zenon DEF IInv, TypeOK, Passed, Admits, new_updated
<1>3. ASSUME NEW t \in Threads, NEW n \in Counts, Call(t, n) PROVE IInv'
  <2>1. Holders' = Holders
    BY <1>3, Zenon DEF IInv, TypeOK, Call, Holders
  <2>2. \A s \in Holders : num'[s] = num[s]
    BY <1>3, Zenon DEF IInv, TypeOK, Call, Holders
  <2>3. Counted'
    BY <1>3, <2>1, <2>2, CountKept, Zenon DEF IInv, Call
  <2>4. TypeOK'
    BY <1>3, Zenon DEF IInv, TypeOK, Call
  <2>5. Passed'
    BY <1>3, Zenon DEF IInv, TypeOK, Passed, Admits, Call
  <2> QED
    BY <2>3, <2>4, <2>5, Zenon DEF IInv
<1>4. ASSUME NEW t \in Threads, Load(t) PROVE IInv'
  BY <1>4, CheckKeeps, Zenon DEF Load
<1>5. ASSUME NEW t \in Threads, Cas(t) PROVE IInv'
  BY <1>5, CheckKeeps, ExchangeKeeps, Zenon DEF Cas
<1>6. ASSUME NEW t \in Threads, Drop(t) PROVE IInv'
  BY <1>6, DropKeeps, Zenon
<1> QED
  BY <1>1, <1>2, <1>3, <1>4, <1>5, <1>6, Zenon DEF Next

(* The invariant holds always.                                             *)
LEMMA IInvAlways == Spec => []IInv
BY InitIInv, NextIInv, PTL DEF Spec

(* The counter stays a usize, without a check on release.                  *)
THEOREM TypeCorrect == Spec => []TypeOK
<1>1. IInv => TypeOK
  BY Zenon DEF IInv
<1> QED
  BY <1>1, IInvAlways, PTL

(* The permits of AliveLimit are those counted here.                       *)
LEMMA HeldIsUnits == IInv => Limit!Held = Units(Holders, num)
BY Zenon DEF IInv, TypeOK, Limit!Held, Units, Holders, Seen

(* So the counter is the total of AliveLimit.                              *)
LEMMA GaugeTotal == IInv => gauge = Limit!Total
<1> SUFFICES ASSUME IInv PROVE gauge = Limit!Total
  BY Zenon
<1>0. Limit!Held = Units(Holders, num)
  BY HeldIsUnits, Zenon
<1>1. Limit!Total = Cardinality(Units(Holders, num))
  BY <1>0, Zenon DEF Limit!Total, Limit!Cardinality, Cardinality
<1>2. gauge = Cardinality(Units(Holders, num))
  BY Zenon DEF IInv, Counted
<1> QED
  BY <1>1, <1>2, Zenon

(* The counter of the semaphore is always the number of permits held, for  *)
(* any number of threads and through every reload.                         *)
THEOREM GaugeAlwaysHeld == Spec => []GaugeIsHeld
<1>1. IInv => GaugeIsHeld
  BY GaugeTotal, Zenon DEF GaugeIsHeld
<1> QED
  BY <1>1, IInvAlways, PTL

-----------------------------------------------------------------------------
(* The two tests of the code decide what AliveLimit decides.               *)
LEMMA AdmitsIsFits ==
  ASSUME IInv, NEW t \in Threads
  PROVE  Admits(t, gauge) <=> Limit!Fits(Limit!Total, num[t], limit[t])
<1>0. gauge \in Nat /\ num[t] \in Nat /\ limit[t] \in Nat /\ UsizeMax \in Nat
  <2>1. limit[t] \in Limits /\ num[t] \in 0..UsizeMax /\ gauge \in 0..UsizeMax
    BY Zenon DEF IInv, TypeOK
  <2>2. Limits \subseteq 0..UsizeMax /\ UsizeMax \in Nat
    BY GaugeSemaphoreAssumption, Zenon
  <2>3. limit[t] \in 0..UsizeMax
    BY <2>1, <2>2, Zenon
  <2>4. \A x \in 0..UsizeMax : x \in Nat
    BY <2>2, SMTT(30)
  <2> QED
    BY <2>1, <2>2, <2>3, <2>4, Zenon
<1>1. Admits(t, gauge) <=> Limit!Fits(gauge, num[t], limit[t])
  BY <1>0, SMTT(30) DEF Admits, Limit!Fits
<1> QED
  BY <1>1, GaugeTotal, Zenon

(* A step of the tests is a refusal or is not seen.                        *)
LEMMA CheckRefines ==
  ASSUME IInv, NEW t \in Threads, pc[t] \in {"load", "cas"}, CheckLimit(t, gauge)
  PROVE  Limit!Refuse(t) \/ UNCHANGED Limit!alvars
<1>1. permits' = permits /\ limit' = limit /\ num' = num
  BY Zenon DEF CheckLimit
<1>2. Seen[t] = "asking"
  BY Zenon DEF Seen
<1>3. CASE Admits(t, gauge)
  <2>1. Seen' = Seen
    BY <1>3, Zenon DEF IInv, TypeOK, CheckLimit, Seen
  <2> QED
    BY <1>1, <2>1, Zenon DEF Limit!alvars
<1>4. CASE ~Admits(t, gauge)
  <2>1. Seen' = [Seen EXCEPT ![t] = "idle"]
    BY <1>4, Zenon DEF IInv, TypeOK, CheckLimit, Seen
  <2>2. ~Limit!Fits(Limit!Total, num[t], limit[t])
    BY <1>4, AdmitsIsFits, Zenon
  <2> QED
    BY <1>1, <1>2, <2>1, <2>2, Zenon DEF Limit!Refuse
<1> QED
  BY <1>3, <1>4, Zenon

(* A successful exchange is a grant.                                       *)
LEMMA ExchangeRefines ==
  ASSUME IInv, NEW t \in Threads, pc[t] = "cas", gauge = curr[t], Exchange(t)
  PROVE  Limit!Grant(t)
<1>1. Seen[t] = "asking" /\ Seen' = [Seen EXCEPT ![t] = "holding"]
  BY Zenon DEF IInv, TypeOK, Exchange, Seen
<1>2. Admits(t, gauge)
  BY Zenon DEF IInv, Passed
<1>3. Limit!Fits(Limit!Total, num[t], limit[t])
  BY <1>2, AdmitsIsFits, Zenon
<1> QED
  BY <1>1, <1>3, Zenon DEF Exchange, Limit!Grant

(* Every step is one of AliveLimit or is not seen.                         *)
LEMMA NextRefines == IInv /\ [Next]_vars => [Limit!ALNext]_(Limit!alvars)
<1> SUFFICES ASSUME IInv, [Next]_vars
             PROVE  Limit!ALNext \/ UNCHANGED Limit!alvars
  BY Zenon
<1>1. CASE UNCHANGED vars
  BY <1>1, Zenon DEF vars, Limit!alvars, Seen
<1>2. ASSUME NEW p \in Limits, new_updated(p) PROVE Limit!Configure(p)
  BY <1>2, Zenon DEF new_updated, Limit!Configure, Seen
<1>3. ASSUME NEW t \in Threads, NEW n \in Counts, Call(t, n)
      PROVE  Limit!Ask(t, n)
  BY <1>3, Zenon DEF IInv, TypeOK, Call, Limit!Ask, Seen
<1>4. ASSUME NEW t \in Threads, Load(t)
      PROVE  Limit!Refuse(t) \/ UNCHANGED Limit!alvars
  BY <1>4, CheckRefines, Zenon DEF Load
<1>5. ASSUME NEW t \in Threads, Cas(t)
      PROVE  Limit!Grant(t) \/ Limit!Refuse(t) \/ UNCHANGED Limit!alvars
  BY <1>5, CheckRefines, ExchangeRefines, Zenon DEF Cas
<1>6. ASSUME NEW t \in Threads, Drop(t) PROVE Limit!Release(t)
  BY <1>6, Zenon DEF IInv, TypeOK, Drop, Limit!Release, Seen
<1> QED
  BY <1>1, <1>2, <1>3, <1>4, <1>5, <1>6, Zenon DEF Next, Limit!ALNext

(* The compare-and-exchange loop implements a limit that is decided in one *)
(* step: no interleaving of loads, exchanges, drops and reloads lets a     *)
(* request exceed its limit or be refused while there is room.             *)
THEOREM AlwaysDecidesAtOnce == Spec => DecidesAtOnce
<1>1. Init => Limit!ALInit
  BY Zenon DEF Init, Limit!ALInit, Seen
<1> QED
  BY <1>1, NextRefines, IInvAlways, PTL DEF Spec, DecidesAtOnce, Limit!ALSpec

-----------------------------------------------------------------------------
(* The ICAP connection pool: the inductive invariant.                      *)

\* A connection that carries nothing of an earlier request, but for a body cut
\* short by an early answer.
CleanConns == {x \in Connections : x.rsp = "none" /\ (x.req = "part" => x.early)}

\* Who asked for a connection: the sender end of a oneshot channel.
Reqs == [c : Clients, round : Nat]

Pcs == {"rest", "wait", "create", "options", "use", "send", "body"}

Callers == [pc : Pcs, conn : Connections, round : 0..MaxRounds,
            kind : {"none", "request", "response"}]

\* An adapter holds a connection without response bytes until it has read the
\* header of its answer, and one that is clean until it writes.
CliOK ==
    /\ cli \in [Clients -> Callers]
    /\ \A c \in Clients : /\ cli[c].pc \in {"options", "use"} => cli[c].conn \in CleanConns
                          /\ cli[c].pc = "send" => cli[c].conn.rsp = "none"

\* What travels back to the pool, in either channel, and what waits in it is
\* clean.
SaveCmds == [op : {"save"}, conn : CleanConns]
ClientCmds == [op : {"fetch"}, req : Reqs] \cup SaveCmds
PoolCmds == [op : {"create"}] \cup SaveCmds
QueuesOK ==
    /\ cmdq \in Seq(ClientCmds) /\ poolq \in Seq(PoolCmds)
    /\ reqq \in Seq(Reqs) /\ Len(reqq) <= MaxIdle
    /\ tasks \subseteq [kind : {"poll", "connect"}, req : Reqs]
    /\ pollers \in Seq(CleanConns)

\* idle_conn_count is the number of pollers that have not lowered it.
CountsOK ==
    /\ ending \in Nat /\ idle \in Nat /\ creating \in Nat /\ asking \in Nat
    /\ min \in Nat /\ faults \in 0..MaxFaults
    /\ idle = Len(pollers) + ending

PoolInv == CliOK /\ QueuesOK /\ CountsOK

-----------------------------------------------------------------------------
(* Sequences.                                                              *)

(* A command at the end of a channel.                                      *)
LEMMA AppendSeq ==
  ASSUME NEW S, NEW s \in Seq(S), NEW e \in S
  PROVE  Append(s, e) \in Seq(S) /\ Len(Append(s, e)) = Len(s) + 1
OBVIOUS

(* The command at the head of a channel, and the rest.                     *)
LEMMA HeadTail ==
  ASSUME NEW S, NEW s \in Seq(S), s # <<>>
  PROVE  /\ Head(s) \in S /\ Tail(s) \in Seq(S)
         /\ Len(Tail(s)) = Len(s) - 1 /\ Len(s) \in Nat
OBVIOUS

(* A poller leaves: the others stay as they are.                           *)
LEMMA WithoutSeq ==
  ASSUME NEW S, NEW s \in Seq(S), NEW i \in DOMAIN s
  PROVE  /\ Without(s, i) \in Seq(S) /\ s[i] \in S
         /\ Len(Without(s, i)) = Len(s) - 1 /\ Len(s) \in Nat
<1>1. Len(s) \in Nat /\ i \in 1 .. Len(s) /\ \A k \in 1 .. Len(s) : s[k] \in S
  OBVIOUS
<1>2. Len(s) - 1 \in Nat
  BY <1>1
<1>3. ASSUME NEW j \in 1 .. Len(s) - 1
      PROVE  (IF j < i THEN s[j] ELSE s[j + 1]) \in S
  BY <1>1, <1>3
<1> DEFINE w == [j \in 1 .. Len(s) - 1 |-> IF j < i THEN s[j] ELSE s[j + 1]]
<1>4. w \in [1 .. Len(s) - 1 -> S]
  BY <1>3, Zenon
<1>5. w \in Seq(S) /\ Len(w) = Len(s) - 1
  BY <1>2, <1>4
<1> QED
  BY <1>1, <1>5, Zenon DEF Without

-----------------------------------------------------------------------------
(* Connections.                                                            *)

(* A new connection is clean, in use or not.                               *)
LEMMA NewConnClean == NewConn \in CleanConns /\ InUse(NewConn) \in CleanConns
BY Zenon DEF NewConn, InUse, CleanConns, Connections

(* What an adapter saves is clean: an answer that came before the end of   *)
(* the request leaves the write flag down, or is remembered as early.      *)
LEMMA SavedClean ==
  ASSUME NEW x \in Connections, x.rsp = "none",
         Reusable([WriterMarked(x) EXCEPT !.rclean = TRUE])
  PROVE  [[WriterMarked(x) EXCEPT !.rclean = TRUE] EXCEPT
              !.req = IF @ = "sent" THEN "none" ELSE @] \in CleanConns
<1>1. CASE x.req = "sent"
  BY <1>1, Zenon DEF WriterMarked, CleanConns, Connections
<1>2. CASE x.req # "sent"
  <2>1. x.wclean /\ x.wclean \in BOOLEAN
    BY <1>2, Zenon DEF WriterMarked, Answered, Reusable, Connections
  <2> QED
    BY <1>2, <2>1, Zenon DEF WriterMarked, Answered, CleanConns, Connections
<1> QED
  BY <1>1, <1>2, Zenon

(* What the adapters do to their connection makes a connection of it.      *)
LEMMA MarkedType ==
  ASSUME NEW x \in Connections
  PROVE  WriterMarked(x) \in Connections /\ WriterMarked(x).rsp = x.rsp
BY Zenon DEF WriterMarked, Answered, Connections

-----------------------------------------------------------------------------
(* Each conjunct of the invariant, step by step.                           *)

(* The steps of the pool, one by one.                                      *)
LEMMA Steps ==
  ASSUME [IcapNext]_icapVars
  PROVE  \/ \E c \in Clients : FetchConnection(c)
         \/ \E c \in Clients : FetchTimeout(c)
         \/ \E c \in Clients, ok \in BOOLEAN : FetchFallback(c, ok)
         \/ \E c \in Clients, ok \in BOOLEAN : GetOptions(c, ok)
         \/ \E c \in Clients : SendHeader(c)
         \/ \E c \in Clients : SendBody(c)
         \/ \E c \in Clients, kind \in {"request", "response"} : RecvHeader(c, kind)
         \/ \E c \in Clients, keep \in BOOLEAN : RecvAll(c, keep)
         \/ \E c \in Clients, keep \in BOOLEAN : RecvBody(c, keep)
         \/ \E c \in Clients : UseFails(c)
         \/ \E expired \in BOOLEAN : Check(expired)
         \/ HandleClientCmd
         \/ HandlePoolCmd
         \/ \E t \in tasks : PollTask(t)
         \/ \E t \in tasks, ok \in BOOLEAN : ConnectTask(t, ok)
         \/ \E ok \in BOOLEAN : CreateTask(ok)
         \/ \E ok \in BOOLEAN : OptionsTask(ok)
         \/ PollerEnds
         \/ \E i \in DOMAIN pollers : PollerDrops(i)
         \/ \E i \in DOMAIN pollers : PollerGives(i)
         \/ UNCHANGED icapVars
BY ZenonT(60) DEF IcapNext, Fetch, WithServer, PoolLoop, Spawned

(* An adapter that ends rests, and saves only a clean connection.          *)
LEMMA DoneEffect ==
  ASSUME CliOK, QueuesOK, NEW c \in Clients, NEW save, NEW x,
         save /\ Reusable(x) =>
           [x EXCEPT !.req = IF @ = "sent" THEN "none" ELSE @] \in CleanConns,
         Done(c, save, x)
  PROVE  CliOK' /\ cmdq' \in Seq(ClientCmds) /\ UNCHANGED <<poolVars, faults>>
<1>1. Resting(cli[c].round) \in Callers /\ Resting(cli[c].round).pc = "rest"
  BY NewConnClean, Zenon DEF Resting, CliOK, Callers, Pcs, CleanConns
<1>2. cli' = [cli EXCEPT ![c] = Resting(cli[c].round)] /\ UNCHANGED <<poolVars, faults>>
  BY Zenon DEF Done
<1>3. CliOK'
  BY <1>1, <1>2, Zenon DEF CliOK
<1>4. CASE save /\ Reusable(x)
  <2> DEFINE m == [op |-> "save", conn |-> [x EXCEPT !.req = IF @ = "sent" THEN "none" ELSE @]]
  <2>1. cmdq' = Append(cmdq, m)
    BY <1>4, Zenon DEF Done
  <2>2. m \in ClientCmds
    BY <1>4, Zenon DEF ClientCmds, SaveCmds
  <2> QED
    BY <1>2, <1>3, <2>1, <2>2, AppendSeq, Zenon DEF QueuesOK
<1>5. CASE ~(save /\ Reusable(x))
  BY <1>2, <1>3, <1>5, Zenon DEF Done, QueuesOK
<1> QED
  BY <1>4, <1>5, Zenon

(* Giving a clean connection away.                                         *)
LEMMA GiveEffect ==
  ASSUME CliOK, NEW r \in Reqs, NEW x \in CleanConns, Give(r, x)
  PROVE  CliOK'
<1>1. CASE Waiting(r)
  <2>1. r.c \in Clients /\ x \in Connections
    BY Zenon DEF Reqs, CleanConns
  <2>2. cli' = [cli EXCEPT ![r.c] = [@ EXCEPT !.pc = "use", !.conn = x]]
    BY <1>1, Zenon DEF Give
  <2>3. [cli[r.c] EXCEPT !.pc = "use", !.conn = x] \in Callers
    <3>1. cli[r.c] \in Callers
      BY <2>1, Zenon DEF CliOK
    <3>2. "use" \in Pcs
      BY Zenon DEF Pcs
    <3> QED
      BY <2>1, <3>1, <3>2, Zenon DEF Callers
  <2>4. cli' \in [Clients -> Callers]
    BY <2>2, <2>3, Zenon DEF CliOK
  <2>5. cli'[r.c].pc = "use" /\ cli'[r.c].conn = x
    BY <2>1, <2>2, ZenonT(60) DEF CliOK, Callers
  <2>6. \A c \in Clients \ {r.c} : cli'[c] = cli[c]
    BY <2>2, Zenon DEF CliOK
  <2> QED
    BY <2>4, <2>5, <2>6, Zenon DEF CliOK
<1>2. CASE ~Waiting(r)
  BY <1>2, Zenon DEF Give, CliOK
<1> QED
  BY <1>1, <1>2, Zenon

(* What the callers do to themselves and to the commands for the pool.     *)
LEMMA ClientNext ==
  ASSUME CliOK, QueuesOK, NEW c \in Clients,
         \/ FetchConnection(c) \/ FetchTimeout(c)
         \/ \E ok \in BOOLEAN : FetchFallback(c, ok) \/ GetOptions(c, ok)
         \/ SendHeader(c) \/ SendBody(c)
         \/ \E kind \in {"request", "response"} : RecvHeader(c, kind)
         \/ \E keep \in BOOLEAN : RecvAll(c, keep)
         \/ \E keep \in BOOLEAN : RecvBody(c, keep)
         \/ UseFails(c)
  PROVE  CliOK' /\ cmdq' \in Seq(ClientCmds) /\ UNCHANGED poolVars
<1> DEFINE x == cli[c].conn
           y == [WriterMarked(x) EXCEPT !.rclean = TRUE]
<1>0. /\ cli[c] \in Callers /\ x \in Connections
      /\ cli[c].pc \in {"options", "use"} => x \in CleanConns
      /\ cli[c].pc = "send" => x.rsp = "none"
      /\ cmdq \in Seq(ClientCmds)
  BY Zenon DEF CliOK, Callers, QueuesOK
<1>1. ASSUME NEW v \in Callers, cli' = [cli EXCEPT ![c] = v],
             v.pc \in {"options", "use"} => v.conn \in CleanConns,
             v.pc = "send" => v.conn.rsp = "none"
      PROVE  CliOK'
  BY <1>1, Zenon DEF CliOK
<1>2. CASE FetchConnection(c)
  <2> DEFINE v == [cli[c] EXCEPT !.pc = "wait", !.round = @ + 1]
             r == [c |-> c, round |-> cli[c].round + 1]
  <2>1. cli' = [cli EXCEPT ![c] = v]
    BY <1>2, Zenon DEF FetchConnection, CliOK
  <2>2. cli[c].round \in 0..MaxRounds /\ cli[c].round < MaxRounds
    BY <1>0, <1>2, Zenon DEF FetchConnection, Callers
  <2>3. cli[c].round + 1 \in 0..MaxRounds /\ cli[c].round + 1 \in Nat
    BY <2>2, IcapPoolAssumption
  <2>4. v \in Callers /\ v.pc = "wait"
    BY <1>0, <2>3, Zenon DEF Callers, Pcs
  <2>5. [op |-> "fetch", req |-> r] \in ClientCmds
    BY <2>3, Zenon DEF ClientCmds, Reqs
  <2>6. cmdq' = Append(cmdq, [op |-> "fetch", req |-> r]) /\ UNCHANGED poolVars
    BY <1>2, Zenon DEF FetchConnection
  <2>7. cmdq' \in Seq(ClientCmds)
    BY <1>0, <2>5, <2>6, AppendSeq, Zenon
  <2> QED
    BY <1>1, <2>1, <2>4, <2>6, <2>7, Zenon
<1>3. CASE FetchTimeout(c)
  <2> DEFINE v == [cli[c] EXCEPT !.pc = "create"]
  <2>1. cli' = [cli EXCEPT ![c] = v] /\ cmdq' = cmdq /\ UNCHANGED poolVars
    BY <1>3, Zenon DEF FetchTimeout, CliOK
  <2>2. v \in Callers /\ v.pc = "create"
    BY <1>0, Zenon DEF Callers, Pcs
  <2> QED
    BY <1>0, <1>1, <2>1, <2>2, Zenon
<1>4. ASSUME NEW ok \in BOOLEAN, FetchFallback(c, ok)
      PROVE  CliOK' /\ cmdq' \in Seq(ClientCmds) /\ UNCHANGED poolVars
  <2> DEFINE v == [cli[c] EXCEPT !.pc = IF ok THEN "options" ELSE "rest",
                                 !.conn = InUse(NewConn)]
  <2>1. cli' = [cli EXCEPT ![c] = v] /\ cmdq' = cmdq /\ UNCHANGED poolVars
    BY <1>4, Zenon DEF FetchFallback, CliOK
  <2>2. InUse(NewConn) \in CleanConns /\ InUse(NewConn) \in Connections
    BY NewConnClean, Zenon DEF CleanConns
  <2>3. v \in Callers /\ v.conn = InUse(NewConn) /\ v.pc # "send"
    BY <1>0, <2>2, Zenon DEF Callers, Pcs
  <2> QED
    BY <1>0, <1>1, <2>1, <2>2, <2>3, Zenon
<1>5. CASE SendHeader(c)
  <2> DEFINE v == [cli[c] EXCEPT !.pc = "send", !.conn = [@ EXCEPT !.req = "part"]]
  <2>1. cli' = [cli EXCEPT ![c] = v] /\ cmdq' = cmdq /\ UNCHANGED poolVars
    BY <1>5, Zenon DEF SendHeader, CliOK
  <2>2. x.rsp = "none"
    BY <1>0, <1>5, Zenon DEF SendHeader, CleanConns
  <2>3. v \in Callers /\ v.pc = "send" /\ v.conn.rsp = "none"
    BY <1>0, <2>2, Zenon DEF Callers, Pcs, Connections
  <2> QED
    BY <1>0, <1>1, <2>1, <2>3, Zenon
<1>6. CASE SendBody(c)
  <2> DEFINE v == [cli[c] EXCEPT !.conn = [@ EXCEPT !.req = "sent"]]
  <2>1. cli' = [cli EXCEPT ![c] = v] /\ cmdq' = cmdq /\ UNCHANGED poolVars
    BY <1>6, Zenon DEF SendBody, CliOK
  <2>2. cli[c].pc \in {"send", "body"}
    BY <1>6, Zenon DEF SendBody
  <2>3. v \in Callers /\ v.pc = cli[c].pc /\ v.conn.rsp = x.rsp
    BY <1>0, Zenon DEF Callers, Connections
  <2> QED
    BY <1>0, <1>1, <2>1, <2>2, <2>3, Zenon
<1>7. ASSUME NEW kind \in {"request", "response"}, RecvHeader(c, kind)
      PROVE  CliOK' /\ cmdq' \in Seq(ClientCmds) /\ UNCHANGED poolVars
  <2> DEFINE v == [cli[c] EXCEPT !.pc = "body", !.kind = kind,
                                 !.conn = [WriterMarked(@) EXCEPT !.rsp = "body"]]
  <2>1. cli' = [cli EXCEPT ![c] = v] /\ cmdq' = cmdq /\ UNCHANGED poolVars
    BY <1>7, Zenon DEF RecvHeader, CliOK
  <2>2. WriterMarked(x) \in Connections
    BY <1>0, MarkedType, Zenon
  <2>3. [WriterMarked(x) EXCEPT !.rsp = "body"] \in Connections
    BY <2>2, Zenon DEF Connections
  <2>4. v \in Callers /\ v.pc = "body"
    BY <1>0, <2>3, Zenon DEF Callers, Pcs
  <2> QED
    BY <1>0, <1>1, <2>1, <2>4, Zenon
<1>8. ASSUME NEW keep \in BOOLEAN, RecvAll(c, keep)
      PROVE  CliOK' /\ cmdq' \in Seq(ClientCmds) /\ UNCHANGED poolVars
  <2>1. Done(c, keep, y) /\ x.rsp = "none"
    BY <1>0, <1>8, Zenon DEF RecvAll
  <2>2. Reusable(y) => [y EXCEPT !.req = IF @ = "sent" THEN "none" ELSE @] \in CleanConns
    BY <1>0, <2>1, SavedClean, Zenon
  <2> QED
    BY <2>1, <2>2, DoneEffect, Zenon
<1>9. ASSUME NEW keep \in BOOLEAN, RecvBody(c, keep)
      PROVE  CliOK' /\ cmdq' \in Seq(ClientCmds) /\ UNCHANGED poolVars
  <2> DEFINE x0 == [x EXCEPT !.rsp = "none"]
             z == [WriterMarked(x) EXCEPT !.rsp = "none", !.rclean = TRUE]
  <2>1. PICK save \in BOOLEAN : Done(c, save, z)
    BY <1>9, Zenon DEF RecvBody
  <2>2. x0 \in Connections /\ x0.rsp = "none"
    BY <1>0, Zenon DEF Connections
  <2>3. z = [WriterMarked(x0) EXCEPT !.rclean = TRUE]
    BY <1>0, ZenonT(60) DEF WriterMarked, Answered, Connections
  <2>4. Reusable(z) => [z EXCEPT !.req = IF @ = "sent" THEN "none" ELSE @] \in CleanConns
    BY <2>2, <2>3, SavedClean, Zenon
  <2> QED
    BY <2>1, <2>4, DoneEffect, Zenon
<1>10. CASE UseFails(c)
  <2>1. Done(c, FALSE, NewConn)
    BY <1>10, Zenon DEF UseFails
  <2> QED
    BY <2>1, DoneEffect, Zenon
<1>11. ASSUME NEW ok \in BOOLEAN, GetOptions(c, ok)
       PROVE  CliOK' /\ cmdq' \in Seq(ClientCmds) /\ UNCHANGED poolVars
  <2> DEFINE v == [cli[c] EXCEPT !.pc = IF ok THEN "use" ELSE "rest"]
  <2>1. cli' = [cli EXCEPT ![c] = v] /\ cmdq' = cmdq /\ UNCHANGED poolVars
    BY <1>11, Zenon DEF GetOptions, CliOK
  <2>2. x \in CleanConns
    BY <1>0, <1>11, Zenon DEF GetOptions
  <2>3. v \in Callers /\ v.conn = x /\ v.pc # "send"
    BY <1>0, Zenon DEF Callers, Pcs
  <2> QED
    BY <1>0, <1>1, <2>1, <2>2, <2>3, Zenon
<1> QED
  BY <1>2, <1>3, <1>4, <1>5, <1>6, <1>7, <1>8, <1>9, <1>10, <1>11, Zenon

(* The callers, whatever step is taken.                                    *)
LEMMA CliNext == CliOK /\ QueuesOK /\ [IcapNext]_icapVars => CliOK'
<1> SUFFICES ASSUME CliOK, QueuesOK, [IcapNext]_icapVars PROVE CliOK'
  BY Zenon
<1>0. /\ reqq \in Seq(Reqs) /\ pollers \in Seq(CleanConns)
      /\ tasks \subseteq [kind : {"poll", "connect"}, req : Reqs]
  BY Zenon DEF QueuesOK
<1>1. ASSUME NEW t \in tasks, NEW ok \in BOOLEAN, ConnectTask(t, ok) PROVE CliOK'
  <2>1. t.req \in Reqs
    BY <1>0, Zenon
  <2>2. CASE Give(t.req, NewConn)
    BY <2>1, <2>2, GiveEffect, NewConnClean, Zenon
  <2>3. CASE Waiting(t.req) /\ cli' = [cli EXCEPT ![t.req.c].pc = "create"]
    <3> DEFINE d == t.req.c
               v == [cli[d] EXCEPT !.pc = "create"]
    <3>1. d \in Clients
      BY <2>1, Zenon DEF Reqs
    <3>2. cli' = [cli EXCEPT ![d] = v]
      BY <2>3, Zenon DEF CliOK
    <3>3. cli[d] \in Callers
      BY <3>1, Zenon DEF CliOK
    <3>4. v \in Callers /\ v.pc = "create"
      BY <3>3, Zenon DEF Callers, Pcs
    <3> HIDE DEF d, v
    <3> QED
      BY <3>1, <3>2, <3>4, Zenon DEF CliOK
  <2>4. CASE cli' = cli
    BY <2>4, Zenon DEF CliOK
  <2> QED
    BY <1>1, <2>2, <2>3, <2>4, Zenon DEF ConnectTask
<1>2. ASSUME NEW i \in DOMAIN pollers, PollerGives(i) PROVE CliOK'
  <2>1. Head(reqq) \in Reqs /\ pollers[i] \in CleanConns
    BY <1>0, <1>2, HeadTail, WithoutSeq, Zenon DEF PollerGives
  <2> QED
    BY <1>2, <2>1, GiveEffect, Zenon DEF PollerGives
<1>3. CASE cli' = cli
  BY <1>3, Zenon DEF CliOK
<1>4. CASE \/ \E expired \in BOOLEAN : Check(expired)
           \/ HandleClientCmd \/ HandlePoolCmd
           \/ \E t \in tasks : PollTask(t)
           \/ \E ok \in BOOLEAN : CreateTask(ok) \/ OptionsTask(ok)
           \/ PollerEnds
           \/ \E i \in DOMAIN pollers : PollerDrops(i)
           \/ UNCHANGED icapVars
  BY <1>3, <1>4, ZenonT(60) DEF Check, HandleClientCmd, HandlePoolCmd, PollTask,
     CreateTask, OptionsTask, PollerEnds, PollerDrops, icapVars
<1> QED
  BY <1>1, <1>2, <1>4, ClientNext, Steps, ZenonT(60)

(* The channels, the spawned tasks and the pollers, whatever step is taken. *)
LEMMA QueuesNext == CliOK /\ QueuesOK /\ CountsOK /\ [IcapNext]_icapVars => QueuesOK'
<1> SUFFICES ASSUME CliOK, QueuesOK, CountsOK, [IcapNext]_icapVars PROVE QueuesOK'
  BY Zenon
<1>0. /\ cmdq \in Seq(ClientCmds) /\ poolq \in Seq(PoolCmds)
      /\ reqq \in Seq(Reqs) /\ Len(reqq) <= MaxIdle /\ MaxIdle \in Nat
      /\ tasks \subseteq [kind : {"poll", "connect"}, req : Reqs]
      /\ pollers \in Seq(CleanConns)
  BY IcapPoolAssumption, Zenon DEF QueuesOK
<1>a. ASSUME NEW x \in CleanConns, SaveConnection(x) PROVE pollers' \in Seq(CleanConns)
  <2>1. pollers' = Append(pollers, x) \/ pollers' = pollers
    BY <1>a, Zenon DEF SaveConnection
  <2> QED
    BY <1>0, <2>1, AppendSeq, Zenon
<1>1. CASE UNCHANGED poolVars /\ cmdq' \in Seq(ClientCmds)
  BY <1>0, <1>1, Zenon DEF poolVars, QueuesOK
<1>2. CASE UNCHANGED icapVars \/ \E expired \in BOOLEAN : Check(expired)
  BY <1>0, <1>2, Zenon DEF icapVars, Check, QueuesOK
<1>3. CASE HandleClientCmd
  <2> DEFINE m == Head(cmdq)
  <2>1. m \in ClientCmds /\ Tail(cmdq) \in Seq(ClientCmds)
    BY <1>0, <1>3, HeadTail, Zenon DEF HandleClientCmd
  <2>2. UNCHANGED <<poolq, reqq>> /\ cmdq' = Tail(cmdq)
    BY <1>3, Zenon DEF HandleClientCmd
  <2>3. CASE m.op = "fetch" /\ HandleFetch(m)
    <3>1. m.req \in Reqs
      BY <2>1, <2>3, Zenon DEF ClientCmds, SaveCmds
    <3>2. tasks' \subseteq [kind : {"poll", "connect"}, req : Reqs]
      <4> DEFINE e == [kind |-> IF idle > 0 THEN "poll" ELSE "connect", req |-> m.req]
      <4>1. e \in [kind : {"poll", "connect"}, req : Reqs]
        BY <3>1, Zenon
      <4>2. tasks' = tasks \cup {e}
        BY <2>3, Zenon DEF HandleFetch
      <4> QED
        BY <1>0, <4>1, <4>2, Zenon
    <3>3. pollers' = pollers
      BY <2>3, Zenon DEF HandleFetch
    <3> QED
      BY <1>0, <2>1, <2>2, <3>2, <3>3, Zenon DEF QueuesOK
  <2>4. CASE m.op = "save" /\ HandleSave(m)
    <3>1. m.conn \in CleanConns
      BY <2>1, <2>4, Zenon DEF ClientCmds, SaveCmds
    <3>2. tasks' = tasks /\ (SaveConnection(m.conn) \/ pollers' = pollers)
      BY <2>4, Zenon DEF HandleSave
    <3> QED
      BY <1>0, <1>a, <2>1, <2>2, <3>1, <3>2, Zenon DEF QueuesOK
  <2> QED
    BY <1>3, <2>3, <2>4, Zenon DEF HandleClientCmd
<1>4. CASE HandlePoolCmd
  <2> DEFINE m == Head(poolq)
  <2>1. m \in PoolCmds /\ Tail(poolq) \in Seq(PoolCmds)
    BY <1>0, <1>4, HeadTail, Zenon DEF HandlePoolCmd
  <2>2. UNCHANGED <<cmdq, reqq, tasks>> /\ poolq' = Tail(poolq)
    BY <1>4, Zenon DEF HandlePoolCmd
  <2>3. CASE m.op = "save" /\ SaveConnection(m.conn)
    <3>1. m.conn \in CleanConns
      BY <2>1, <2>3, Zenon DEF PoolCmds, SaveCmds
    <3> QED
      BY <1>0, <1>a, <2>1, <2>2, <2>3, <3>1, Zenon DEF QueuesOK
  <2>4. CASE pollers' = pollers
    BY <1>0, <2>1, <2>2, <2>4, Zenon DEF QueuesOK
  <2> QED
    BY <1>4, <2>3, <2>4, Zenon DEF HandlePoolCmd
<1>5. ASSUME NEW t \in tasks, PollTask(t) PROVE QueuesOK'
  <2>1. t.req \in Reqs
    BY <1>0, Zenon
  <2>2. /\ Len(reqq) < MaxIdle /\ tasks' = tasks \ {t} /\ reqq' = Append(reqq, t.req)
        /\ UNCHANGED <<cmdq, poolq, pollers>>
    BY <1>5, Zenon DEF PollTask
  <2>3. reqq' \in Seq(Reqs) /\ Len(reqq') = Len(reqq) + 1
    BY <1>0, <2>1, <2>2, AppendSeq, Zenon
  <2>4. Len(reqq') <= MaxIdle
    BY <1>0, <2>2, <2>3
  <2> QED
    BY <1>0, <2>2, <2>3, <2>4, Zenon DEF QueuesOK
<1>6. ASSUME NEW t \in tasks, NEW ok \in BOOLEAN, ConnectTask(t, ok) PROVE QueuesOK'
  BY <1>0, <1>6, Zenon DEF ConnectTask, QueuesOK
<1>7. CASE PollerEnds \/ \E ok \in BOOLEAN : CreateTask(ok) \/ OptionsTask(ok)
  <2>1. [op |-> "create"] \in PoolCmds /\ [op |-> "save", conn |-> NewConn] \in PoolCmds
    BY NewConnClean, Zenon DEF PoolCmds, SaveCmds
  <2>2. UNCHANGED <<cmdq, reqq, tasks, pollers>>
    BY <1>7, Zenon DEF PollerEnds, CreateTask, OptionsTask
  <2>3. \/ poolq' = poolq
        \/ \E m \in PoolCmds : poolq' = Append(poolq, m)
    BY <1>7, <2>1, Zenon DEF PollerEnds, CreateTask, OptionsTask
  <2>4. poolq' \in Seq(PoolCmds)
    BY <1>0, <2>3, AppendSeq, Zenon
  <2> QED
    BY <1>0, <2>2, <2>4, Zenon DEF QueuesOK
<1>8. ASSUME NEW i \in DOMAIN pollers, PollerDrops(i) \/ PollerGives(i) PROVE QueuesOK'
  <2>1. pollers' \in Seq(CleanConns)
    <3>1. pollers' = Without(pollers, i)
      BY <1>8, Zenon DEF PollerDrops, PollerGives
    <3> QED
      BY <1>0, <3>1, WithoutSeq, Zenon
  <2>2. UNCHANGED <<cmdq, poolq, tasks>>
    BY <1>8, Zenon DEF PollerDrops, PollerGives
  <2>3. reqq' = reqq \/ (reqq # <<>> /\ reqq' = Tail(reqq))
    BY <1>8, Zenon DEF PollerDrops, PollerGives
  <2>4. CASE reqq # <<>> /\ reqq' = Tail(reqq)
    <3>1. reqq' \in Seq(Reqs) /\ Len(reqq') = Len(reqq) - 1 /\ Len(reqq) \in Nat
      BY <1>0, <2>4, HeadTail, Zenon
    <3>2. Len(reqq') <= MaxIdle
      BY <1>0, <3>1
    <3> QED
      BY <1>0, <2>1, <2>2, <3>1, <3>2, Zenon DEF QueuesOK
  <2> QED
    BY <1>0, <2>1, <2>2, <2>3, <2>4, Zenon DEF QueuesOK
<1> QED
  BY <1>1, <1>2, <1>3, <1>4, <1>5, <1>6, <1>7, <1>8, ClientNext, Steps, ZenonT(60)

(* The counters, whatever step is taken.                                   *)
LEMMA CountsNext == CliOK /\ QueuesOK /\ CountsOK /\ [IcapNext]_icapVars => CountsOK'
<1> SUFFICES ASSUME CliOK, QueuesOK, CountsOK, [IcapNext]_icapVars PROVE CountsOK'
  BY Zenon
<1>0. /\ ending \in Nat /\ idle \in Nat /\ creating \in Nat /\ asking \in Nat /\ min \in Nat
      /\ faults \in 0..MaxFaults /\ MaxFaults \in Nat
      /\ idle = Len(pollers) + ending /\ Len(pollers) \in Nat
      /\ pollers \in Seq(CleanConns) /\ cmdq \in Seq(ClientCmds) /\ poolq \in Seq(PoolCmds)
  BY IcapPoolAssumption DEF CountsOK, QueuesOK
<1>a. ASSUME NEW ok \in BOOLEAN, Connect(ok) PROVE faults' \in 0..MaxFaults
  BY <1>0, <1>a, SMTT(30) DEF Connect
<1>b. ASSUME NEW x \in CleanConns, SaveConnection(x), ending' = ending
      PROVE  idle' \in Nat /\ idle' = Len(pollers') + ending'
  <2>1. CASE Reusable(x)
    <3>1. idle' = idle + 1 /\ pollers' = Append(pollers, x)
      BY <1>b, <2>1, Zenon DEF SaveConnection
    <3>2. Len(pollers') = Len(pollers) + 1
      BY <1>0, <3>1, AppendSeq, Zenon
    <3> QED
      BY <1>0, <1>b, <3>1, <3>2
  <2>2. CASE ~Reusable(x)
    BY <1>0, <1>b, <2>2, Zenon DEF SaveConnection
  <2> QED
    BY <2>1, <2>2, Zenon
<1>1. CASE UNCHANGED icapVars
  BY <1>0, <1>1, Zenon DEF icapVars, CountsOK
<1>2. ASSUME NEW c \in Clients,
             \/ FetchConnection(c) \/ FetchTimeout(c) \/ SendHeader(c) \/ SendBody(c)
             \/ \E ok \in BOOLEAN : GetOptions(c, ok)
             \/ \E kind \in {"request", "response"} : RecvHeader(c, kind)
             \/ \E keep \in BOOLEAN : RecvAll(c, keep) \/ RecvBody(c, keep)
             \/ UseFails(c)
      PROVE  CountsOK'
  <2>1. UNCHANGED <<poolVars, faults>>
    BY <1>2, ZenonT(60) DEF FetchConnection, FetchTimeout, SendHeader, SendBody,
       GetOptions, RecvHeader, RecvAll, RecvBody, UseFails, Done
  <2> QED
    BY <1>0, <2>1, Zenon DEF poolVars, CountsOK
<1>3. ASSUME NEW c \in Clients, NEW ok \in BOOLEAN, FetchFallback(c, ok) PROVE CountsOK'
  <2>1. UNCHANGED poolVars /\ faults' \in 0..MaxFaults
    BY <1>3, <1>a, Zenon DEF FetchFallback
  <2> QED
    BY <1>0, <2>1, Zenon DEF poolVars, CountsOK
<1>4. ASSUME NEW expired \in BOOLEAN, Check(expired) PROVE CountsOK'
  <2>1. UNCHANGED <<ending, idle, min, pollers>>
    BY <1>4, Zenon DEF Check
  <2>2. creating' \in Nat /\ asking' \in Nat /\ faults' \in 0..MaxFaults
    <3> DEFINE need == IF idle < min THEN min - idle ELSE 0
               ask == IF expired THEN 1 ELSE 0
    <3>1. /\ creating' = creating + need /\ asking' = asking + ask
          /\ faults + ask <= MaxFaults /\ faults' = faults + ask
      BY <1>4, Zenon DEF Check
    <3>2. need \in Nat /\ ask \in Nat
      BY <1>0
    <3> HIDE DEF need, ask
    <3> QED
      BY <1>0, <3>1, <3>2
  <2> QED
    BY <1>0, <2>1, <2>2, Zenon DEF CountsOK
<1>5. CASE HandleClientCmd
  <2> DEFINE m == Head(cmdq)
  <2>1. m \in ClientCmds
    BY <1>0, <1>5, HeadTail, Zenon DEF HandleClientCmd
  <2>2. UNCHANGED <<creating, asking, ending, faults, min>>
    BY <1>5, Zenon DEF HandleClientCmd
  <2>3. CASE m.op = "save" /\ HandleSave(m)
    <3>1. m.conn \in CleanConns
      BY <2>1, <2>3, Zenon DEF ClientCmds, SaveCmds
    <3>2. SaveConnection(m.conn) \/ UNCHANGED <<idle, pollers>>
      BY <2>3, Zenon DEF HandleSave
    <3> QED
      BY <1>0, <1>b, <2>2, <3>1, <3>2, Zenon DEF CountsOK
  <2>4. CASE UNCHANGED <<idle, pollers>>
    BY <1>0, <2>2, <2>4, Zenon DEF CountsOK
  <2> QED
    BY <1>5, <2>3, <2>4, Zenon DEF HandleClientCmd, HandleFetch
<1>6. CASE HandlePoolCmd
  <2> DEFINE m == Head(poolq)
  <2>1. m \in PoolCmds
    BY <1>0, <1>6, HeadTail, Zenon DEF HandlePoolCmd
  <2>2. UNCHANGED <<asking, ending, faults, min>>
    BY <1>6, Zenon DEF HandlePoolCmd
  <2>3. CASE m.op = "save" /\ SaveConnection(m.conn) /\ UNCHANGED creating
    <3>1. m.conn \in CleanConns
      BY <2>1, <2>3, Zenon DEF PoolCmds, SaveCmds
    <3> QED
      BY <1>0, <1>b, <2>2, <2>3, <3>1, Zenon DEF CountsOK
  <2>4. CASE creating' \in {creating, creating + 1} /\ UNCHANGED <<idle, pollers>>
    <3>1. creating' \in Nat
      BY <1>0, <2>4
    <3> QED
      BY <1>0, <2>2, <2>4, <3>1, Zenon DEF CountsOK
  <2> QED
    BY <1>6, <2>3, <2>4, Zenon DEF HandlePoolCmd
<1>7. ASSUME NEW t \in tasks, PollTask(t) PROVE CountsOK'
  BY <1>0, <1>7, Zenon DEF PollTask, CountsOK
<1>8. ASSUME NEW t \in tasks, NEW ok \in BOOLEAN, ConnectTask(t, ok) PROVE CountsOK'
  BY <1>0, <1>8, <1>a, Zenon DEF ConnectTask, CountsOK
<1>9. ASSUME NEW ok \in BOOLEAN, CreateTask(ok) PROVE CountsOK'
  <2>1. Connect(ok) /\ UNCHANGED <<ending, idle, asking, min, pollers>>
        /\ creating > 0 /\ creating' = creating - 1
    BY <1>9, Zenon DEF CreateTask
  <2>2. creating' \in Nat
    BY <1>0, <2>1
  <2> QED
    BY <1>0, <1>a, <2>1, <2>2, Zenon DEF CountsOK
<1>10. CASE PollerEnds
  <2>1. /\ ending > 0 /\ ending' = ending - 1 /\ idle' = idle - 1
        /\ UNCHANGED <<pollers, creating, asking, faults, min>>
    BY <1>10, Zenon DEF PollerEnds
  <2>2. ending' \in Nat /\ idle' \in Nat /\ idle' = Len(pollers) + ending'
    BY <1>0, <2>1
  <2> QED
    BY <1>0, <2>1, <2>2, Zenon DEF CountsOK
<1>11. ASSUME NEW i \in DOMAIN pollers, PollerDrops(i) \/ PollerGives(i) PROVE CountsOK'
  <2>1. /\ pollers' = Without(pollers, i) /\ ending' = ending + 1
        /\ UNCHANGED <<idle, creating, asking, min>>
        /\ faults' = faults \/ (faults < MaxFaults /\ faults' = faults + 1)
    BY <1>11, Zenon DEF PollerDrops, PollerGives
  <2>2. Len(pollers') = Len(pollers) - 1
    BY <1>0, <2>1, WithoutSeq, Zenon
  <2>3. ending' \in Nat /\ idle = Len(pollers') + ending' /\ faults' \in 0..MaxFaults
    BY <1>0, <2>1, <2>2, SMTT(30)
  <2> QED
    BY <1>0, <2>1, <2>3, Zenon DEF CountsOK
<1>12. ASSUME NEW ok \in BOOLEAN, OptionsTask(ok) PROVE CountsOK'
  <2>1. /\ UNCHANGED <<ending, idle, creating, faults, min, pollers>>
        /\ asking > 0 /\ asking' = asking - 1
    BY <1>12, Zenon DEF OptionsTask
  <2>2. asking' \in Nat
    BY <1>0, <2>1
  <2> QED
    BY <1>0, <2>1, <2>2, Zenon DEF CountsOK
<1> QED
  BY <1>1, <1>2, <1>3, <1>4, <1>5, <1>6, <1>7, <1>8, <1>9, <1>10, <1>11, <1>12, Steps,
     ZenonT(60)

-----------------------------------------------------------------------------
(* The theorems.                                                           *)

(* The pool starts without connections, callers at rest.                   *)
LEMMA PoolInvInit == IcapInit => PoolInv
<1> SUFFICES ASSUME IcapInit PROVE PoolInv
  BY Zenon
<1>1. Resting(0) \in Callers /\ Resting(0).pc = "rest"
  BY NewConnClean, IcapPoolAssumption DEF Resting, Callers, Pcs, CleanConns
<1>2. cli = [c \in Clients |-> Resting(0)]
  BY Zenon DEF IcapInit
<1>3. CliOK
  BY <1>1, <1>2, Zenon DEF CliOK
<1>4. QueuesOK
  BY IcapPoolAssumption DEF IcapInit, QueuesOK
<1>5. CountsOK
  BY IcapPoolAssumption DEF IcapInit, CountsOK
<1> QED
  BY <1>3, <1>4, <1>5, Zenon DEF PoolInv

(* The invariant holds always.                                             *)
LEMMA PoolInvAlways == IcapSpec => []PoolInv
<1>1. PoolInv /\ [IcapNext]_icapVars => PoolInv'
  BY CliNext, QueuesNext, CountsNext, Zenon DEF PoolInv
<1> QED
  BY <1>1, PoolInvInit, PTL DEF IcapSpec

(* idle_conn_count is the number of pollers, those about to leave          *)
(* included, in every reachable state (pool.rs save_connection and         *)
(* connection.rs IcapConnectionEofPoller): commands, connects that fail,   *)
(* pollers that drop or give away their connection and their late          *)
(* fetch_sub do not make it drift.                                         *)
THEOREM IdleCountAlways == IcapSpec => []IdleCount
<1>1. PoolInv => IdleCount
  <2> SUFFICES ASSUME PoolInv PROVE IdleCount
    BY Zenon
  <2>1. \A i \in DOMAIN pollers : pollers[i] \in Connections
    <3>1. pollers \in Seq(CleanConns)
      BY Zenon DEF PoolInv, QueuesOK
    <3>2. \A i \in DOMAIN pollers : pollers[i] \in CleanConns
      BY <3>1
    <3> QED
      BY <3>2, Zenon DEF CleanConns
  <2>2. cli \in [Clients -> [pc : {"rest", "wait", "create", "options", "use", "send", "body"},
                             conn : Connections, round : 0..MaxRounds,
                             kind : {"none", "request", "response"}]]
    BY Zenon DEF PoolInv, CliOK, Callers, Pcs
  <2> QED
    BY <2>1, <2>2, Zenon DEF PoolInv, QueuesOK, CountsOK, IdleCount, IcapTypes
<1> QED
  BY <1>1, PoolInvAlways, PTL

(* No adapter is handed, and the pool never keeps, a connection that       *)
(* carries something of an earlier request, but for a body cut short by an *)
(* early answer (connection.rs reusable, the marks of the adapters,        *)
(* pool.rs save_connection).                                               *)
THEOREM HandedAlwaysClean == IcapSpec => []HandedClean
<1>1. PoolInv => HandedClean
  <2> SUFFICES ASSUME PoolInv PROVE HandedClean
    BY Zenon
  <2>1. pollers \in Seq(CleanConns)
    BY Zenon DEF PoolInv, QueuesOK
  <2>2. \A i \in DOMAIN pollers : pollers[i] \in CleanConns
    BY <2>1
  <2> QED
    BY <2>2, Zenon DEF PoolInv, CliOK, CleanConns, HandedClean
<1> QED
  BY <1>1, PoolInvAlways, PTL
=============================================================================
