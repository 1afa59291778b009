---------------------------- MODULE GaugeSemaphore ----------------------------
(***************************************************************************)
(* lib/g3-types/src/limit/gauge_semaphore.rs: a counting semaphore on one  *)
(* atomic counter.  try_acquire_n loads the counter and tries to replace   *)
(* it; between the two any other thread may act.  The check against the    *)
(* limit uses only the loaded value and belongs to the step that loads it. *)
(*                                                                         *)
(* A reload makes a new semaphore with another limit on the same counter   *)
(* (new_updated); a request that came in before keeps the old one.         *)
(***************************************************************************)
EXTENDS Naturals, FiniteSets

CONSTANTS Threads, Counts, Limits, UsizeMax

ASSUME GaugeSemaphoreAssumption ==
  /\ IsFiniteSet(Threads)
  /\ UsizeMax \in Nat
  /\ Counts \subseteq 0..UsizeMax /\ Limits \subseteq 0..UsizeMax

VARIABLES
  permits,  \* `permits` of the newest semaphore
  gauge,    \* the shared counter
  pc,       \* each thread: "idle", "load", "cas" or "holding" a permit
  limit,    \* `permits` of the semaphore it uses
  num,      \* num_permits, then the permit's `count`
  curr      \* curr of try_acquire_n, zero outside its loop

vars == <<permits, gauge, pc, limit, num, curr>>

Init ==
  /\ permits \in Limits /\ gauge = 0
  /\ pc = [t \in Threads |-> "idle"]
  /\ limit = [t \in Threads |-> permits]
  /\ num = [t \in Threads |-> 0]
  /\ curr = [t \in Threads |-> 0]

(* new_updated, which keeps the counter.                                   *)
new_updated(p) ==
  /\ permits' = p
  /\ UNCHANGED <<gauge, pc, limit, num, curr>>

(* A call of try_acquire_n on the semaphore of the moment.                 *)
Call(t, n) ==
  /\ pc[t] = "idle"
  /\ pc' = [pc EXCEPT ![t] = "load"]
  /\ limit' = [limit EXCEPT ![t] = permits]
  /\ num' = [num EXCEPT ![t] = n]
  /\ UNCHANGED <<permits, gauge, curr>>

(* The two tests on a value c of the counter; a failed one is the result.  *)
Admits(t, c) ==
  /\ c + num[t] <= UsizeMax
  /\ ~(limit[t] > 0 /\ c + num[t] > limit[t])

CheckLimit(t, c) ==
  /\ pc' = [pc EXCEPT ![t] = IF Admits(t, c) THEN "cas" ELSE "idle"]
  /\ curr' = [curr EXCEPT ![t] = IF Admits(t, c) THEN c ELSE 0]
  /\ UNCHANGED <<permits, gauge, limit, num>>

Load(t) == pc[t] = "load" /\ CheckLimit(t, gauge)

Exchange(t) ==
  /\ pc' = [pc EXCEPT ![t] = "holding"]
  /\ gauge' = curr[t] + num[t]
  /\ curr' = [curr EXCEPT ![t] = 0]
  /\ UNCHANGED <<permits, limit, num>>

(* (wrong) The counter is stored without a comparison.                     *)
CasStore(t) == pc[t] = "cas" /\ Exchange(t)

(* (wrong) After a failed exchange the limit is not checked again.         *)
CasRetryUnchecked(t) ==
  /\ pc[t] = "cas"
  /\ \/ gauge = curr[t] /\ Exchange(t)
     \/ /\ gauge # curr[t]
        /\ curr' = [curr EXCEPT ![t] = gauge]
        /\ UNCHANGED <<permits, gauge, pc, limit, num>>

(* compare_exchange; when it fails the actual value is checked.            *)
Cas(t) ==
  /\ pc[t] = "cas"
  /\ \/ gauge = curr[t] /\ Exchange(t)
     \/ gauge # curr[t] /\ CheckLimit(t, gauge)

(* fetch_sub, which wraps around.                                          *)
Sub(a, b) == IF b <= a THEN a - b ELSE a + (UsizeMax + 1 - b)

(* (wrong) A permit gives back one, whatever it counts.                    *)
DropOne(t) ==
  /\ pc[t] = "holding"
  /\ pc' = [pc EXCEPT ![t] = "idle"]
  /\ gauge' = Sub(gauge, 1)
  /\ UNCHANGED <<permits, limit, num, curr>>

(* Drop for GaugeSemaphorePermit.                                          *)
Drop(t) ==
  /\ pc[t] = "holding"
  /\ pc' = [pc EXCEPT ![t] = "idle"]
  /\ gauge' = Sub(gauge, num[t])
  /\ UNCHANGED <<permits, limit, num, curr>>

Next ==
  \/ \E t \in Threads, n \in Counts : Call(t, n)
  \/ \E t \in Threads : Load(t) \/ Cas(t) \/ Drop(t)
  \/ \E p \in Limits : new_updated(p)

Spec == Init /\ [][Next]_vars

-----------------------------------------------------------------------------
(* The counter is a usize and every local value has its type.              *)
TypeOK ==
  /\ permits \in Limits /\ gauge \in 0..UsizeMax
  /\ pc \in [Threads -> {"idle", "load", "cas", "holding"}]
  /\ limit \in [Threads -> Limits]
  /\ num \in [Threads -> 0..UsizeMax]
  /\ curr \in [Threads -> 0..UsizeMax]

(* A request's state as its caller sees it.                                *)
Seen == [t \in Threads |-> IF pc[t] \in {"load", "cas"} THEN "asking"
                                                        ELSE pc[t]]

Limit == INSTANCE AliveLimit WITH st <- Seen

(* The counter is the sum of the permits that are held, whatever the       *)
(* threads, the reloads and the failed exchanges in between: no permit is  *)
(* lost or given back twice, and fetch_sub never wraps.                    *)
GaugeIsHeld == gauge = Limit!Total

(* Each call decides in one step against the permits held at that moment:  *)
(* a grant never exceeds the limit and a refusal was due.                  *)
DecidesAtOnce == Limit!ALSpec
=============================================================================
