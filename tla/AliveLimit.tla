------------------------------ MODULE AliveLimit ------------------------------
(***************************************************************************)
(* What a limit on simultaneous requests promises: a request is decided in *)
(* one step, against the permits held at that moment and the limit that    *)
(* was configured when it came in.  A limit of zero is no limit.           *)
(***************************************************************************)
EXTENDS Naturals, FiniteSets

CONSTANTS
  Threads,   \* the requests
  Counts,    \* numbers of permits a request may ask for
  Limits,    \* configured limits
  UsizeMax   \* the largest usize

VARIABLES
  permits,  \* the configured limit
  st,       \* each request: "idle", "asking" or "holding"
  limit,    \* the limit it is held to
  num       \* the permits it asks for, or holds

alvars == <<permits, st, limit, num>>

(* The permits held, one element for each.                                 *)
Held == {u \in Threads \X (1..UsizeMax) :
           st[u[1]] = "holding" /\ u[2] <= num[u[1]]}

Total == Cardinality(Held)

(* Whether n more permits fit on top of c.                                 *)
Fits(c, n, p) == c + n <= UsizeMax /\ (p > 0 => c + n <= p)

ALInit ==
  /\ permits \in Limits
  /\ st = [t \in Threads |-> "idle"]
  /\ limit = [t \in Threads |-> permits]
  /\ num = [t \in Threads |-> 0]

Ask(t, n) ==
  /\ st[t] = "idle"
  /\ st' = [st EXCEPT ![t] = "asking"]
  /\ limit' = [limit EXCEPT ![t] = permits]
  /\ num' = [num EXCEPT ![t] = n]
  /\ UNCHANGED permits

Grant(t) ==
  /\ st[t] = "asking" /\ Fits(Total, num[t], limit[t])
  /\ st' = [st EXCEPT ![t] = "holding"]
  /\ UNCHANGED <<permits, limit, num>>

Refuse(t) ==
  /\ st[t] = "asking" /\ ~Fits(Total, num[t], limit[t])
  /\ st' = [st EXCEPT ![t] = "idle"]
  /\ UNCHANGED <<permits, limit, num>>

Release(t) ==
  /\ st[t] = "holding"
  /\ st' = [st EXCEPT ![t] = "idle"]
  /\ UNCHANGED <<permits, limit, num>>

Configure(p) == permits' = p /\ UNCHANGED <<st, limit, num>>

ALNext ==
  \/ \E t \in Threads, n \in Counts : Ask(t, n)
  \/ \E t \in Threads : Grant(t) \/ Refuse(t) \/ Release(t)
  \/ \E p \in Limits : Configure(p)

ALSpec == ALInit /\ [][ALNext]_alvars
=============================================================================
