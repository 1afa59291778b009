-------------------------- MODULE MCResolvedRecord --------------------------
(* All configurations and all answers of a small TTL type.                 *)
EXTENDS ResolvedRecord

CONSTANTS
  MinConf, MaxConf  \* largest positive_min_ttl and positive_max_ttl set

(* The bounds do not add up to more than a TTL can be.                     *)
ASSUME MCResolvedRecordAssumption ==
  /\ {MinConf, MaxConf} \subseteq Nat
  /\ MinConf + 1 < U32 /\ MinConf + MinConf < U32 /\ MaxConf + MinConf < U32

VARIABLES
  min, max,  \* the driver's positive_min_ttl and positive_max_ttl
  ttl,       \* time-to-live of the last answer
  kept       \* what `resolved` made of it

recordVars == <<min, max, ttl, kept>>

Load ==
  /\ min \in 0..MinConf
  /\ \E m \in 0..MaxConf : max = CheckedMax(min, m)

RecordInit == Load /\ ttl = 0 /\ kept = Ttls(0, min, max)

Answer ==
  /\ ttl' \in 0..(U32 - 1)
  /\ kept' = Ttls(ttl', min, max)
  /\ UNCHANGED <<min, max>>

RecordSpec == RecordInit /\ [][Answer]_recordVars

(* Every answer is kept for exactly the times the documentation's script   *)
(* computes from the record's TTL and the two configured bounds.           *)
TtlsAsDocumented == kept = DocTtls(ttl, min, max)
=============================================================================
