--------------------------- MODULE ResolvedRecord ---------------------------
(***************************************************************************)
(* How long a DNS answer is kept: the constructor                          *)
(* `ResolvedRecord::resolved` of lib/g3-resolver/src/record.rs and the     *)
(* check both drivers make on the two TTL bounds of their configuration.   *)
(*                                                                         *)
(* The TTLs are u32 values.  The arithmetic of the constructor is plain    *)
(* `+` and `-`, which wrap in the release profile; U32 is the modulus      *)
(* (2^32 in the program, a small number when TLC enumerates the inputs).   *)
(***************************************************************************)
EXTENDS Integers

CONSTANT
  U32  \* number of values of the TTL type

ASSUME U32Assumption == U32 \in Nat \ {0}

U32Add(a, b) == (a + b) % U32

U32Sub(a, b) == (a - b) % U32

(* A deliberately wrong variant of Ttls, to test the properties with: the  *)
(* last comparison accepts ttl = min, so the stale copy dies at expiry.    *)
TtlsOffByOne(ttl, min, max) ==
  IF ttl > U32Add(max, min) THEN [expire |-> max, vanish |-> ttl]
  ELSE IF ttl > U32Add(min, min)
       THEN [expire |-> U32Sub(ttl, min), vanish |-> ttl]
  ELSE IF ttl >= min THEN [expire |-> min, vanish |-> ttl]
  ELSE [expire |-> min, vanish |-> U32Add(min, 1)]

(* Seconds until a positive answer of time-to-live ttl leaves the cache    *)
(* (expire) and until it may no longer be served as a stale answer         *)
(* (vanish).                                                               *)
Ttls(ttl, min, max) ==
  IF ttl > U32Add(max, min) THEN [expire |-> max, vanish |-> ttl]
  ELSE IF ttl > U32Add(min, min)
       THEN [expire |-> U32Sub(ttl, min), vanish |-> ttl]
  ELSE IF ttl > min THEN [expire |-> min, vanish |-> ttl]
  ELSE [expire |-> min, vanish |-> U32Add(min, 1)]

(* The `check` of the c-ares and hickory driver configurations: a maximum  *)
(* below the minimum is raised to it.                                      *)
CheckedMax(min, max) == IF max < min THEN min ELSE max

-----------------------------------------------------------------------------
(* The reference: sphinx/g3proxy/configuration/resolvers/index.rst gives   *)
(* the calculation as a shell script, whose integers do not wrap.  Put in  *)
(* closed form, the cache keeps ttl - min clamped to min..max, and the     *)
(* stale copy lives to the end of the ttl, but at least one second longer  *)
(* than the minimum.                                                       *)
Larger(a, b) == IF a > b THEN a ELSE b
Smaller(a, b) == IF a < b THEN a ELSE b

DocTtls(ttl, min, max) ==
  [expire |-> Larger(min, Smaller(max, ttl - min)),
   vanish |-> Larger(ttl, min + 1)]
=============================================================================
