----------------------------- MODULE MCIpLocate -----------------------------
(* A small instance of the IP location client: an address in a network of  *)
(* its own and in a wider one.                                             *)
EXTENDS IpLocate

CONSTANTS a, b

TwoNets == {{a}, {a, b}}
=============================================================================
