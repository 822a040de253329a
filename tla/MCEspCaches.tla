---------------------------- MODULE MCEspCaches ----------------------------
(* Two threads flush the caches of two processors and the two banks; what  *)
(* one of them wrote goes through one of each.                             *)
EXTENDS EspCaches

CONSTANTS t1, t2, c1, c2, b1, b2, x

MCWriter == x :> t1
MCL2Of == x :> c1
MCBankOf == x :> b1
MCCpuid == (c1 :> 0) @@ (c2 :> 1)
=============================================================================
