----------------------------- MODULE MCLibEsp -----------------------------
(* Two programs, configurations of two entries that share the devices: both *)
(* entries run, one does not and the other has a P2P source that does not   *)
(* exist, or one has a type that libesp does not know.                      *)
EXTENDS LibEsp, TLC

CONSTANTS p, q, d1, d2

E(run, known, dev, found) == [run |-> run, known |-> known, dev |-> dev, found |-> found]

MCConfigs == {<<E(TRUE, TRUE, d1, FALSE), E(FALSE, TRUE, d2, TRUE)>>,
              <<E(TRUE, TRUE, d2, TRUE), E(TRUE, TRUE, d1, TRUE)>>,
              <<E(FALSE, FALSE, d1, TRUE), E(TRUE, FALSE, d2, TRUE)>>}
MCMaxRuns == (p :> 2) @@ (q :> 1)
=============================================================================
