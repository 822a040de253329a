---------------------------- MODULE MCEspDevices ----------------------------
(* Two drivers with two devices each: one whose devices are bound by        *)
(* several processes at once and may fail, one whose devices are unbound    *)
(* and get new numbers.  Numbers are written in base 2, so that 1 is the    *)
(* beginning of 2.                                                          *)
EXTENDS EspDevices, TLC

CONSTANTS a, b, a1, a2, b1, b2, f1, f2

MCDriverOf == (a1 :> a) @@ (a2 :> a) @@ (b1 :> b) @@ (b2 :> b)
MCYx == (a1 :> <<1, 2>>) @@ (a2 :> <<4, 3>>) @@ (b1 :> <<7, 0>>) @@ (b2 :> <<2, 5>>)
MCRequests ==
    {[p2p_srcs |-> << >>, p2p_store |-> TRUE],
     [p2p_srcs |-> <<<<b, 2>>, <<a, 1>>>>, p2p_store |-> FALSE]}

\* Bound: after writers overlapped on the list, only during a walk.
Followed == raced = {} \/ \E f \in Files : io[f] = "walk"

\* What is in the register of a device that no access has locked is cleared
\* before it is read (P2pInit).
View ==
    <<driver, device, list, file, dangling, lock, io, req, k, at, steady,
      [v \in Devices |-> IF lock[v] = NoFile THEN {} ELSE P2P_REG[v]]>>

FileSymmetry == Permutations(Files)
=============================================================================
