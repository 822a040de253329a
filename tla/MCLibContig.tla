---------------------------- MODULE MCLibContig ----------------------------
(* Three threads that race for the first call of libcontig, for TLC.       *)
EXTENDS LibContig, TLC

CONSTANTS t1, t2, t3, h1, h2

ThreeThreads == {t1, t2, t3}
ThreeFds == {3, 4, 5}
TwoHandles == {h1, h2}
=============================================================================
