---------------------------- MODULE SynthTables ----------------------------
(***************************************************************************)
(* The tables of src/drivers/synth/app/synth.c: nine phases of chains over *)
(* twelve accelerators.  Of an accelerator's configuration only what the   *)
(* sizes depend on is kept; sizes are in words of four bytes.              *)
(***************************************************************************)
EXTENDS Integers, Sequences

nphases == 9
NDEV == 12
NDDR == 2

Phases == 0 .. nphases - 1
Devs == 0 .. NDEV - 1

\* Serial, parallel and highly parallel, each with three kinds of footprints.
nthreads == [p \in Phases |-> CASE p < 3 -> 1 [] p \in 3 .. 5 -> 6 [] OTHER -> 12]
ndev == [p \in Phases |-> [t \in 0 .. nthreads[p] - 1 |-> 4]]

\* Mutant: the last chain takes accelerator 10, which the one before has.
Pairs_typo == <<<<0, 1>>, <<2, 3>>, <<4, 5>>, <<6, 7>>, <<8, 10>>, <<9, 10>>>>

Pairs == <<<<0, 1>>, <<2, 3>>, <<4, 5>>, <<6, 7>>, <<8, 10>>, <<9, 11>>>>

\* The accelerators of a chain: four different ones, two of them twice, or one
\* four times.
devid == [p \in Phases |-> [t \in 0 .. nthreads[p] - 1 |-> [a \in 0 .. 3 |->
            CASE p < 3 -> <<6, 10, 1, 11>>[a + 1]
              [] p \in 3 .. 5 -> Pairs[t + 1][(a % 2) + 1]
              [] OTHER -> t]]]

K == 1024
M == 1024 * K

\* in_size[phase][thread][0]; phase 2, called "large", is smaller than phase 1,
\* called "small", and so are 5 and 8 than 4 and 7.
first_size ==
    LET row(seq) == [t \in 0 .. Len(seq) - 1 |-> seq[t + 1]]
    IN  [p \in Phases |->
           CASE p = 0 -> row(<<256 * K>>)
             [] p = 1 -> row(<<4 * M>>)
             [] p = 2 -> row(<<16 * K>>)
             [] p = 3 -> row(<<256 * K, 32 * K, 512 * K, 128 * K, 64 * K, 8 * K>>)
             [] p = 5 -> row(<<K, 4 * K, 16 * K, 2 * K, 8 * K, 4 * K>>)
             [] p = 6 -> row(<<128 * K, 64 * K, 32 * K, 16 * K, 512 * K, 256 * K,
                               16 * K, 512 * K, 16 * K, 8 * K, 128 * K, 256 * K>>)
             [] p = 8 -> row(<<K, 2 * K, 4 * K, 8 * K, 16 * K, K,
                               2 * K, 4 * K, 8 * K, 16 * K, K, 2 * K>>)
             [] OTHER -> [t \in 0 .. nthreads[p] - 1 |-> M]]

\* synth_cfg_init: the divisors 2^access_factor and ld_st_ratio, and in_place.
cfgid == [p \in Phases |-> IF p % 3 = 0 THEN 0 ELSE 1]
ld_st_ratio == <<1, 2, 4, 1, 2, 4, 1, 2, 4, 1, 2, 1>>
synth_cfg_init == [p \in Phases |-> [d \in Devs |->
    [access |-> CASE cfgid[p] = 0 /\ d = 7 -> 4 [] cfgid[p] = 0 /\ d = 11 -> 16 [] OTHER -> 1,
     ratio |-> IF cfgid[p] = 0 THEN ld_st_ratio[d + 1] ELSE 1,
     in_place |-> d \in {2, 3, 5, 8, 11}]]]

ddr_hops == [d \in Devs |-> [n \in 0 .. NDDR - 1 |->
    (<<<<1, 5>>, <<2, 4>>, <<3, 3>>, <<1, 5>>, <<3, 3>>, <<4, 2>>,
       <<2, 4>>, <<3, 3>>, <<5, 1>>, <<3, 3>>, <<4, 2>>, <<5, 1>>>>)[d + 1][n + 1]]]
=============================================================================
