--------------------------- MODULE MCContigAlloc ---------------------------
(* Two processes that each open the allocator once, for TLC.               *)
EXTENDS ContigAlloc, TLC

CONSTANTS t1, t2, f1, f2, d1, d2, d3

MCThreads == {t1, t2}
MCFiles == {f1, f2}
PrivateFile == t1 :> f1 @@ t2 :> f2
MCDescs == {d1, d2, d3}
TwoDescs == {d1, d2}
MCMem == 0 :> 3 @@ 1 :> 2
OneEach == 0 :> 1 @@ 1 :> 1

Ask(policy, node, threshold, cluster, size) ==
    [policy |-> policy, ddr_node |-> node, threshold |-> threshold,
     cluster_size |-> cluster, size |-> size, n_max |-> 5]

\* One caller leaves room for two chunks when its buffer has three.
MCRequests == {Ask("preferred", 0, 0, 1, 5), Ask("preferred", 1, 0, 1, 3),
               Ask("least_loaded", 0, 1, 1, 4),
               [Ask("least_loaded", 0, 1, 1, 5) EXCEPT !.n_max = 2],
               Ask("balanced", 0, 0, 2, 9), Ask("balanced", 0, 1, 1, 6)}
TinyRequests == {Ask("preferred", 1, 0, 1, 4), Ask("least_loaded", 0, 1, 1, 1)}

\* The descriptors are interchangeable, and so are the two processes.
Swap == t1 :> t2 @@ t2 :> t1 @@ f1 :> f2 @@ f2 :> f1
Same == t1 :> t1 @@ t2 :> t2 @@ f1 :> f1 @@ f2 :> f2
Symmetry == {p @@ q : p \in Permutations(MCDescs), q \in {Swap, Same}}
=============================================================================
