----------------------------- MODULE ContigAbs -----------------------------
(* What the allocator of contig_alloc.c promises its users: buffers appear *)
(* and disappear whole.  A chunk belongs to nobody or to one buffer of one *)
(* open file, and only the end of that buffer makes it free again.         *)
CONSTANTS Chunks, Descs, Files, Nobody

VARIABLE owner

Free == {ch \in Chunks : owner[ch] = Nobody}
Buffer(b) == {ch \in Chunks : owner[ch] = b}

Init == owner = [ch \in Chunks |-> Nobody]

\* A buffer of file f takes free chunks, all at once; its handle is fresh.
Alloc(d, f) ==
    /\ \A g \in Files : Buffer(<<d, g>>) = {}
    /\ \E S \in (SUBSET Free) \ {{}} :
         owner' = [ch \in Chunks |-> IF ch \in S THEN <<d, f>> ELSE owner[ch]]

Release(d, f) ==
    /\ Buffer(<<d, f>>) # {}
    /\ owner' = [ch \in Chunks |-> IF owner[ch] = <<d, f>> THEN Nobody ELSE owner[ch]]

Next == \E d \in Descs, f \in Files : Alloc(d, f) \/ Release(d, f)

Spec == Init /\ [][Next]_owner
=============================================================================
