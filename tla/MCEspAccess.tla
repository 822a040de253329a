---------------------------- MODULE MCEspAccess ----------------------------
(* Two threads that share one or two accelerators, for TLC.               *)
EXTENDS EspAccess, TLC

CONSTANTS t1, t2, a1, a2

TwoThreads == {t1, t2}
OneDevice == {a1}
TwoDevices == {a1, a2}

Ask(coh, size, policy, node, run) ==
    [coherence |-> coh, footprint |-> size, alloc_policy |-> policy,
     ddr_node |-> node, run |-> run, p2p_found |-> TRUE]

\* The private cache holds less than 2 units and a bank of the LLC 3: a job of
\* 1 may be fully coherent, one of 3 fits the LLC alone, one of 6 only when it
\* is spread over both banks.
Small == Ask(AUTO, 1, "preferred", 0, TRUE)
Medium == Ask(AUTO, 3, "least_loaded", 1, TRUE)
Large == Ask(AUTO, 6, "balanced", 0, TRUE)
Full == Ask(FULL, 3, "balanced", 0, TRUE)
Plain == Ask(NONE, 3, "balanced", 0, TRUE)
Recall == Ask(RECALL, 3, "balanced", 0, TRUE)
NoSource == [Small EXCEPT !.p2p_found = FALSE]
Unstarted(a) == [a EXCEPT !.run = FALSE]
Managing == {Small, Large, Unstarted(Full), NoSource}
EveryKind == {Small, Large, Full, Plain, Recall, Unstarted(Medium), NoSource}
Few == {Small, Full, Plain}
Mixed == {Small, Full, [Full EXCEPT !.p2p_found = FALSE]}

Symmetry == {p @@ q : p \in Permutations(Threads), q \in Permutations(Devices)}

\* The view of the runs about esp_status, where no call works beside the lock:
\* without what no guard reads (the registers, the answers, the histories of
\* the run) and without fields that are written before they are read (those of
\* a device that is not locked; completion until the access has programmed it).
Ending == {"run", "wait", "release", "update_footprint", "updated", "unlock"}
Awaited(d) == \E t \in Threads : lock[d] = t /\ dev[t] = d /\ pc[t] \in Ending
Alive(d) ==
    << IF lock[d] = NoThread THEN <<>>
       ELSE <<coherence[d], footprint[d], alloc_policy[d], ddr_node[d]>>,
       Awaited(d) /\ completion[d], state[d] = "running", state[d] = "idle",
       irq[d] # "none" >>
View == <<[d \in Devices |-> Alive(d)], lock, status_lock, counters, pc, call, charge>>
=============================================================================
