------------------------------- MODULE EspJob -------------------------------
(***************************************************************************)
(* What the access ioctl of src/drivers/esp/esp.c promises its callers: an *)
(* accelerator works on one job at a time, the buffer of one caller, and   *)
(* what became of the job is told to that caller before the next begins.   *)
(***************************************************************************)
CONSTANTS Callers, Devices, Nobody

VARIABLES
    owner,  \* per accelerator, the caller whose buffer it works on
    phase   \* per accelerator: free, working, done or error

Init ==
    /\ owner = [d \in Devices |-> Nobody]
    /\ phase = [d \in Devices |-> "free"]

Begin(d, c) ==
    /\ phase[d] = "free"
    /\ owner' = [owner EXCEPT ![d] = c]
    /\ phase' = [phase EXCEPT ![d] = "working"]

Finish(d, how) ==
    /\ phase[d] = "working"
    /\ phase' = [phase EXCEPT ![d] = how]
    /\ UNCHANGED owner

Tell(d) ==
    /\ phase[d] \in {"done", "error"}
    /\ owner' = [owner EXCEPT ![d] = Nobody]
    /\ phase' = [phase EXCEPT ![d] = "free"]

Next ==
    \E d \in Devices :
        \/ \E c \in Callers : Begin(d, c)
        \/ \E how \in {"done", "error"} : Finish(d, how)
        \/ Tell(d)

Spec == Init /\ [][Next]_<<owner, phase>>

=============================================================================
