---------------------------- MODULE SynthChains ----------------------------
(***************************************************************************)
(* The workload generator src/drivers/synth/app/synth.c: phase by phase it *)
(* cuts one buffer per thread into the regions of a chain of accelerators, *)
(* allocates the buffers, opens the devices, runs a thread per chain, each *)
(* accelerator reading what the one before it wrote, joins the threads and *)
(* frees the buffers.  Any failure ends the program.  The tables that say  *)
(* which accelerators a phase runs are constants (module SynthTables).     *)
(***************************************************************************)
EXTENDS Integers, Sequences, SequencesExt, FiniteSets

CONSTANTS
    NPhases, NThreads, NDev,  \* phases, threads of a phase, length of a chain
    DevId,           \* [phase][thread][position] -> accelerator
    FirstSize,       \* [phase][thread] -> words that the first one reads
    Cfg,             \* [phase][accelerator] -> access, ratio, in_place
    Accelerators, Nodes, Hops,    \* Hops[accelerator][DDR node]
    Width            \* bound: threads of a phase at work at once

PhaseIds == 0 .. NPhases - 1
Threads(p) == 0 .. NThreads[p] - 1
Positions(p, t) == 0 .. NDev[p][t] - 1

ASSUME SynthAssumption ==
    /\ NPhases \in Nat \ {0} /\ NThreads \in [PhaseIds -> Nat \ {0}]
    /\ \A p \in PhaseIds : \A t \in Threads(p) :
         /\ NDev[p][t] \in Nat \ {0} /\ FirstSize[p][t] \in Nat
         /\ DevId[p][t] \in [Positions(p, t) -> Accelerators]
    /\ Cfg \in [PhaseIds -> [Accelerators ->
                 [access : Nat \ {0}, ratio : Nat \ {0}, in_place : BOOLEAN]]]
    /\ IsFiniteSet(Nodes) /\ Nodes = 0 .. Cardinality(Nodes) - 1 /\ Nodes # {}
    /\ Hops \in [Accelerators -> [Nodes -> Nat]]
    /\ Width \in Nat \ {0}

VARIABLES
    pc, phase,       \* main: where it is, the phase
    thread, acc,     \*   and the indices of its loops
    alloc,           \* enum alloc_effort
    chain,           \* per thread: the accesses configured so far
    words,           \* per thread: info->memsz, in words
    mem, params,     \* threads that have their buffer, their contig_alloc_params
    fds,             \* open descriptors
    at               \* per thread created: the access it is in, or its length

loops == <<phase, thread, acc>>
config == <<chain, words>>
memory == <<mem, params>>
vars == <<pc, loops, alloc, config, memory, fds, at>>

Labels == {"config", "alloc", "prepare", "create", "join", "free", "end", "dead"}

Init ==
    /\ pc = "config"
    /\ phase = 0 /\ thread = 0 /\ acc = 0
    /\ alloc \in {"NONE", "AUTO"}
    /\ chain = << >> /\ words = << >>
    /\ mem = {} /\ params = << >>
    /\ fds = 0
    /\ at = << >>

Put(f, x, y) == [z \in DOMAIN f \cup {x} |-> IF z = x THEN y ELSE f[z]]
LastThread(p) == NThreads[p] - 1

\* Mutant: one thread too many.
NextThread_past(label) ==
    IF thread <= LastThread(phase) THEN thread' = thread + 1 /\ UNCHANGED pc
                                   ELSE thread' = 0 /\ pc' = label

\* A loop of main over the threads goes on, or main goes on to label.
NextThread(label) ==
    IF thread < LastThread(phase) THEN thread' = thread + 1 /\ UNCHANGED pc
                            ELSE thread' = 0 /\ pc' = label

\* die_errno
Dies ==
    /\ pc' = "dead"
    /\ thread' = 0 /\ acc' = 0
    /\ chain' = << >> /\ words' = << >>
    /\ mem' = {} /\ params' = << >>
    /\ fds' = 0 /\ at' = << >>
    /\ UNCHANGED <<phase, alloc>>

-----------------------------------------------------------------------------
(* The loop over the sizes, and config_thread                              *)

\* in_size and out_size of an accelerator, after those before it in the chain.
InSize == IF acc = 0 THEN FirstSize[phase][thread] ELSE chain[thread][acc - 1].out_size
OutSize(in, c) == (in \div c.access) \div c.ratio

\* An accelerator that works in place leaves its output where its input was.
Offset ==
    IF acc = 0 THEN 0
    ELSE LET prev == chain[thread][acc - 1]
         IN  IF prev.in_place THEN prev.offset ELSE prev.offset + prev.in_size

\* Mutant: room for the outputs alone.
Words_out(in, out, in_place) ==
    (IF acc = 0 THEN 0 ELSE words[thread]) + (IF in_place THEN 0 ELSE out)

\* memsz: the first input, and every output that is not in place.
Words(in, out, in_place) ==
    (IF acc = 0 THEN in ELSE words[thread]) + (IF in_place THEN 0 ELSE out)

Configure ==
    LET d == DevId[phase][thread][acc]
        c == Cfg[phase][d]
        in == InSize
        out == OutSize(in, c)
        desc == [devid |-> d, in_size |-> in, out_size |-> out, offset |-> Offset,
                 in_place |-> c.in_place,
                 footprint |-> in \div c.access + (IF c.in_place THEN 0 ELSE out)]
    IN  /\ pc = "config"
        /\ chain' = Put(chain, thread,
                        Put(IF acc = 0 THEN << >> ELSE chain[thread], acc, desc))
        /\ words' = Put(words, thread, Words(in, out, c.in_place))
        /\ IF acc < NDev[phase][thread] - 1
           THEN acc' = acc + 1 /\ UNCHANGED <<pc, thread>>
           ELSE acc' = 0 /\ NextThread("alloc")
        /\ UNCHANGED <<phase, alloc, memory, fds, at>>

-----------------------------------------------------------------------------
(* alloc_phase                                                             *)

Upto(n) == [i \in 1 .. n |-> i - 1]

\* The first index with the most: a loop that keeps what it finds better.
FirstMost(m) ==
    FoldLeft(LAMBDA best, i : IF m[i] > m[best] THEN i ELSE best, 0, Upto(Cardinality(DOMAIN m)))

\* Mutant: compares what the first accelerators read.
LargestThread_in == FirstMost([i \in Threads(phase) |-> chain[i][0].in_size])

\* The thread with the most memory.
LargestThread == FirstMost(words)

\* The hops of a chain to a DDR node, and the nearest node.
Cost(t, n) == SumFunction([a \in DOMAIN chain[t] |-> Hops[chain[t][a].devid][n]])
PreferredNode(t) == FirstMost([n \in Nodes |-> -Cost(t, n)])

Params(t) ==
    IF alloc = "NONE" THEN [policy |-> "PREFERRED", ddr_node |-> 0]
    ELSE IF NThreads[phase] < 3 THEN [policy |-> "BALANCED", threshold |-> 4, cluster_size |-> 1]
    ELSE IF t = LargestThread THEN [policy |-> "PREFERRED", ddr_node |-> PreferredNode(t)]
    ELSE [policy |-> "LEAST_LOADED", threshold |-> 4]

\* contig_alloc_policy, and the accesses get the handle.
AllocThread ==
    /\ pc = "alloc"
    /\ params' = Put(params, thread, Params(thread))
    /\ mem' = mem \cup {thread}
    /\ NextThread("prepare")
    /\ UNCHANGED <<phase, acc, alloc, config, fds, at>>

\* prepare_thread: nothing ever closes these descriptors.
Prepare ==
    /\ pc = "prepare"
    /\ fds' = fds + NDev[phase][thread]
    /\ NextThread("create")
    /\ UNCHANGED <<phase, acc, alloc, config, memory, at>>

-----------------------------------------------------------------------------
(* The threads of a phase                                                  *)

Length(t) == NDev[phase][t]
AtWork == {t \in DOMAIN at : at[t] < Length(t)}

Create ==
    /\ pc = "create"
    /\ Cardinality(AtWork) < Width
    /\ at' = Put(at, thread, 0)
    /\ NextThread("join")
    /\ UNCHANGED <<phase, acc, alloc, config, memory, fds>>

\* accelerator_thread: an ioctl returns, and the next begins.
Advance(t) ==
    /\ t \in AtWork
    /\ at' = [at EXCEPT ![t] = @ + 1]
    /\ UNCHANGED <<pc, loops, alloc, config, memory, fds>>

Join ==
    /\ pc = "join"
    /\ at[thread] = Length(thread)
    /\ NextThread("free")
    /\ UNCHANGED <<phase, acc, alloc, config, memory, fds, at>>

\* free_phase, and after the last thread the next phase.
Free ==
    /\ pc = "free"
    /\ mem' = mem \ {thread}
    /\ IF thread < LastThread(phase)
       THEN thread' = thread + 1 /\ UNCHANGED <<pc, phase, config, params, at>>
       ELSE /\ thread' = 0
            /\ chain' = << >> /\ words' = << >> /\ params' = << >> /\ at' = << >>
            /\ IF phase < NPhases - 1
               THEN phase' = phase + 1 /\ pc' = "config"
               ELSE pc' = "end" /\ UNCHANGED phase
    /\ UNCHANGED <<acc, alloc, fds>>

\* The allocation, an open or pthread_create fails, or an ioctl in a thread.
Fails ==
    /\ pc \in {"alloc", "prepare", "create"} \/ AtWork # {}
    /\ Dies

Main == Configure \/ AllocThread \/ Prepare \/ Create \/ Join \/ Free

Next == Main \/ (\E t \in DOMAIN at : Advance(t)) \/ Fails

Spec == Init /\ [][Next]_vars
-----------------------------------------------------------------------------
(* Properties                                                              *)

Desc == [devid : Accelerators, in_size : Nat, out_size : Nat, offset : Nat,
         in_place : BOOLEAN, footprint : Nat]

\* The values the variables range over.
TypeOK ==
    /\ pc \in Labels
    /\ phase \in PhaseIds /\ thread \in Threads(phase)
    /\ acc \in Positions(phase, thread)
    /\ alloc \in {"NONE", "AUTO"}
    /\ DOMAIN chain \subseteq Threads(phase) /\ DOMAIN words = DOMAIN chain
    /\ \A t \in DOMAIN chain :
         /\ words[t] \in Nat
         /\ DOMAIN chain[t] \subseteq Positions(phase, t)
         /\ \A a \in DOMAIN chain[t] : chain[t][a] \in Desc
    /\ mem \subseteq Threads(phase) /\ DOMAIN params \subseteq Threads(phase)
    /\ fds \in Nat
    /\ DOMAIN at \subseteq Threads(phase)
    /\ \A t \in DOMAIN at : at[t] \in 0 .. Length(t)

\* "parallel chains should not invoke the same accelerator" (synth.c:231): no
\* two threads of a phase are ever in an access of one device.
ChainsDisjoint ==
    \A t, u \in AtWork : t # u => chain[t][at[t]].devid # chain[u][at[u]].devid

\* What an accelerator reads and writes: the first word and the number of words.
Input(desc) == <<desc.offset, desc.in_size>>
Output(desc) == <<IF desc.in_place THEN desc.offset ELSE desc.offset + desc.in_size, desc.out_size>>
Within(region, n) == region[1] + region[2] <= n

\* Every accelerator of a chain stays within the buffer of its thread, reads
\* exactly what the one before it wrote, and overwrites no input but its own when
\* it works in place, although the offsets, the sizes of the regions and that of
\* the buffer are summed up by different rules (synth.c:257-290).
RegionFits ==
    \A t \in DOMAIN chain : \A a \in DOMAIN chain[t] :
        LET desc == chain[t][a]
        IN  /\ Within(Input(desc), words[t]) /\ Within(Output(desc), words[t])
            /\ a > 0 => Input(desc) = Output(chain[t][a - 1])
            /\ ~desc.in_place => Within(Input(desc), Output(desc)[1])

\* With automatic allocation in a crowded phase one buffer has a DDR node of
\* its own choice: the largest, on the node fewest hops from its accelerators.
LargestNear ==
    \A t \in DOMAIN params : alloc = "AUTO" /\ NThreads[phase] >= 3 =>
        IF params[t].policy = "PREFERRED"
        THEN /\ \A u \in Threads(phase) : words[u] <= words[t]
             /\ \A n \in Nodes : Cost(t, params[t].ddr_node) <= Cost(t, n)
        ELSE \E u \in Threads(phase) : words[u] >= words[t] /\ u # t

=============================================================================
