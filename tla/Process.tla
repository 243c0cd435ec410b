------------------------------- MODULE Process -------------------------------
(***************************************************************************)
(* The library in its processes (utils/s2n_init.c): initialisation and     *)
(* cleanup, random numbers (Random) and the life of a connection in the    *)
(* first process (Connections).  Forks and the memory of connections do    *)
(* not touch each other, so a behaviour shows one or the other.            *)
(***************************************************************************)
EXTENDS Random, Connections

VARIABLES
    scene,              \* "forks" or "connections"
    main_thread         \* by process

vars == <<randomVars, connectionVars, scene, main_thread>>

(***************************************************************************)
(* s2n_init: the thread that calls it is the main thread, and memory is    *)
(* usable even if the random numbers are not.  With connections there is   *)
(* always entropy, and the application cleans up between connections or    *)
(* while one is established.                                               *)
(***************************************************************************)
s2n_init(p, t) ==
    /\ s2n_rand_init(p, t)
    /\ scene = "connections" => seeds' = seeds + 2 /\ phase \in {"none", "broken"}
    /\ main_thread' = [main_thread EXCEPT ![p] = t]
    /\ heap' = IF p = 1 THEN s2n_mem_init(heap) ELSE heap
    /\ UNCHANGED <<limit, mode, phase, cell, managed_io, events, uses, abandoned, scene>>

(***************************************************************************)
(* s2n_cleanup of a thread: its generators are wiped; the main thread      *)
(* closes the rest if that is not left to the end of the process.          *)
(***************************************************************************)
s2n_cleanup(p, t) ==
    /\ Runs(p, t) /\ proc[p].page > 0
    /\ scene = "connections" => heap.init /\ phase \in {"none", "done"}
    /\ LET pr == [proc[p] EXCEPT !.thread[t] = s2n_rand_cleanup_thread(@)]
           final == t = main_thread[p] /\ ~kernel.atexit_cleanup
       IN /\ proc' = [proc EXCEPT ![p] = IF final THEN s2n_rand_cleanup(pr) ELSE pr]
          /\ heap' = IF final /\ p = 1 THEN s2n_mem_cleanup(heap) ELSE heap
    /\ UNCHANGED <<kernel, seeds, limit, mode, phase, cell, managed_io, events, uses, abandoned, scene, main_thread>>

ForksNext ==
    /\ scene = "forks"
    /\ \/ \E p \in Processes, t \in Threads : s2n_get_random_data(p, t) /\ UNCHANGED main_thread
       \/ \E p \in Processes, t \in Threads : StartThread(p, t) /\ UNCHANGED main_thread
       \/ \E p, q \in Processes, t \in Threads, how \in {"fork", "clone"} :
             Fork(p, t, q, how) /\ main_thread' = [main_thread EXCEPT ![q] = main_thread[p]]
    /\ UNCHANGED <<connectionVars, scene>>

Init ==
    /\ RandomInit /\ ConnectionsInit
    /\ scene \in {"forks", "connections"}
    /\ scene = "connections" => kernel = CHOOSE k \in Kernels : ~k.atexit_cleanup
    /\ scene = "forks" => limit = CHOOSE n \in Limits : TRUE
    /\ main_thread = [p \in Processes |-> CHOOSE t \in Threads : proc[1].thread[t].alive]

Next ==
    \/ \E p \in Processes, t \in Threads : s2n_init(p, t) \/ s2n_cleanup(p, t)
    \/ ForksNext
    \/ scene = "connections" /\ ConnectionsNext /\ UNCHANGED <<randomVars, scene, main_thread>>

Spec == Init /\ [][Next]_vars
=============================================================================
