----------------------------- MODULE MCFutures -----------------------------
(***************************************************************************)
(* Futures on the two executors, for model checking: FdbFuture under one   *)
(* with many threads, and the executor of the simulation, SimExecutor.     *)
(* A behaviour is one of either.                                           *)
(***************************************************************************)
EXTENDS FdbFuture

CONSTANTS SimTask, SimFuture, Steps, Yields

VARIABLES
    simulated,                                          \* which of the two
    slot, waits, left, inflight, TASKS, batch           \* of SimExecutor

S == INSTANCE SimExecutor WITH Task <- SimTask, Future <- SimFuture, pending <- inflight

simvars == <<slot, waits, left, inflight, TASKS, batch>>
mcvars == <<simulated, vars, simvars>>

FixedOwner == CHOOSE o \in [Future -> Task] : TRUE
MCInit ==
    /\ Init /\ S!Init
    /\ simulated \in BOOLEAN
    /\ simulated => owner = FixedOwner

MCNext ==
    \/ simulated /\ S!Next /\ UNCHANGED <<simulated, vars>>
    \/ ~simulated /\ Next /\ UNCHANGED <<simulated, simvars>>

\* The executor runs woken tasks, tasks return from their poll, the network thread
\* calls back; the simulator resolves every native future in flight, and
\* poll_pending_tasks runs to its end.  Nothing else obliges a future to become
\* ready, nor anybody to drop it.
Threads(A) == ~simulated /\ A /\ UNCHANGED <<simulated, simvars>>
Simulator(A) == simulated /\ A /\ UNCHANGED <<simulated, vars>>
MCSpec ==
    /\ MCInit /\ [][MCNext]_mcvars
    /\ \A t \in Task : WF_mcvars(Threads(RunTask(t))) /\ WF_mcvars(Threads(ParkTask(t)))
    /\ \A f \in Future : WF_mcvars(Threads(Polling(f))) /\ WF_mcvars(Threads(Callback(f)))
    /\ WF_mcvars(Simulator(S!PollNext)) /\ \A f \in SimFuture : WF_mcvars(Simulator(S!Resolve(f)))


\* A future that became ready resolves or is dropped, without anything else having
\* to wake its task (fdb_future_callback); and a task spawned in the simulation
\* returns Ready once what it waits for is resolved (fdb_spawn, "Spawn an async
\* block and resolve all contained FoundationDB futures").
AllResolve ==
    /\ \A f \in Future \ Moving :
        ~simulated /\ native[f].ready ~> future[f] \in {"resolved", "dropped"}
    /\ \A t \in SimTask : simulated /\ S!Running(t) ~> slot[t] = "none"
=============================================================================
