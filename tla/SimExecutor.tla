----------------------------- MODULE SimExecutor -----------------------------
(***************************************************************************)
(* The executor of the simulation (fdb_rt.rs): one thread, tasks started    *)
(* by fdb_spawn, a queue of woken tasks, and poll_pending_tasks, which the  *)
(* callback of every native future runs (future.rs, CUSTOM_EXECUTOR_HOOK).  *)
(*                                                                         *)
(* A task is a sequence of Steps waits.  It waits for a native future,      *)
(* possibly shared with other tasks; if Yields, it may also wake itself and *)
(* return Pending, as cooperative combinators do.                           *)
(***************************************************************************)
EXTENDS Naturals, Sequences, FiniteSets, SequencesExt

CONSTANTS
    Task, Future,
    Steps,              \* bound: waits of a task
    Yields,
    None

VARIABLES
    slot,       \* Task::f: "unspawned", "some", or "none" once it returned Ready
    waits,      \* what a task's future waits for
    left,       \* waits still to come
    pending,    \* native futures in flight: the tasks their waker chain reaches
    TASKS,      \* the queue of woken tasks
    batch       \* what poll_pending_tasks took from it and has yet to poll

vars == <<slot, waits, left, pending, TASKS, batch>>

-----------------------------------------------------------------------------
Idle == batch = <<>>
Running(t) == slot[t] = "some"

\* What a task may wait for next: a native future it starts or shares, or itself.
WaitsNext(t) == Future \cup (IF Yields THEN {t} ELSE {})

\* Wake: the task is queued, not polled.
Woken(queue, tasks) == queue \o SetToSeq(tasks)

\* The waits that are over when a task is polled.
Over(t) ==
    \/ waits[t] = t
    \/ waits[t] \in Future /\ t \notin pending[waits[t]]

\* Its future goes on: it returns Ready, or waits again and returns Pending.
GoesOn(t, queue) ==
    IF left[t] = 0
    THEN /\ slot' = [slot EXCEPT ![t] = "none"]
         /\ waits' = [waits EXCEPT ![t] = None]
         /\ TASKS' = queue
         /\ UNCHANGED <<left, pending>>
    ELSE \E next \in WaitsNext(t) :
         /\ left' = [left EXCEPT ![t] = @ - 1]
         /\ waits' = [waits EXCEPT ![t] = next]
         /\ slot' = [slot EXCEPT ![t] = "some"]
         /\ pending' = IF next \in Future
                       THEN [pending EXCEPT ![next] = @ \cup {t}] ELSE pending
         /\ TASKS' = IF next = t THEN Woken(queue, {t}) ELSE queue

\* fdb_spawn: the task is polled at once.
Spawn(t) ==
    /\ Idle /\ slot[t] = "unspawned"
    /\ GoesOn(t, TASKS)
    /\ UNCHANGED batch

\* The event loop resolves a native future: fdb_future_callback wakes the chain
\* of wakers behind it, then poll_pending_tasks takes the queue.
Resolve(f) ==
    /\ Idle /\ pending[f] # {}
    /\ pending' = [pending EXCEPT ![f] = {}]
    /\ batch' = Woken(TASKS, pending[f])
    /\ TASKS' = <<>>
    /\ UNCHANGED <<slot, waits, left>>

PollNext_TakesOne ==
    /\ ~Idle
    /\ batch' = <<>>
    /\ IF Running(Head(batch)) /\ Over(Head(batch))
       THEN GoesOn(Head(batch), TASKS)
       ELSE UNCHANGED <<slot, waits, left, pending, TASKS>>

\* Task::poll on each task taken: nothing if its future returned Ready before,
\* Pending again if what it waits for is not over.
PollNext ==
    /\ ~Idle
    /\ batch' = Tail(batch)
    /\ IF Running(Head(batch)) /\ Over(Head(batch))
       THEN GoesOn(Head(batch), TASKS)
       ELSE UNCHANGED <<slot, waits, left, pending, TASKS>>

-----------------------------------------------------------------------------
Init ==
    /\ slot = [t \in Task |-> "unspawned"]
    /\ waits = [t \in Task |-> None]
    /\ left = [t \in Task |-> Steps]
    /\ pending = [f \in Future |-> {}]
    /\ TASKS = <<>> /\ batch = <<>>

Next ==
    \/ \E t \in Task : Spawn(t)
    \/ \E f \in Future : Resolve(f)
    \/ PollNext

Spec == Init /\ [][Next]_vars

=============================================================================
