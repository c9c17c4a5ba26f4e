------------------------------ MODULE FdbFuture ------------------------------
(***************************************************************************)
(* FdbFuture::poll and fdb_future_callback (future.rs) on a multi-threaded  *)
(* executor: tasks poll the futures they hold while the network thread      *)
(* makes them ready and calls back.  The AtomicWaker between the two keeps  *)
(* the waker registered last and hands it out once.                         *)
(***************************************************************************)
EXTENDS Naturals, FiniteSets

CONSTANTS
    Future, Task,
    Moving,             \* futures that may be handed to another task while pending
    None

ASSUME MovingAssumption == Moving \subseteq Future
ASSUME NoneAssumption == None \notin Task

VARIABLES
    native,     \* ready, and what became of the callback
    waker,      \* the AtomicWaker's content
    future,     \* where each future's poll is
    owner,      \* the task that holds and polls it
    scheduled,  \* tasks woken and not yet run
    running,    \* tasks in their poll
    todo        \* futures a running task has still to poll

vars == <<native, waker, future, owner, scheduled, running, todo>>

-----------------------------------------------------------------------------
Wake(f) ==
    /\ scheduled' = scheduled \cup ({waker[f]} \ {None})
    /\ waker' = [waker EXCEPT ![f] = None]

\* The executor runs a scheduled task, which polls what it still waits for.
RunTask(t) ==
    /\ t \in scheduled /\ t \notin running
    /\ scheduled' = scheduled \ {t}
    /\ running' = running \cup {t}
    /\ todo' = [todo EXCEPT ![t] = {f \in Future : owner[f] = t
                                        /\ future[f] \in {"new", "pending"}}]
    /\ UNCHANGED <<native, waker, future, owner>>

\* poll: fdb_future_is_ready first ...
CheckReady(f) ==
    LET t == owner[f]
    IN  /\ t \in running /\ f \in todo[t]
        /\ \A g \in todo[t] : future[g] \notin {"register", "callback"}
        /\ IF native[f].ready
           THEN /\ future' = [future EXCEPT ![f] = "resolved"]
                /\ todo' = [todo EXCEPT ![t] = @ \ {f}]
           ELSE /\ future' = [future EXCEPT ![f] = "register"]
                /\ UNCHANGED todo
        /\ UNCHANGED <<native, waker, owner, scheduled, running>>

\* ... then the waker is registered, and the callback on the first poll only.
Register(f) ==
    /\ future[f] = "register"
    /\ waker' = [waker EXCEPT ![f] = owner[f]]
    /\ IF native[f].callback = "none"
       THEN /\ future' = [future EXCEPT ![f] = "callback"]
            /\ UNCHANGED todo
       ELSE /\ future' = [future EXCEPT ![f] = "pending"]
            /\ todo' = [todo EXCEPT ![owner[f]] = @ \ {f}]
    /\ UNCHANGED <<native, owner, scheduled, running>>

SetCallback_UnlessReady(f) ==
    /\ future[f] = "callback"
    /\ future' = [future EXCEPT ![f] = "pending"]
    /\ todo' = [todo EXCEPT ![owner[f]] = @ \ {f}]
    /\ native' = IF native[f].ready THEN native
                 ELSE [native EXCEPT ![f].callback = "set", ![f].sets = @ + 1]
    /\ UNCHANGED <<waker, scheduled, owner, running>>

\* fdb_future_set_callback calls back at once if the future became ready.
SetCallback(f) ==
    /\ future[f] = "callback"
    /\ future' = [future EXCEPT ![f] = "pending"]
    /\ todo' = [todo EXCEPT ![owner[f]] = @ \ {f}]
    /\ native' = [native EXCEPT
           ![f].callback = IF native[f].ready THEN "called" ELSE "set", ![f].sets = @ + 1]
    /\ IF native[f].ready THEN Wake(f) ELSE UNCHANGED <<waker, scheduled>>
    /\ UNCHANGED <<owner, running>>

ParkTask(t) ==
    /\ t \in running /\ todo[t] = {}
    /\ running' = running \ {t}
    /\ UNCHANGED <<native, waker, future, owner, scheduled, todo>>

\* The network thread: a result or an error arrives, then the callback runs.
BecomesReady(f) ==
    /\ ~native[f].ready
    /\ native' = [native EXCEPT ![f].ready = TRUE]
    /\ UNCHANGED <<waker, future, owner, scheduled, running, todo>>

Callback(f) ==
    /\ native[f].ready /\ native[f].callback = "set"
    /\ native' = [native EXCEPT ![f].callback = "called"]
    /\ Wake(f)
    /\ UNCHANGED <<future, owner, running, todo>>

\* Something else wakes a task, which then polls futures that are not ready.
WokenOtherwise(t) ==
    /\ scheduled' = scheduled \cup {t}
    /\ UNCHANGED <<native, waker, future, owner, running, todo>>

\* A pending future is handed to another task, which is woken to poll it.
HandOver(f, t) ==
    /\ f \in Moving /\ owner[f] # t /\ owner[f] \notin running /\ t \notin running
    /\ future[f] = "pending"
    /\ owner' = [owner EXCEPT ![f] = t]
    /\ scheduled' = scheduled \cup {t}
    /\ UNCHANGED <<native, waker, future, running, todo>>

\* A pending future is dropped: destroying it cancels it.
DropFuture(f) ==
    /\ owner[f] \notin running /\ future[f] \in {"new", "pending"}
    /\ future' = [future EXCEPT ![f] = "dropped"]
    /\ native' = [native EXCEPT ![f].ready = TRUE]
    /\ UNCHANGED <<waker, owner, scheduled, running, todo>>

-----------------------------------------------------------------------------
Init ==
    /\ native = [f \in Future |-> [ready |-> FALSE, callback |-> "none", sets |-> 0]]
    /\ waker = [f \in Future |-> None]
    /\ future = [f \in Future |-> "new"]
    /\ owner \in [Future -> Task]
    /\ scheduled = Task /\ running = {}
    /\ todo = [t \in Task |-> {}]

Polling(f) == CheckReady(f) \/ Register(f) \/ SetCallback(f)

Next ==
    \/ \E t \in Task : RunTask(t) \/ ParkTask(t) \/ WokenOtherwise(t)
    \/ \E f \in Future :
        \/ Polling(f)
        \/ BecomesReady(f)
        \/ Callback(f)
        \/ \E t \in Task : HandOver(f, t)
        \/ DropFuture(f)

Spec == Init /\ [][Next]_vars

-----------------------------------------------------------------------------
\* A task that was told Pending for f is run again, or will be by a callback still
\* to come, once f is ready.
WakeupComing(f) ==
    future[f] = "pending" /\ native[f].ready =>
        \/ owner[f] \in scheduled \cup running
        \/ native[f].callback = "set" /\ waker[f] = owner[f]

\* poll and fdb_future_callback: no wake-up is lost for a future that stays with the
\* task that polled it first, whatever the order of the readiness check, the
\* registration and the callback, and whatever other futures its task is handed.
NoLostWakeup == \A f \in Future \ Moving : WakeupComing(f)

\* fdb_future_callback, "resolve all wakeup chain": whoever holds the future.
HolderWoken == \A f \in Future : WakeupComing(f)

\* get_or_insert_with: the callback is set once, as each call of it consumes the
\* reference to the waker that Arc::into_raw gave away.
CallbackSetOnce == \A f \in Future : native[f].sets <= 1
=============================================================================
