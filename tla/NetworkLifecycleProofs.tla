----------------------- MODULE NetworkLifecycleProofs -----------------------
(***************************************************************************)
(* What NETWORK says of the client, that a stop is final, and that the     *)
(* process does not end with the network running: for any number of        *)
(* threads, calls and versions, wherever the threads are interrupted, and  *)
(* whatever fails.                                                         *)
(***************************************************************************)
EXTENDS NetworkLifecycle, TLAPS

USE ThreadAssumption, VersionAssumption

\* Calls and how far they got.
Calls ==
    /\ pc \in [Thread -> [op : Operation \cup Inside \cup {"idle"}, version : Version \cup {None}]]
    /\ \A t \in Thread : pc[t].op = "select" => pc[t].version \in Version

Process == [exit : {"no", "running", "closed", "terminated", "aborted"}, hooks : Nat,
            registered : BOOLEAN]

\* The shape of the variables, as far as the proofs need it.
Shape ==
    /\ lifecycle \in [state : State, version : Version \cup {None}]
    /\ lock \in Thread \cup {None}
    /\ Calls
    /\ flags \in [stopOnExit : BOOLEAN, runError : BOOLEAN]
    /\ native \in [selected : Version \cup {None}, setup : BOOLEAN, stop : BOOLEAN]
    /\ network \in {"none", "spawned", "running", "ended"}
    /\ process \in Process

\* Exactly the holder of the mutex is between two of its critical FFI calls.
HolderInside == \A t \in Thread : pc[t].op \in Inside <=> lock = t

\* What the holder has found and done so far.
Booting(t) ==
    /\ pc[t].op \in {"setup", "atexit", "spawn"} => lifecycle.state = "ApiVersionSelected"
    /\ pc[t].op \in {"atexit", "spawn"} => native.setup
    /\ pc[t].op = "join" => lifecycle.state = "Running"

\* What the state says of the client, of the network and of its thread.
StateInv ==
    /\ lifecycle.version = native.selected
    /\ lifecycle.state = "Uninitialized" <=> native.selected = None
    /\ lifecycle.state = "Running" => native.setup /\ network # "none"
    /\ lifecycle.state \in {"Uninitialized", "ApiVersionSelected"} => network = "none"
    /\ lifecycle.state = "Stopped" => network \in {"none", "ended"}
    /\ native.setup => lifecycle.state # "Uninitialized"

\* A registered hook has yet to run, or is stopping the network, or has stopped it,
\* unless it was told not to or aborted the process.
HookInv ==
    /\ process.registered => native.setup
    /\ process.registered /\ process.exit = "no" => process.hooks > 0
    /\ process.registered /\ flags.stopOnExit =>
        \/ process.hooks > 0
        \/ pc[Main].op \in {"stop", "join"}
        \/ lifecycle.state = "Stopped"
        \/ process.exit = "aborted"
    /\ process.exit = "terminated" => process.hooks = 0 /\ pc[Main] = Idle

IInv == Shape /\ HolderInside /\ (\A t \in Thread : Booting(t)) /\ StateInv /\ HookInv

-----------------------------------------------------------------------------
\* Before the first call nothing is selected, set up or registered.
LEMMA InvInit == Init => IInv
BY DEF Init, IInv, Shape, Calls, Process, HolderInside, Booting, StateInv, HookInv, State, Operation, Inside, Idle

\* The holder of the mutex goes on to its next FFI call.
LEMMA CallsAdvance ==
    ASSUME Calls, NEW t \in Thread, NEW op \in Inside, pc' = [pc EXCEPT ![t].op = op]
    PROVE  Calls'
<1>1. pc'[t].op = op /\ pc'[t] \in [op : Inside, version : Version \cup {None}]
  BY DEF Calls
<1>2. \A u \in Thread \ {t} : pc'[u] = pc[u]
  BY DEF Calls
<1>3. pc' \in [Thread -> [op : Operation \cup Inside \cup {"idle"}, version : Version \cup {None}]]
  BY <1>1, <1>2 DEF Calls
<1>4. ASSUME NEW u \in Thread, pc'[u].op = "select" PROVE pc'[u].version \in Version
  BY <1>1, <1>2, <1>4 DEF Calls, Inside
<1> QED
  BY <1>3, <1>4 DEF Calls

\* A call returns.
LEMMA CallsReturned ==
    ASSUME Calls, NEW t \in Thread, pc' = [pc EXCEPT ![t] = Idle]
    PROVE  Calls'
BY DEF Calls, Idle

\* One more hook is registered.
LEMMA HookAdded ==
    ASSUME NEW p \in Process
    PROVE  LET q == [p EXCEPT !.hooks = @ + 1, !.registered = TRUE]
           IN  q \in Process /\ q.exit = p.exit /\ q.hooks > 0
<1>1. p.hooks + 1 \in Nat /\ p.hooks + 1 > 0
  BY DEF Process
<1> QED
  BY <1>1 DEF Process

\* No call, no run of the network thread and no exit disturbs the invariant.
LEMMA InvStep ==
    ASSUME IInv, Next
    PROVE  IInv'
<1> USE DEF IInv, Shape, Calls, Process, State, Operation, Inside, Idle, At, Alive
<1>1. ASSUME NEW t \in Thread, NEW op \in {"select", "option", "boot", "stop"},
             NEW version \in Version \cup {None}, Call(t, op, version),
             op = "select" => version \in Version
      PROVE  IInv'
  BY <1>1 DEF Call, HolderInside, Booting, StateInv, HookInv
<1>2. ASSUME NEW t \in Thread, DisableStopOnExit(t) PROVE IInv'
  BY <1>2 DEF DisableStopOnExit, HolderInside, Booting, StateInv, HookInv
<1>3. ASSUME NEW t \in Thread, SelectApiVersion(t) PROVE IInv'
  BY <1>3 DEF SelectApiVersion, Select, Locks, Returns, HolderInside, Booting, StateInv, HookInv
<1>4. ASSUME NEW t \in Thread, SetNetworkOption(t) PROVE IInv'
  BY <1>4 DEF SetNetworkOption, Locks, Returns, HolderInside, Booting, StateInv, HookInv
<1>5. ASSUME NEW t \in Thread, StartNetwork(t) PROVE IInv'
  BY <1>5 DEF StartNetwork, Select, Locks, Returns, Advances, HolderInside, Booting, StateInv, HookInv
<1>6. ASSUME NEW t \in Thread, SetupNetwork(t) PROVE IInv'
  <2> USE <1>6 DEF SetupNetwork, Returns, Advances
  <2>c. Calls'
    <3> HIDE DEF Calls, Inside
    <3> "atexit" \in Inside BY DEF Inside
    <3> QED BY CallsAdvance, CallsReturned
  <2>1. Shape'
    BY <2>c
  <2>2. HolderInside'
    BY DEF HolderInside
  <2>3. \A u \in Thread : Booting(u)'
    BY DEF HolderInside, Booting, StateInv
  <2>4. StateInv'
    BY DEF HolderInside, Booting, StateInv
  <2>5. HookInv'
    BY DEF HolderInside, Booting, StateInv, HookInv
  <2> QED
    BY <2>1, <2>2, <2>3, <2>4, <2>5 DEF IInv
<1>7. ASSUME NEW t \in Thread, RegisterHook(t) PROVE IInv'
  <2> USE <1>7 DEF RegisterHook
  <2>p. process' \in Process /\ process'.exit = process.exit
          /\ (process' = process \/ process'.hooks > 0)
    <3> HIDE DEF Process
    <3> QED BY HookAdded
  <2>c. Calls'
    <3> HIDE DEF Calls, Inside
    <3> "spawn" \in Inside BY DEF Inside
    <3> QED BY CallsAdvance, CallsReturned
  <2>1. Shape'
    BY <2>c, <2>p
  <2>2. HolderInside'
    BY DEF HolderInside
  <2>3. \A u \in Thread : Booting(u)'
    BY DEF HolderInside, Booting, StateInv
  <2>4. StateInv'
    BY DEF HolderInside, Booting, StateInv
  <2>5. HookInv'
    <3>1. native'.setup /\ UNCHANGED <<flags, lifecycle>> /\ Alive
      BY DEF Booting
    <3>2. CASE process' = process
      BY <2>p, <3>1, <3>2 DEF HookInv
    <3>3. CASE process'.hooks > 0
      BY <2>p, <3>1, <3>3 DEF HookInv
    <3> QED
      BY <2>p, <3>2, <3>3
  <2> QED
    BY <2>1, <2>2, <2>3, <2>4, <2>5 DEF IInv
<1>8. ASSUME NEW t \in Thread, SpawnThread(t) PROVE IInv'
  BY <1>8 DEF SpawnThread, Returns, HolderInside, Booting, StateInv, HookInv
<1>9. ASSUME NEW t \in Thread, StopNetwork(t) PROVE IInv'
  <2> USE <1>9 DEF StopNetwork, Locks, Returns, Advances
  <2>c. Calls'
    <3> HIDE DEF Calls, Inside
    <3> "join" \in Inside BY DEF Inside
    <3> QED BY CallsAdvance, CallsReturned
  <2>1. Shape'
    BY <2>c
  <2>2. HolderInside'
    BY DEF HolderInside
  <2>3. \A u \in Thread : Booting(u)'
    BY DEF HolderInside, Booting, StateInv
  <2>4. StateInv'
    BY DEF HolderInside, Booting, StateInv
  <2>5. HookInv'
    BY DEF HolderInside, Booting, StateInv, HookInv
  <2> QED
    BY <2>1, <2>2, <2>3, <2>4, <2>5 DEF IInv
<1>10. ASSUME NEW t \in Thread, Join(t) PROVE IInv'
  BY <1>10 DEF Join, Returns, HolderInside, Booting, StateInv, HookInv
<1>11. CASE NetworkThread
  BY <1>11 DEF NetworkThread, NetworkRuns, NetworkStops, NetworkFails, HolderInside, Booting, StateInv, HookInv
<1>12. CASE Exit
  BY <1>12 DEF Exit, HolderInside, Booting, StateInv, HookInv
<1>13. CASE Exiting
  BY <1>13 DEF Exiting, RunHook, Terminate, HolderInside, Booting, StateInv, HookInv
<1> QED
  BY <1>1, <1>2, <1>3, <1>4, <1>5, <1>6, <1>7, <1>8, <1>9, <1>10, <1>11, <1>12, <1>13 DEF Next, Proceed

LEMMA InvStutter ==
    ASSUME IInv, UNCHANGED vars
    PROVE  IInv'
BY DEF vars, IInv, Shape, Calls, HolderInside, Booting, StateInv, HookInv, Idle

\* The invariant of the mutex, the state and the exit hook.
THEOREM InvCorrect == Spec => []IInv
<1>1. IInv /\ [Next]_vars => IInv'
  BY InvStep, InvStutter
<1> QED
  BY InvInit, <1>1, PTL DEF Spec

-----------------------------------------------------------------------------
\* lock_network: whoever takes the mutex, after a panic too, finds a state that
\* says what the client was told.
THEOREM StateCorrect == Spec => []StateTellsClient
<1>1. IInv => StateTellsClient
  BY DEF IInv, StateInv, StateTellsClient
<1> QED
  BY InvCorrect, <1>1, PTL

\* stop_network is terminal: nothing selects, sets up or spawns after it.
THEOREM StopCorrect == Spec => StopIsTerminal
<1>1. ASSUME IInv, Next, lifecycle.state = "Stopped"
      PROVE  lifecycle' = lifecycle /\ network' = network /\ native' = native
  <2> USE <1>1 DEF IInv, Booting, StateInv, At, Locks
  <2>1. ASSUME NEW t \in Thread, Proceed(t)
        PROVE  lifecycle' = lifecycle /\ network' = network /\ native' = native
    BY <2>1 DEF Proceed, SelectApiVersion, SetNetworkOption, StartNetwork, SetupNetwork,
                RegisterHook, SpawnThread, StopNetwork, Join
  <2>2. CASE NetworkThread
    BY <2>2 DEF NetworkThread, NetworkRuns, NetworkStops, NetworkFails
  <2> QED
    BY <2>1, <2>2 DEF Next, Call, DisableStopOnExit, Exit, Exiting, RunHook, Terminate
<1>2. IInv /\ [Next]_vars =>
        [lifecycle.state = "Stopped" =>
            /\ lifecycle' = lifecycle
            /\ network' = network
            /\ native' = native]_vars
  BY <1>1
<1> QED
  BY InvCorrect, <1>2, PTL DEF Spec, StopIsTerminal

\* network_atexit_hook: a process that ended left no network running behind it,
\* unless told so or without a hook.
THEOREM ExitCorrect == Spec => []StoppedAtExit
<1>1. IInv => StoppedAtExit
  BY DEF IInv, Shape, StateInv, HookInv, StoppedAtExit, Idle
<1> QED
  BY InvCorrect, <1>1, PTL
=============================================================================
