-------------------------- MODULE NetworkLifecycle --------------------------
(***************************************************************************)
(* The process-wide life of the client (api.rs): version selection, network *)
(* options, boot and stop from any thread under the NETWORK mutex, the      *)
(* fdb-network thread that stop joins while it holds that mutex, and the    *)
(* exit of the process, whose atexit hook stops what is still running.      *)
(***************************************************************************)
EXTENDS Naturals, FiniteSets

CONSTANTS
    Thread, Main,       \* application threads; Main is the one that exits
    Version, Default,   \* API versions asked for; FDB_API_VERSION
    Supported,          \* versions the installed client library accepts
    MaxCalls,           \* bound: calls each thread makes
    None

ASSUME ThreadAssumption == Main \in Thread /\ None \notin Thread
ASSUME VersionAssumption ==
    Default \in Version /\ Supported \subseteq Version /\ None \notin Version
ASSUME BoundAssumption == MaxCalls \in Nat

VARIABLES
    lifecycle,  \* NETWORK: the state and its api_version
    lock,       \* who holds the NETWORK mutex
    pc,         \* each thread: the call it is in, and how far it got
    calls,      \* calls each thread may still make
    result,     \* what each thread's last call returned
    flags,      \* STOP_ON_EXIT and NETWORK_RUN_ERROR
    native,     \* what the C client was told: version, set up, to stop
    network,    \* the fdb-network thread
    process     \* exit of the process: its phase and the registered hooks

vars == <<lifecycle, lock, pc, calls, result, flags, native, network, process>>

-----------------------------------------------------------------------------
\* Error codes of the lifecycle; "ffi" is any error of another FFI call.
Unset == "2200"
AlreadySet == "2201"
NotSupported == "2203"
AlreadySetup == "2009"
CannotRestart == "2025"
Code == {"ok", Unset, AlreadySet, NotSupported, AlreadySetup, CannotRestart, "ffi", "panic"}

State == {"Uninitialized", "ApiVersionSelected", "Running", "Stopped"}
Operation == {"select", "option", "boot", "stop"}
Inside == {"setup", "atexit", "spawn", "join"}

At(t, op) == pc[t].op = op
Idle == [op |-> "idle", version |-> None]
Alive == process.exit \notin {"terminated", "aborted"}

\* A call starts, and waits for the mutex.
Call(t, op, version) ==
    /\ Alive /\ pc[t] = Idle /\ calls[t] > 0
    /\ t = Main => process.exit = "no"
    /\ pc' = [pc EXCEPT ![t] = [op |-> op, version |-> version]]
    /\ calls' = [calls EXCEPT ![t] = @ - 1]
    /\ result' = [result EXCEPT ![t] = None]
    /\ UNCHANGED <<lifecycle, lock, flags, native, network, process>>

Locks(t, op) == Alive /\ lock = None /\ At(t, op)

\* A call returns and its guard is dropped; an error of the exit hook aborts.
Returns(t, code) ==
    /\ lock' = None
    /\ pc' = [pc EXCEPT ![t] = Idle]
    /\ result' = [result EXCEPT ![t] = code]
    /\ process' = IF t = Main /\ process.exit # "no" /\ code # "ok"
                  THEN [process EXCEPT !.exit = "aborted"] ELSE process

Advances(t, op) ==
    /\ lock' = t
    /\ pc' = [pc EXCEPT ![t].op = op]
    /\ UNCHANGED <<result, process>>

-----------------------------------------------------------------------------
(* select_api_version, set_network_option.                                 *)

\* The version is selected in the client first, and recorded if that succeeds.
Select(version) ==
    /\ native' = [native EXCEPT !.selected = version]
    /\ lifecycle' = [state |-> "ApiVersionSelected", version |-> version]

SelectApiVersion(t) ==
    /\ Locks(t, "select")
    /\ LET version == pc[t].version
       IN  IF lifecycle.state = "Uninitialized"
           THEN IF version \in Supported
                THEN Select(version) /\ Returns(t, "ok")
                ELSE Returns(t, NotSupported) /\ UNCHANGED <<native, lifecycle>>
           ELSE /\ Returns(t, IF lifecycle.version = version THEN "ok" ELSE AlreadySet)
                /\ UNCHANGED <<native, lifecycle>>
    /\ UNCHANGED <<calls, flags, network>>

SetNetworkOption(t) ==
    /\ Locks(t, "option")
    /\ \/ lifecycle.state = "Uninitialized" /\ Returns(t, Unset)
       \/ lifecycle.state = "ApiVersionSelected" /\ \E code \in {"ok", "ffi"} : Returns(t, code)
       \/ lifecycle.state = "Running" /\ Returns(t, AlreadySetup)
       \/ lifecycle.state = "Stopped" /\ Returns(t, CannotRestart)
    /\ UNCHANGED <<calls, lifecycle, flags, native, network>>

-----------------------------------------------------------------------------
(* start_network: by boot, or lazily by Database::new.                     *)

StartNetwork_RestartsStopped(t) ==
    /\ Locks(t, "boot")
    /\ \/ /\ lifecycle.state = "Uninitialized"
          /\ Select(Default) /\ Advances(t, "setup")
       \/ /\ lifecycle.state \in {"ApiVersionSelected", "Stopped"}
          /\ Advances(t, "setup")
          /\ UNCHANGED <<native, lifecycle>>
       \/ /\ lifecycle.state = "Running"
          /\ Returns(t, "ok")
          /\ UNCHANGED <<native, lifecycle>>
    /\ UNCHANGED <<calls, flags, network>>

StartNetwork(t) ==
    /\ Locks(t, "boot")
    /\ \/ /\ lifecycle.state = "Uninitialized"
          /\ IF Default \in Supported
             THEN Select(Default) /\ Advances(t, "setup")
             ELSE Returns(t, NotSupported) /\ UNCHANGED <<native, lifecycle>>
       \/ /\ lifecycle.state = "ApiVersionSelected"
          /\ Advances(t, "setup")
          /\ UNCHANGED <<native, lifecycle>>
       \/ /\ lifecycle.state = "Running"
          /\ Returns(t, "ok")
          /\ UNCHANGED <<native, lifecycle>>
       \/ /\ lifecycle.state = "Stopped"
          /\ Returns(t, CannotRestart)
          /\ UNCHANGED <<native, lifecycle>>
    /\ UNCHANGED <<calls, flags, network>>

\* fdb_setup_network, once per process.
SetupNetwork(t) ==
    /\ Alive /\ lock = t /\ At(t, "setup")
    /\ \/ /\ ~native.setup
          /\ native' = [native EXCEPT !.setup = TRUE]
          /\ Advances(t, "atexit")
       \/ native.setup /\ Returns(t, AlreadySetup) /\ UNCHANGED native
       \/ Returns(t, "ffi") /\ UNCHANGED native
    /\ UNCHANGED <<calls, lifecycle, flags, network>>

\* atexit, which fails once the exit has run its last hook, if not before.
RegisterHook(t) ==
    /\ Alive /\ lock = t /\ At(t, "atexit")
    /\ \/ /\ process.exit \in {"no", "running"}
          /\ process' = [process EXCEPT !.hooks = @ + 1, !.registered = TRUE]
       \/ UNCHANGED process
    /\ pc' = [pc EXCEPT ![t].op = "spawn"]
    /\ UNCHANGED <<lifecycle, lock, calls, result, flags, native, network>>

\* The thread is spawned and recorded; a failing spawn panics, which poisons
\* the mutex and leaves the state as it was.
SpawnThread(t) ==
    /\ Alive /\ lock = t /\ At(t, "spawn")
    /\ \/ /\ network' = "spawned"
          /\ lifecycle' = [lifecycle EXCEPT !.state = "Running"]
          /\ Returns(t, "ok")
       \/ Returns(t, "panic") /\ UNCHANGED <<network, lifecycle>>
    /\ UNCHANGED <<calls, flags, native>>

-----------------------------------------------------------------------------
(* stop_network and the network thread.                                    *)

StopNetwork_Detaches(t) ==
    /\ Locks(t, "stop")
    /\ \/ /\ lifecycle.state \in {"Uninitialized", "Stopped"}
          /\ Returns(t, "ok")
          /\ UNCHANGED <<lifecycle, native>>
       \/ /\ lifecycle.state = "ApiVersionSelected"
          /\ lifecycle' = [lifecycle EXCEPT !.state = "Stopped"]
          /\ Returns(t, "ok")
          /\ UNCHANGED native
       \/ /\ lifecycle.state = "Running"
          /\ native' = [native EXCEPT !.stop = TRUE]
          /\ lifecycle' = [lifecycle EXCEPT !.state = "Stopped"]
          /\ Returns(t, "ok")
    /\ UNCHANGED <<calls, flags, network>>

StopNetwork(t) ==
    /\ Locks(t, "stop")
    /\ \/ /\ lifecycle.state \in {"Uninitialized", "Stopped"}
          /\ Returns(t, "ok")
          /\ UNCHANGED <<lifecycle, native>>
       \/ /\ lifecycle.state = "ApiVersionSelected"
          /\ lifecycle' = [lifecycle EXCEPT !.state = "Stopped"]
          /\ Returns(t, "ok")
          /\ UNCHANGED native
       \/ /\ lifecycle.state = "Running"
          /\ Returns(t, "ffi")
          /\ UNCHANGED <<lifecycle, native>>
       \/ /\ lifecycle.state = "Running"
          /\ native' = [native EXCEPT !.stop = TRUE]
          /\ Advances(t, "join")
          /\ UNCHANGED lifecycle
    /\ UNCHANGED <<calls, flags, network>>

\* handle.join(), with the mutex held.
Join(t) ==
    /\ Alive /\ lock = t /\ At(t, "join") /\ network = "ended"
    /\ lifecycle' = [lifecycle EXCEPT !.state = "Stopped"]
    /\ Returns(t, "ok")
    /\ UNCHANGED <<calls, flags, native, network>>

\* run_network_thread: fdb_run_network returns when told to stop, or with an
\* error, which is stored without taking the mutex.
NetworkRuns ==
    /\ Alive /\ network = "spawned"
    /\ network' = "running"
    /\ UNCHANGED <<lifecycle, lock, pc, calls, result, flags, native, process>>
NetworkStops_TakesLock ==
    /\ Alive /\ network = "running" /\ native.stop /\ lock = None
    /\ network' = "ended"
    /\ UNCHANGED <<lifecycle, lock, pc, calls, result, flags, native, process>>
NetworkStops ==
    /\ Alive /\ network = "running" /\ native.stop
    /\ network' = "ended"
    /\ UNCHANGED <<lifecycle, lock, pc, calls, result, flags, native, process>>

NetworkFails ==
    /\ Alive /\ network = "running"
    /\ network' = "ended"
    /\ flags' = [flags EXCEPT !.runError = TRUE]
    /\ UNCHANGED <<lifecycle, lock, pc, calls, result, native, process>>

-----------------------------------------------------------------------------
(* Exit.                                                                   *)

DisableStopOnExit(t) ==
    /\ Alive /\ pc[t] = Idle /\ calls[t] > 0 /\ flags.stopOnExit
    /\ calls' = [calls EXCEPT ![t] = @ - 1]
    /\ flags' = [flags EXCEPT !.stopOnExit = FALSE]
    /\ UNCHANGED <<lifecycle, lock, pc, result, native, network, process>>

Exit ==
    /\ process.exit = "no" /\ pc[Main] = Idle
    /\ process' = [process EXCEPT !.exit = "running"]
    /\ UNCHANGED <<lifecycle, lock, pc, calls, result, flags, native, network>>

RunHook_IgnoresStarting ==
    /\ process.exit = "running" /\ pc[Main] = Idle /\ process.hooks > 0
    /\ process' = [process EXCEPT !.hooks = @ - 1]
    /\ pc' = IF flags.stopOnExit /\ lifecycle.state = "Running"
             THEN [pc EXCEPT ![Main].op = "stop"] ELSE pc
    /\ UNCHANGED <<lifecycle, lock, calls, result, flags, native, network>>

\* network_atexit_hook: stop_network, unless STOP_ON_EXIT was disabled.
RunHook ==
    /\ process.exit = "running" /\ pc[Main] = Idle /\ process.hooks > 0
    /\ process' = [process EXCEPT !.hooks = @ - 1]
    /\ pc' = IF flags.stopOnExit THEN [pc EXCEPT ![Main].op = "stop"] ELSE pc
    /\ UNCHANGED <<lifecycle, lock, calls, result, flags, native, network>>

\* Hooks registered meanwhile are run too, until none is left.
Terminate ==
    /\ process.exit \in {"running", "closed"}
    /\ pc[Main] = Idle /\ process.hooks = 0
    /\ process' = [process EXCEPT
           !.exit = IF process.exit = "running" THEN "closed" ELSE "terminated"]
    /\ UNCHANGED <<lifecycle, lock, pc, calls, result, flags, native, network>>

-----------------------------------------------------------------------------
Init ==
    /\ lifecycle = [state |-> "Uninitialized", version |-> None]
    /\ lock = None
    /\ pc = [t \in Thread |-> Idle]
    /\ calls = [t \in Thread |-> MaxCalls]
    /\ result = [t \in Thread |-> None]
    /\ flags = [stopOnExit |-> TRUE, runError |-> FALSE]
    /\ native = [selected |-> None, setup |-> FALSE, stop |-> FALSE]
    /\ network = "none"
    /\ process = [exit |-> "no", hooks |-> 0, registered |-> FALSE]

\* What a thread does once it made a call.
Proceed(t) ==
    \/ SelectApiVersion(t)
    \/ SetNetworkOption(t)
    \/ StartNetwork(t)
    \/ SetupNetwork(t)
    \/ RegisterHook(t)
    \/ SpawnThread(t)
    \/ StopNetwork(t)
    \/ Join(t)

NetworkThread == NetworkRuns \/ NetworkStops \/ NetworkFails
Exiting == RunHook \/ Terminate

Next ==
    \/ \E t \in Thread :
        \/ \E version \in Version : Call(t, "select", version)
        \/ \E op \in {"option", "boot", "stop"} : Call(t, op, None)
        \/ DisableStopOnExit(t)
        \/ Proceed(t)
    \/ NetworkThread
    \/ Exit
    \/ Exiting

Spec == Init /\ [][Next]_vars

\* The operating system runs every thread, fdb_run_network returns once it was
\* told to stop.  Nobody is obliged to make a call, or to exit.
FairSpec ==
    /\ Spec
    /\ \A t \in Thread : WF_vars(Proceed(t))
    /\ WF_vars(NetworkRuns) /\ WF_vars(NetworkStops)

-----------------------------------------------------------------------------
\* lock_network: "State is only mutated after the corresponding FFI call
\* succeeded": whoever takes the mutex, after a panic too, finds a state that
\* says what the client was told, except that a failed spawn leaves it set up.
StateTellsClient ==
    lock = None =>
        /\ lifecycle.version = native.selected
        /\ lifecycle.state = "Uninitialized" <=> native.selected = None
        /\ lifecycle.state = "Running" => native.setup /\ network # "none"
        /\ lifecycle.state \in {"Uninitialized", "ApiVersionSelected"} => network = "none"
        /\ lifecycle.state = "Stopped" => network \in {"none", "ended"}

\* stop_network: "This is terminal for the process": after one that found a
\* version selected returned, no thread is ever spawned or set up again.
StopIsTerminal ==
    [][lifecycle.state = "Stopped" =>
        /\ lifecycle' = lifecycle
        /\ network' = network
        /\ native' = native]_vars

\* network_atexit_hook: the process does not end with the network running,
\* boots that race with the exit included, unless the hook was disabled, could
\* not be registered, or aborted the process.
StoppedAtExit ==
    process.exit = "terminated" /\ network \in {"spawned", "running"} =>
        ~flags.stopOnExit \/ ~process.registered

\* run_network_thread: "must never lock NETWORK, as stop_network joins the thread
\* while holding the lock": every call returns, unless the process ends first.
CallsReturn == \A t \in Thread : pc[t] # Idle ~> pc[t] = Idle \/ ~Alive
=============================================================================
