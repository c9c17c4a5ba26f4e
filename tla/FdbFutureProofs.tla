--------------------------- MODULE FdbFutureProofs ---------------------------
(***************************************************************************)
(* No wake-up of FdbFuture::poll is lost for a future that stays with the  *)
(* task that polled it first: for any number of tasks, futures and         *)
(* spurious wake-ups, and whatever other futures are handed to the task.   *)
(* (Handed to another task, one can be: the run future_migration.)         *)
(***************************************************************************)
EXTENDS FdbFuture, TLAPS

USE NoneAssumption

\* The shape of the variables.
Shape ==
    /\ native \in [Future -> [ready : BOOLEAN, callback : {"none", "set", "called"}, sets : Nat]]
    /\ waker \in [Future -> Task \cup {None}]
    /\ future \in [Future -> {"new", "register", "callback", "pending", "resolved", "dropped"}]
    /\ owner \in [Future -> Task]
    /\ scheduled \subseteq Task /\ running \subseteq Task
    /\ todo \in [Task -> SUBSET Future]

\* The callback of one future: given to the network thread at the end of the first
\* poll, and called once ready.
CallbackInv(f) ==
    /\ future[f] \in {"new", "callback"} => native[f].callback = "none"
    /\ future[f] = "pending" => native[f].callback # "none"
    /\ native[f].callback = "none" => native[f].sets = 0
    /\ native[f].sets <= 1
    /\ native[f].callback = "called" => native[f].ready

\* Who will run the task that waits for it: the waker is that task's until the
\* callback took it, and what the callback woke is scheduled, or polling and has
\* yet to see that the future is ready.
WakeInv(f) ==
    /\ owner[f] \in running /\ f \in todo[owner[f]]
        => future[f] \in {"new", "register", "callback", "pending"}
    /\ future[f] \in {"register", "callback"} => owner[f] \in running /\ f \in todo[owner[f]]
    /\ future[f] = "callback" => waker[f] = owner[f]
    /\ (future[f] \in {"register", "pending"} /\ native[f].callback = "set")
        => waker[f] = owner[f]
    /\ (future[f] = "register" /\ native[f].callback = "called") => owner[f] \in scheduled
    /\ (future[f] = "pending" /\ native[f].callback = "called")
        => \/ owner[f] \in scheduled
           \/ owner[f] \in running /\ f \in todo[owner[f]]

IInv ==
    /\ Shape
    /\ \A f \in Future : CallbackInv(f)
    /\ \A f \in Future \ Moving : WakeInv(f)

-----------------------------------------------------------------------------
\* Before any poll nothing is registered and nothing was called back.
LEMMA InvInit == Init => IInv
BY DEF Init, IInv, Shape, CallbackInv, WakeInv

\* No step of a task, of an executor or of the network thread changes the shape.
LEMMA ShapeStep ==
    ASSUME Shape, Next
    PROVE  Shape'
<1> USE DEF Shape
<1>1. ASSUME NEW t \in Task, RunTask(t) PROVE Shape'
  BY <1>1 DEF RunTask
<1>2. ASSUME NEW t \in Task, ParkTask(t) PROVE Shape'
  BY <1>2 DEF ParkTask
<1>3. ASSUME NEW t \in Task, WokenOtherwise(t) PROVE Shape'
  BY <1>3 DEF WokenOtherwise
<1>4. ASSUME NEW f \in Future, CheckReady(f) PROVE Shape'
  <2>1. future' \in [Future -> {"new", "register", "callback", "pending", "resolved", "dropped"}]
    BY <1>4 DEF CheckReady
  <2>2. todo' \in [Task -> SUBSET Future]
    BY <1>4 DEF CheckReady
  <2> QED
    BY <1>4, <2>1, <2>2 DEF CheckReady
<1>5. ASSUME NEW f \in Future, Register(f) PROVE Shape'
  <2>1. waker' \in [Future -> Task \cup {None}]
    BY <1>5 DEF Register
  <2>2. /\ future' \in [Future -> {"new", "register", "callback", "pending", "resolved", "dropped"}]
        /\ todo' \in [Task -> SUBSET Future]
    BY <1>5 DEF Register
  <2> QED
    BY <1>5, <2>1, <2>2 DEF Register
<1>6. ASSUME NEW f \in Future, SetCallback(f) PROVE Shape'
  <2>1. native' \in [Future -> [ready : BOOLEAN, callback : {"none", "set", "called"}, sets : Nat]]
    BY <1>6 DEF SetCallback
  <2>2. /\ future' \in [Future -> {"new", "register", "callback", "pending", "resolved", "dropped"}]
        /\ todo' \in [Task -> SUBSET Future]
    BY <1>6 DEF SetCallback
  <2>3. waker' \in [Future -> Task \cup {None}] /\ scheduled' \subseteq Task
    BY <1>6 DEF SetCallback, Wake
  <2> QED
    BY <1>6, <2>1, <2>2, <2>3 DEF SetCallback
<1>7. ASSUME NEW f \in Future, BecomesReady(f) PROVE Shape'
  BY <1>7 DEF BecomesReady
<1>8. ASSUME NEW f \in Future, Callback(f) PROVE Shape'
  BY <1>8 DEF Callback, Wake
<1>9. ASSUME NEW f \in Future, NEW t \in Task, HandOver(f, t) PROVE Shape'
  BY <1>9 DEF HandOver
<1>10. ASSUME NEW f \in Future, DropFuture(f) PROVE Shape'
  BY <1>10 DEF DropFuture
<1> QED
  BY <1>1, <1>2, <1>3, <1>4, <1>5, <1>6, <1>7, <1>8, <1>9, <1>10 DEF Next, Polling

\* A step on one future leaves the others as they were, but for what it schedules.
LEMMA OthersKept ==
    ASSUME Shape, NEW f \in Future, NEW g \in Future \ {f},
           native'[g] = native[g], waker'[g] = waker[g], future'[g] = future[g],
           owner' = owner, scheduled \subseteq scheduled', running' = running,
           \A t \in Task : todo'[t] \in {todo[t], todo[t] \ {f}}
    PROVE  (CallbackInv(g) => CallbackInv(g)') /\ (WakeInv(g) => WakeInv(g)')
<1>1. CallbackInv(g) => CallbackInv(g)'
  BY DEF CallbackInv
<1>2. owner[g] \in Task /\ (g \in todo[owner[g]] <=> g \in todo'[owner[g]])
  BY DEF Shape
<1> QED
  BY <1>1, <1>2 DEF WakeInv

-----------------------------------------------------------------------------
\* No step loses the wake-up of a future that stays where it is.
LEMMA InvStep ==
    ASSUME IInv, [Next]_vars
    PROVE  IInv'
<1> USE DEF IInv
<1>1. ASSUME NEW t \in Task, RunTask(t), NEW f \in Future
      PROVE  CallbackInv(f)' /\ (f \notin Moving => WakeInv(f)')
  <2>1. CallbackInv(f)'
    BY <1>1 DEF RunTask, CallbackInv
  <2>2. todo' = [todo EXCEPT ![t] = {g \in Future : owner[g] = t /\ future[g] \in {"new", "pending"}}]
    BY <1>1 DEF RunTask
  <2>3. owner[f] # t => todo'[owner[f]] = todo[owner[f]]
    BY <2>2 DEF Shape
  <2>4. owner[f] = t => (f \in todo'[owner[f]] <=> future[f] \in {"new", "pending"})
    BY <2>2 DEF Shape
  <2>5. owner[f] = t /\ f \notin Moving => future[f] \notin {"register", "callback"}
    BY <1>1 DEF RunTask, WakeInv
  <2> QED
    BY <1>1, <2>1, <2>3, <2>4, <2>5 DEF RunTask, WakeInv
<1>2. ASSUME NEW t \in Task, ParkTask(t), NEW f \in Future
      PROVE  CallbackInv(f)' /\ (f \notin Moving => WakeInv(f)')
  BY <1>2 DEF ParkTask, CallbackInv, WakeInv
<1>3. ASSUME NEW t \in Task, WokenOtherwise(t), NEW f \in Future
      PROVE  CallbackInv(f)' /\ (f \notin Moving => WakeInv(f)')
  BY <1>3 DEF WokenOtherwise, CallbackInv, WakeInv
<1>4. ASSUME NEW f \in Future, CheckReady(f), NEW g \in Future
      PROVE  CallbackInv(g)' /\ (g \notin Moving => WakeInv(g)')
  <2>1. CASE g = f
    <3>1. \/ future'[f] = "resolved"
          \/ future'[f] = "register" /\ ~native[f].ready /\ todo' = todo
      BY <1>4 DEF CheckReady, Shape
    <3>2. CallbackInv(f)'
      BY <1>4, <3>1 DEF CheckReady, Shape, CallbackInv
    <3>3. f \notin Moving => WakeInv(f)'
      BY <1>4, <3>1 DEF CheckReady, Shape, CallbackInv, WakeInv
    <3> QED
      BY <2>1, <3>2, <3>3
  <2>2. CASE g # f
    BY <1>4, <2>2, OthersKept DEF CheckReady, Shape
  <2> QED
    BY <2>1, <2>2
<1>5. ASSUME NEW f \in Future, Register(f), NEW g \in Future
      PROVE  CallbackInv(g)' /\ (g \notin Moving => WakeInv(g)')
  <2>1. CASE g = f
    BY <1>5, <2>1 DEF Register, Shape, CallbackInv, WakeInv
  <2>2. CASE g # f
    BY <1>5, <2>2, OthersKept DEF Register, Shape
  <2> QED
    BY <2>1, <2>2
<1>6. ASSUME NEW f \in Future, SetCallback(f), NEW g \in Future
      PROVE  CallbackInv(g)' /\ (g \notin Moving => WakeInv(g)')
  <2>1. CASE g = f
    BY <1>6, <2>1 DEF SetCallback, Wake, Shape, CallbackInv, WakeInv
  <2>2. CASE g # f
    BY <1>6, <2>2, OthersKept DEF SetCallback, Wake, Shape
  <2> QED
    BY <2>1, <2>2
<1>7. ASSUME NEW f \in Future, BecomesReady(f), NEW g \in Future
      PROVE  CallbackInv(g)' /\ (g \notin Moving => WakeInv(g)')
  BY <1>7 DEF BecomesReady, Shape, CallbackInv, WakeInv
<1>8. ASSUME NEW f \in Future, Callback(f), NEW g \in Future
      PROVE  CallbackInv(g)' /\ (g \notin Moving => WakeInv(g)')
  <2>1. CASE g = f
    BY <1>8, <2>1 DEF Callback, Wake, Shape, CallbackInv, WakeInv
  <2>2. CASE g # f
    BY <1>8, <2>2, OthersKept DEF Callback, Wake, Shape
  <2> QED
    BY <2>1, <2>2
<1>9. ASSUME NEW f \in Future, DropFuture(f), NEW g \in Future
      PROVE  CallbackInv(g)' /\ (g \notin Moving => WakeInv(g)')
  BY <1>9 DEF DropFuture, Shape, CallbackInv, WakeInv
<1>10. CASE UNCHANGED vars
  BY <1>10 DEF vars, Shape, CallbackInv, WakeInv
<1>11. ASSUME NEW f \in Future, NEW t \in Task, HandOver(f, t), NEW g \in Future
       PROVE  CallbackInv(g)' /\ (g \notin Moving => WakeInv(g)')
  <2>1. f \in Moving /\ (g \notin Moving => owner'[g] = owner[g])
    BY <1>11 DEF HandOver, Shape
  <2> QED
    BY <1>11, <2>1 DEF HandOver, CallbackInv, WakeInv
<1>12. CASE Next
  <2>1. Shape'
    BY <1>12, ShapeStep
  <2> QED
    BY <1>1, <1>2, <1>3, <1>4, <1>5, <1>6, <1>7, <1>8, <1>9, <1>11, <1>12, <2>1 DEF Next, Polling
<1> QED
  BY <1>10, <1>12

\* The invariant, for any futures that may move.
THEOREM InvCorrect == Spec => []IInv
<1>1. IInv /\ [Next]_vars => IInv'
  BY InvStep
<1> QED
  BY <1>1, InvInit, PTL DEF Spec

\* poll and fdb_future_callback: a task told Pending is run again once its future is
\* ready, if the future is not handed over.
THEOREM WakeupCorrect == Spec => []NoLostWakeup
<1>1. IInv => NoLostWakeup
  BY DEF IInv, Shape, CallbackInv, WakeInv, WakeupComing, NoLostWakeup
<1> QED
  BY <1>1, InvCorrect, PTL

\* get_or_insert_with: the callback is given to the native client at most once.
THEOREM CallbackCorrect == Spec => []CallbackSetOnce
<1>1. IInv => CallbackSetOnce
  BY DEF IInv, CallbackInv, CallbackSetOnce
<1> QED
  BY <1>1, InvCorrect, PTL
=============================================================================
