--------------------------------- MODULE Hca ---------------------------------
(***************************************************************************)
(* The high contention allocator of tuple_ext/hca.rs: allocate(), called   *)
(* any number of times, concurrently too, on each of several concurrent    *)
(* transactions of one subspace.                                           *)
(*                                                                         *)
(* The subspace holds a counter per window, under the window's start, and  *)
(* a key per recent candidate.  A transaction reads its snapshot overlaid  *)
(* with its own writes, snapshot reads included; at commit its writes are  *)
(* replayed on the database as it is then, unless a key it read without    *)
(* `snapshot` has a write conflict since its read version.                 *)
(***************************************************************************)
EXTENDS Naturals, FiniteSets

CONSTANTS
    Client,             \* transactions in progress
    Call,               \* calls to allocate on one transaction
    Solo,               \* bound: clients that make at most one call at a time
    SmallWindow, MediumWindow, LargeWindow,     \* 64, 1024, 8192 in the code
    SmallBelow, MediumBelow,                    \* 255, 65535 in the code
    MaxStart,           \* bound: the last window's start
    MaxCount            \* bound: increments of one window's counter

ASSUME WindowAssumption ==
    /\ {SmallWindow, MediumWindow, LargeWindow} \subseteq Nat \ {0}
    /\ SmallWindow <= MediumWindow /\ MediumWindow <= LargeWindow
ASSUME ThresholdAssumption == SmallBelow \in Nat /\ MediumBelow \in Nat /\ SmallBelow <= MediumBelow
ASSUME BoundAssumption == MaxStart \in Nat /\ MaxCount \in Nat
ASSUME SoloAssumption == Solo \subseteq Client

VARIABLES
    db,         \* the subspace: counters and recent
    trx,        \* each client's transaction
    call,       \* each call on it
    granted     \* how many committed calls returned each value

vars == <<db, trx, call, granted>>

-----------------------------------------------------------------------------
\* window_size.
WindowSize(start) ==
    IF start < SmallBelow THEN SmallWindow
    ELSE IF start < MediumBelow THEN MediumWindow ELSE LargeWindow

\* The candidates of a window.
Window(start) == start .. start + WindowSize(start) - 1

Start == 0 .. MaxStart
Value == 0 .. MaxStart + WindowSize(MaxStart) - 1

\* A counter key exists once it was incremented.
Content == [counters : [Start -> Nat], recent : SUBSET Value]

\* What a transaction has buffered: the counters cleared below one start and the
\* recent keys below another, then counters incremented and candidates set.
Buffer == [retired : Start, pruned : Start, added : [Start -> Nat], set : SUBSET Value]
NoWrites == [retired |-> 0, pruned |-> 0, added |-> [s \in Start |-> 0], set |-> {}]

Larger(m, n) == IF m > n THEN m ELSE n

Overlay(content, w) ==
    [counters |-> [s \in Start |-> (IF s < w.retired THEN 0 ELSE content.counters[s])
                                   + w.added[s]],
     recent |-> {v \in content.recent : v >= w.pruned} \cup w.set]

Transaction == [open : BOOLEAN, snapshot : Content, writes : Buffer,
                readConflicts : SUBSET Value, writeConflicts : SUBSET Value,
                changed : SUBSET Value]
Closed == [open |-> FALSE,
           snapshot |-> [counters |-> [s \in Start |-> 0], recent |-> {}],
           writes |-> NoWrites, readConflicts |-> {}, writeConflicts |-> {},
           changed |-> {}]

View(c) == Overlay(trx[c].snapshot, trx[c].writes)

\* What the reverse get_range with limit 1 finds.
IsLatest(content, start) ==
    /\ start = 0 \/ content.counters[start] > 0
    /\ \A s \in Start : content.counters[s] > 0 => s <= start

Phase == {"new", "count", "choose", "answer", "returned", "dropped"}
Progress == [pc : Phase, start : Start, advanced : BOOLEAN, candidate : Value,
             superseded : BOOLEAN, free : BOOLEAN]
NotCalled == [pc |-> "new", start |-> 0, advanced |-> FALSE, candidate |-> 0,
              superseded |-> FALSE, free |-> FALSE]

Returned(c) == {call[c][k].candidate : k \in {k \in Call : call[c][k].pc = "returned"}}

-----------------------------------------------------------------------------
Begin(c) ==
    /\ ~trx[c].open
    /\ trx' = [trx EXCEPT ![c] = [Closed EXCEPT !.open = TRUE, !.snapshot = db]]
    /\ UNCHANGED <<db, call, granted>>

\* The outer loop: the latest window in the transaction's view.
ReadWindow(c, k) ==
    /\ trx[c].open /\ call[c][k].pc = "new"
    /\ c \in Solo => \A j \in Call : call[c][j].pc = "new"
    /\ \E start \in Start :
        /\ IsLatest(View(c), start)
        /\ call' = [call EXCEPT ![c][k] =
                       [NotCalled EXCEPT !.pc = "count", !.start = start]]
    /\ UNCHANGED <<db, trx, granted>>

\* The inner loop's body under ALLOCATION_MUTEX, and what it decides on the
\* count it reads: its own increment included, and those of other calls.
Cleared_PrunesOpened(w, start) ==
    [retired |-> Larger(start, w.retired),
     pruned |-> Larger(start + 1, w.pruned),
     added |-> [s \in Start |-> IF s < start THEN 0 ELSE w.added[s]],
     set |-> {v \in w.set : v > start}]
Cleared(w, start) ==
    [retired |-> Larger(start, w.retired),
     pruned |-> Larger(start, w.pruned),
     added |-> [s \in Start |-> IF s < start THEN 0 ELSE w.added[s]],
     set |-> {v \in w.set : v >= start}]
Counted(w, start) == [w EXCEPT !.added[start] = @ + 1]

CountWindow(c, k) ==
    LET p == call[c][k]
        cleared == IF p.advanced THEN Cleared(trx[c].writes, p.start) ELSE trx[c].writes
        writes == Counted(cleared, p.start)
        count == Overlay(trx[c].snapshot, writes).counters[p.start]
    IN  /\ p.pc = "count" /\ count <= MaxCount
        /\ trx' = [trx EXCEPT ![c].writes = writes]
        /\ \/ /\ count * 2 < WindowSize(p.start)
              /\ call' = [call EXCEPT ![c][k].pc = "choose"]
           \/ /\ count * 2 >= WindowSize(p.start)
              /\ p.start + WindowSize(p.start) <= MaxStart
              /\ call' = [call EXCEPT ![c][k].start = @ + WindowSize(p.start),
                                      ![c][k].advanced = TRUE]
        /\ UNCHANGED <<db, granted>>

Choose_SnapshotRead(c, k) ==
    LET p == call[c][k]
    IN  /\ p.pc = "choose"
        /\ \E candidate \in Window(p.start) :
            /\ call' = [call EXCEPT ![c][k] =
                [p EXCEPT !.pc = "answer", !.candidate = candidate,
                          !.superseded = ~ \A s \in Start :
                                               View(c).counters[s] > 0 => s <= p.start,
                          !.free = candidate \notin View(c).recent]]
            /\ trx' = [trx EXCEPT ![c].writes.set = @ \cup {candidate}]
        /\ UNCHANGED <<db, granted>>

\* A random candidate: the latest window and the candidate's key are read, then
\* the key is set without a write conflict, all under the mutex.  A read the
\* transaction answers from its own writes adds no read conflict.
Choose(c, k) ==
    LET p == call[c][k]
        w == trx[c].writes
    IN  /\ p.pc = "choose"
        /\ \E candidate \in Window(p.start) :
            /\ call' = [call EXCEPT ![c][k] =
                [p EXCEPT !.pc = "answer", !.candidate = candidate,
                          !.superseded = ~ \A s \in Start :
                                               View(c).counters[s] > 0 => s <= p.start,
                          !.free = candidate \notin View(c).recent]]
            /\ trx' = [trx EXCEPT ![c].writes.set = @ \cup {candidate},
                                  ![c].readConflicts =
                                      IF candidate \in w.set \/ candidate < w.pruned
                                      THEN @ ELSE @ \cup {candidate}]
        /\ UNCHANGED <<db, granted>>

\* Both reads answered: start over if the window moved, return a free
\* candidate with a write conflict on its key, or try another one.
Resolve(c, k) ==
    LET p == call[c][k]
    IN  /\ p.pc = "answer"
        /\ call' = [call EXCEPT ![c][k] =
               IF p.superseded THEN NotCalled
               ELSE IF p.free THEN [NotCalled EXCEPT !.pc = "returned", !.candidate = p.candidate]
               ELSE [p EXCEPT !.pc = "choose", !.candidate = 0]]
        /\ trx' = IF p.free /\ ~p.superseded
                  THEN [trx EXCEPT ![c].writeConflicts = @ \cup {p.candidate}]
                  ELSE trx
        /\ UNCHANGED <<db, granted>>

\* The caller drops a call's future where it awaits.
DropCall(c, k) ==
    /\ call[c][k].pc \in {"count", "choose", "answer"}
    /\ call' = [call EXCEPT ![c][k] = [NotCalled EXCEPT !.pc = "dropped"]]
    /\ UNCHANGED <<db, trx, granted>>

\* Commit needs the transaction back: no call is running on it.
Idle(c) == \A k \in Call : call[c][k].pc \in {"new", "returned", "dropped"}

NoConflict(c) == trx[c].readConflicts \cap trx[c].changed = {}

Ends(c) == call' = [call EXCEPT ![c] = [k \in Call |-> NotCalled]]

Commit(c) ==
    /\ trx[c].open /\ Idle(c) /\ NoConflict(c)
    /\ db' = Overlay(db, trx[c].writes)
    /\ trx' = [d \in Client |->
                  IF d = c THEN Closed
                  ELSE IF ~trx[d].open THEN trx[d]
                  ELSE [trx[d] EXCEPT !.changed = @ \cup trx[c].writeConflicts]]
    /\ granted' = [v \in Value |-> granted[v] + Cardinality(
                       {k \in Call : call[c][k].pc = "returned" /\ call[c][k].candidate = v})]
    /\ Ends(c)

\* A conflict, another failure, or a rollback: what was returned is void.
Abort(c) ==
    /\ trx[c].open /\ Idle(c)
    /\ trx' = [trx EXCEPT ![c] = Closed]
    /\ Ends(c)
    /\ UNCHANGED <<db, granted>>

-----------------------------------------------------------------------------
Init ==
    /\ db = Closed.snapshot
    /\ trx = [c \in Client |-> Closed]
    /\ call = [c \in Client |-> [k \in Call |-> NotCalled]]
    /\ granted = [v \in Value |-> 0]

Next ==
    \E c \in Client :
        \/ Begin(c)
        \/ \E k \in Call :
            \/ ReadWindow(c, k)
            \/ CountWindow(c, k)
            \/ Choose(c, k)
            \/ Resolve(c, k)
            \/ DropCall(c, k)
        \/ Commit(c)
        \/ Abort(c)

Spec == Init /\ [][Next]_vars

-----------------------------------------------------------------------------
\* allocate: no value is returned by two calls whose transactions commit.
UniqueAllocations == \A v \in Value : granted[v] <= 1

\* The clear of the recent keys on a window advance: a value already granted is
\* either still recent or below the window every new call starts from.
GrantsRemembered ==
    \A v \in Value : granted[v] > 0 =>
        v \in db.recent \/ \E s \in Start : s > v /\ db.counters[s] > 0
=============================================================================
