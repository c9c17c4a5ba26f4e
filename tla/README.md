# foundationdb-rs in TLA+

TLA+ models of the FoundationDB bindings for Rust in this repository, the TLC
configurations that check them on small instances, and proofs of the properties
that matter most, checked by TLAPS. `PROJECT.json` maps every definition that
models code to the lines it models.

    tlc -config LeaderEpochs.cfg MCLeaderElection     # a run
    tlapm LeaderElectionProofs.tla                    # a proof

## 1. The system

The library is a thin layer over the C client in some places and a protocol of its
own in others. The core of the repository is what it does *around* the client:
how a transaction is retried, how futures are woken, how the process-wide client
is started and stopped, and the data structures kept in the database by
concurrent transactions (allocator, directory, leader election, register).

| Component | State it keeps | Operations | What is hard |
|---|---|---|---|
| Leader election recipe (`recipes/leader_election`) | one durable record (revision, owner, lease); each participant's observation or leadership and its clock anchors | `poll`, `resign`, adopting a result | commits that land after their client gave up, retries that meet their own commit, timers of several processes, crashes |
| Ranked register recipe (`recipes/ranked_register`) | fence (max read rank), max write rank, value | `read`, `write`, `value` | delayed leaders writing under old ranks |
| Retry runner (`runner.rs`, `error.rs`) | attempt number, `MaybeCommitted`, the policy's verdicts | `Database::run*` | uncertain commits across attempts, hooks on every exit, clones held elsewhere |
| Transaction wrapper (`transaction.rs`) | user versions, accounting generation, metrics slot | reads, writes, commit, `on_error`, ranges | futures that outlive an attempt |
| Metrics, budget (`metrics.rs`, `budget.rs`) | the report, counters per attempt, generations | attempt start/finish, late GRVs, `set_client_budget` | charging late work to the right attempt |
| `Database::transact` (`database.rs`) | tries, deadline | the older retry loop | effects of a retried commit |
| High contention allocator (`tuple_ext/hca.rs`) | counters per window, recent candidates | `allocate` | several calls on one transaction, window advances replayed at commit |
| Directory layer (`directory/`) | nodes, versions, allocator, content, all as keys | create, open, move, remove, exists, list; partitions | concurrent operations on overlapping paths, what each one reads |
| Network lifecycle (`api.rs`) | the `NETWORK` mutex and its state, the network thread, the exit hook | select version, set option, boot, stop | poisoning, exit while booting, joining under a mutex |
| Futures (`future.rs`) | the `AtomicWaker` of each future | `poll`, callback, drop | readiness between two steps of `poll` |
| Simulation executor (`fdb_rt.rs`) | queue of woken tasks, slots | `fdb_spawn`, `poll_pending_tasks` | waking during a poll, shared futures |
| Range reads (`transaction.rs`, `keyselector.rs`, `budget.rs`) | begin, end, limit of what is left; the open marker of a conflict range; a budget | `get_ranges`, `conflicting_keys`, a budgeted scan | continuing after a key, in both directions, with the limit reduced; markers split over batches; writes between batches |
| Tuple layer (`foundationdb-tuple`) | the prefix of a subspace, the place of an incomplete versionstamp | pack, unpack, subspaces | order of bytes against order of values, at every width of integers and through nesting |
| Profiling reader (`foundationdb-profiling`) | cursor, chunks of unfinished transactions; counts of keys | pages, decoding, buckets | page cuts inside a transaction, rows before the cut that were already taken, unknown or repeated chunks |
| Election workload (`foundationdb-recipes-simulation`) | each client's plan and session; the log; the oracle's expectations | rounds, race, completion, `replay` | an oracle that has to predict the local state of a client from the commits alone |
| Binding tester (`foundationdb-bindingtester`) | stack, named transactions, directory list | every instruction | who holds a transaction that a future on the stack will give back |
| Simulation runtime, tracing, code generation, FFI, small helpers | | | see section 8 |

Components meet in few places. The directory layer allocates prefixes with the
allocator; the election grants the ranks the register checks; every recipe runs
inside a transaction that `Database::run` may retry; all futures go through
`FdbFuture`, whose callback runs the simulation executor when that hook is set;
`Database::new` boots the network; subspaces and the profiling keys are made of
tuples; a conflict report, a profiling page and a budgeted scan are range reads. The
workload drives the election and the register and judges them by their log. All coordination between clients goes through
the database: a commit succeeds only if nothing the transaction read (except by
snapshot reads) was written since its read version.

What makes each part correct: one holder per epoch and work only under the current
one; one effect per run that guards itself with `MaybeCommitted`; each value
allocated once; one tree of directories whose keys are disjoint; the network
stopped at exit, once, without a deadlock; a task run again when what it waits for
is ready; every key of a range and every profiled transaction read once, however the
reading is cut up; bytes that come back as the value they were made of, in its order;
an oracle that accepts every log of a correct run and misses none of its witnesses.

## 2. Modules

| Module | Models | Uses |
|---|---|---|
| `RegisterOps` | ranked reads and writes of the register's metadata | |
| `LeaderElection` | election, register and their callers over one database | `RegisterOps` |
| `FencedEpochs` | the promise of the two together | |
| `LeaderElectionInv`, `LeaderElectionProofs` | the inductive invariant of `LeaderElection`, and the proofs | `TLAPS` |
| `ElectionOps` | the decisions of `leader_election/algorithm.rs`, shared by the two models of the election | |
| `ElectionOracle` | the replay oracle of the workload: one log entry after the other | `ElectionOps`, `RegisterOps` |
| `ElectionWorkload` | clients of the workload, their log, and the oracle that replays it | `ElectionOracle` |
| `TransactionRun`, `TransactionRunProofs` | one `Database::run` with hooks, budget and late futures | `TLAPS` |
| `Transact` | one `Database::transact` | |
| `Hca` | concurrent allocations | |
| `DatabaseProofs` | the proofs about `Transact` and `Hca` | `FiniteSetTheorems`, `TLAPS` |
| `Directory`, `DirectoryProofs` | the directory layer over metadata keys | `SequenceTheorems`, `WellFoundedInduction`, `TLAPS` |
| `DirectoryView` | what its clients see: look-ups, and the tree a store represents | `Directory`, `DirectoryTree` |
| `DirectoryTree` | the promise of the directory layer | |
| `NetworkLifecycle`, `NetworkLifecycleProofs` | version, boot, stop, exit | `TLAPS` |
| `FdbFuture`, `FdbFutureProofs` | futures on a multi-threaded executor | `TLAPS` |
| `SimExecutor` | the single-threaded executor of the simulation | |
| `RangeReads` | streams, conflict-range reads, budgeted scans | |
| `TupleLayer`, `Subspace` | encodings; subspaces and the keys packed under them | |
| `ProfileReader`, `ProfileReaderProofs` | pages over the profiling keyspace, their cuts and cursors | `FiniteSetTheorems`, `WellFoundedInduction`, `TLAPS` |
| `ProfileDecode` | from a blob to hot keys | |
| `StackMachine`, `DirectoryInstructions` | the binding tester | |
| `SequentialProofs` | the proofs about `RangeReads`, `StackMachine` and `DirectoryInstructions`, which one run checks | `FiniteSetTheorems`, `WellFoundedInduction`, `TLAPS` |
| `MC*` | constants and symmetry for TLC | |

Definitions keep the names of the code where they can. A definition `X_Y` beside a
definition `X` is a mutated form of it (`Find_Snapshot`: `Find` if its reads left no
conflict); nothing uses it. It is there to show, by putting it in X's place, that a
property does depend on what the code does.

### LeaderElection

A participant is one incarnation of a process; a restarted process is another,
fresh one. `BeginPoll`, `PollAttempt`, `Commit`, `CommitConflict`, `Adopt` follow the
caller's loop of `leader_election/mod.rs`: read the clock, run the poll inside
`Database::run` (with protected work in the same transaction or without), and
adopt the result only when the run succeeded. A run may also be tried again after
an unknown result, be given up with its commit still outstanding (`limbo`), or die
with its process. A commit in limbo lands at any later moment at which the
database would still accept it. Time is kept as ages that grow together (the
documented "similar rates"), so that anchors, which are only ever subtracted from
readings of the same clock, need not be stored. `MaxRevision` plays `u64::MAX`.

The safety claim rests on ranks, not on time. `LeaseExclusion` is therefore stated
of an owner whose own lease is no longer than the persisted one: a renewal with a
shorter handle whose commit was applied but reported unknown shortens the durable
lease while the owner still counts the longer one.

### TransactionRun, Transact

The loop of `runner.rs` with every exit. The closure writes one effect unless told
that an earlier commit may have happened; the policy is any policy; the database
commits or not and says so or not. Reads and GRVs complete, fail or are dropped at
any time, also after their attempt ended. `Transact` is the older loop, whose
closure is not told anything: only one declared idempotent is retried after an
unknown result, and then it may have applied although the call returns a plain
error; `AtMostOnce` claims nothing about it. `DatabaseProofs` extends both `Transact` and
`Hca`, so the states and next-state relation of `Transact` have names of their own
(`TransactInit`, `TransactNext`, `TransactSpec`).

### Hca

Each transaction reads one snapshot overlaid with its own writes; a read answered
from its own writes adds no conflict. Each block under `ALLOCATION_MUTEX` is one
step. At commit the writes are replayed on the database as it is then, so a window
advance is replayed over what others committed since. The windows 3, 3, 5 play 64,
1024, 8192.

### Directory, DirectoryView, DirectoryTree

A metadata key is an item (version, allocator, subdirectory link, layer) of a node of
a layer; layers are the root and the inside of each partition, which lives under
the partition's own prefix, so that clearing that prefix clears it too. Each
operation is an operator from what the transaction sees to what it read, wrote and
answers: `CreateOrOpen`, `MoveTo`, `RemoveTree` follow the code's calls. The code's
recursion has three shapes. An operation is forwarded from partition to partition until its
path stays in one layer (`Forwarded`, `Innermost`, `MoveForwarded`), each layer checking its
version on the way. A creation calls itself for the parents that are missing, which are a
run of the path: going down, a version is checked, a prefix chosen and the parent looked up
for each of them (`ChooseAll`); coming back, their nodes are linked (`LinkAll`); the first
failure ends it with what was written so far. A removal takes one generation of
subdirectories after the other (`Family`). All are recursive functions, so that `Directory`
can be proved about. The look-ups and the map to the tree recurse over data and are in
`DirectoryView`; a look-up answers, or is refused with the code's error: `Version` where a
layer may not be read, `PathDoesNotExists` where there is nothing to list, so that
`LookupsAgree` says for every path of every store which of the three it is. A client runs
one operation per transaction on the state at its read version; its reads are recorded as extents of
keys, and a commit aborts the transactions that read what it writes. An operation
that failed half way may still be committed, as the code leaves that to the caller.
`DirectoryTree` is the promise: a set of directories, changed by one create, move,
delete or content write at a time, whose prefixes are disjoint unless one is below
the partition the other belongs to. The map from keys to tree is `Tree`.

### NetworkLifecycle

Threads call the public functions and go through them one critical section at a
time; a panic poisons the mutex; the network thread runs until stopped or fails by
itself; `Main` exits at any moment, which runs the hook if it was registered.

### FdbFuture, SimExecutor

`poll` in three steps (readiness, waker, callback), with the network thread between
any two. The simulation executor is single-threaded: native callbacks come from the
event loop only, and each runs the tasks queued before it.

### RangeReads

Keys are numbers, selectors resolve against the transaction's view as the database
does. A batch is any non-empty part of what is left, with `more` possibly set when
nothing is. The caller may write keys between two batches of a stream, and another
clone of the transaction may add conflict ranges while the special keyspace is paged:
then the report may miss a range but never invents one, and `ConflictRangesHold` says
so. A page of a budgeted scan stops after any batch (the time budget is a choice), and the
next resumes in another transaction from the key after its last one, as
`examples/budgeted_scan.rs` does; a page whose batch or commit fails is begun again by
`Database::run` from the same key, without its rows, unless the error is not retried.
Others write before a page has read its first batch: what comes later it does not see. `get_mapped_ranges` continues the same way over parent keys and is no module of
its own; reading conflict ranges is not metered in the code and not budgeted here.

### TupleLayer, Subspace

A byte is a digit of `Base`, integers have up to two digits, floats one. Every element
type, nested tuples with their escaped NIL, and versionstamps are packed and unpacked
by operators of the same name as the functions. `Subspace` grows prefixes by packing,
keeps every key packed, and tracks where the stamp will be written, which
`pack_with_versionstamp` counts from the start of the key. `KeysFaithful` is the round
trip, the order of the bytes against `cmp` of the elements, and the range of a
subspace against the keys under it. `is_start_of` answers for bytes: it may accept the
key of a sibling whose first element begins with the same bytes, so the range and not
`is_start_of` is checked.

### ProfileReader, ProfileDecode

Clients append the chunks of two transactions in up to three commits; one may be
written twice when its outcome was unknown. A page reads rows from its cursor in one
snapshot, reassembles, and chooses the next cursor: at the cut, everything completed
after it is dropped and read again. The caller may bound a page, stop it after any row
or lose it. `ProfileDecode` writes blobs with the layout that `decode_events` expects
from each protocol version and reads them back, whole or cut anywhere; then it counts
hits and splits them into buckets.

### ElectionOracle, ElectionWorkload

A client is the list of steps it has still to do; a step is a clock reading, a run of
`Database::run`, a wait, a barrier or a decision that puts further steps in front. A run
takes effect at its commit, where its log entry is written; it may fail before or after
that (a run whose commit was applied and that fails all the same). The oracle's state
is replayed entry by entry, and `OracleAccepts` says that it accepts every prefix of
every log and that its final snapshot agrees with the database. The races need two
contenders and no failed run, or `check` reports an error though nothing is wrong;
`RaceWitnessed` claims no more. The oracle relies on a run taking at least as long as a
timer may be early. Witnesses that only cause warnings, payloads and labels are left
out. If the huge-lease poll of `force_exact_resign` fails after its commit was applied,
client 0 waits for that lease; the run has no failures there.

### StackMachine, DirectoryInstructions

Only ownership is kept: what an item *is* (a name, a future that owns a transaction,
other data), which transactions the map holds, and which entries the directory list
has. An instruction pops, may wait for a future, which gives a consumed transaction
back, possibly over a live one, and puts the current transaction back at its end.
`MCSequential` extends both modules, so their states, initial predicates and next-state
relations have names of their own (`MachineInit`, `DirectoryInit`, ...).
Programs are those whose arguments have the kind the instruction expects.

## 3. Runs

Sizes are distinct states; each run takes at most about three minutes on two cores.

| Run | Bounds | What it shows |
|---|---|---|
| `leader_epochs` | 2 participants with leases 1 and 2, 2 revisions, 1 commit in limbo; 2.3M | one holder per epoch, work only under the current one, only holders release, no takeover before the lease ends, an owner that counts its lease as running is not replaced, and the refinement to `FencedEpochs` |
| `leader_liveness` | no resignation, horizon 1 | the lease of an owner that crashed is taken over |
| `database_run` | 3 retries with 2 user versions; 1 retry with late futures, 1 pending at a time, 1 new budget; 463k | at most one effect, no shared transaction across commit or retry, versions issued once, a report of each attempt with its own work only, the run ends |
| `transact` | every option, limits to 3 | effects, limits, end |
| `hca` | 2 transactions, 2 concurrent calls on one; 2.1M | no value granted twice, grants remembered while their window is current |
| `directory` | 2 clients, paths of 2 names to depth 2, 2 prefixes per layer, 3 versions; 150k | every commit is one operation on the tree; nothing is orphaned; look-ups answer for the tree, and are refused under a newer major version; newer versions are left alone |
| `network_lifecycle` | 4 threads, one call each; 440k | the state tells what the client was told, a stop is final, no exit leaves the network running, every call returns |
| `futures` | 2 futures, one of which may be handed over, 2 tasks; simulation with 3 tasks, 2 futures, 3 waits each | no wake-up is lost for the future that stays; once ready it resolves; every task of the simulation completes |
| `future_migration` | 1 future, 2 tasks | *violation*, see section 7 |
| `profile_pages` | 2 transactions of 2 and 3 chunks, 5 rows, 3 commits, one id not decodable | each whole transaction is returned once, a page stopped at its cut still advances, and a reader that tails reaches them all |
| `sequential` | subspaces of up to 2 elements; blobs of up to 2 events of 3 versions; ranges over 5 keys; binding tester with a stack of 3, 2 names, 2 owning futures, a directory list of 4, 2 attempts; 227k | round trip, order and ranges of keys, place of the stamp, decoded events and buckets, every key of a range once, true conflict ranges; no transaction is missing when an instruction wants it and none changes behind its back; the directory list grows by one per instruction whatever fails |
| `election_oracle` | 2 clients for 2 rounds of every kind; race and completion with 2 or 3, with a failed run or runs as long as the lease | the oracle accepts every log, the race counts its contenders, the completion forces its nine witnesses |

`futures` and `sequential` hold several systems that share no state; a behaviour is one
of any of them, chosen initially (`simulated`, `part`). So do the two instances of
`database_run` (`late`).

`Leases <- MCBothLeases` (handles rebuilt with another lease from poll to poll) is
for longer runs of `leader_epochs`: it has over 6M states and is part of no run; the
proofs cover every set of leases.

Why the bounds are enough. Two participants are needed for a takeover, two revisions
for a rank that is stale, one commit in limbo for a write that arrives late; more of
each repeats the same relations between one holder, one successor and one delayed
write, and the proofs cover every number of them. Four attempts let an uncertain
commit be followed by a plain failure and by another uncertain one. Two calls on one
transaction and one on another make every pair of allocator blocks meet, within a
window and across its advance. Depth two has a parent, a child, a partition inside
and outside, and a move between any two of them; two prefixes allow a directory and
another to be moved into. Two names, two owning futures and a third item let a
future give its transaction back under or over another, buried or swapped. Two
transactions of profiling chunks interleave in any way, and five rows let a page end
before, in and after each. Digits of base 64 keep every boundary of the encoding (the
widths, the sign, zero, NIL and its escape). Two rounds bring every pair of kinds of
the workload, and a failed run between them. One call per thread is enough for the lifecycle as states
only move forward: with four threads every pair and triple of calls meets the exit.

Deadlock is not checked where the system may rightly stop: a run that returned, an
allocator at its bound, a process that exited, a task list that is done, a directory
whose bound on content or prefixes is reached. `leader_epochs` and `leader_liveness`
check it.

## 4. Fairness

- Election: clocks advance; a participant keeps beginning polls, its attempts go on,
  and its commits, offered again and again, are at some time accepted (strong
  fairness: other commits may make one conflict, but not for ever). Crashes are
  never obliged.
- `database_run`: the loop takes its next step; this stands for the native timeout,
  without which a native future may stay pending, as the documentation of
  `transact` warns. Retries end because `on_error` refuses at the native limit.
- `transact`: the loop goes on and time passes.
- Network: threads proceed, the network thread starts, and returns once it was told
  to stop. Nothing obliges `fdb_run_network` to fail.
- Futures: woken tasks are run and return from their poll, and the network thread
  calls back for ready futures. Nothing obliges a future to become ready.
- Simulation: the event loop resolves native futures and the executor goes on.
- Profiling pages: a reader that tails starts pages of the whole range again and again
  and reads them to their end, with no row at which every read fails. Pages that it
  bounds, stops or loses in between are free.

## 5. Proofs

TLAPS proves the following for every value of the constants that meets the named
assumptions (a participant is not `Nobody`, leases lie within the horizon, bounds are
numbers, `None` is none of the values it stands beside).

**LeaderElection.** `TypeCorrect`, `FenceCorrect`, `GrantsCorrect`, `EpochsCorrect`,
`TakeoverCorrect`, `ExclusionCorrect`, `ReleaseCorrect`, `WorkCorrect`, and
`RefinementCorrect`: any number of participants, each with any set of leases, any
revision limit, any number of commits in limbo. None of the properties is inductive:
what happens at a commit depends on what was staged long before. The heart of
`IInv` is `Legal`: every write the database would *still* accept, whether its client
waits for it or not, is one of three kinds (a new epoch with its fence, the release
of the current epoch, the first write of the current epoch), described relative to
the durable state of the moment. `LegalSurvives` shows that a legal commit leaves
every other transaction either legal or in conflict; `AppliedEffect` shows what each
kind does to record and fence. The remaining conjuncts relate what participants
remember to the record: an observation is no older than the record it is of, a
leadership no younger, and ranks of two participants are disjoint. The steps of
`InvStep` follow the actions one by one.

**Transact.** `AtMostOnceCorrect` and `LimitsCorrect`. `EffectsInv` says where an effect
can be before the call returns: after a failed commit only, with an uncertain error,
and on the way to `on_error` only with a timeout, which `on_error` refuses; without
this last part a retry could follow an applied commit. `TriesInv` ties the tries
counted to the closures started.

**FdbFuture.** `WakeupCorrect` for the futures that stay with their task, whichever others
move, and `CallbackCorrect` for all. `WakeInv` follows the waker: it is the polling task's from registration until
the callback takes it, and what the callback woke is scheduled, or is polling and has
not yet looked at this future.

**TransactionRun.** `EffectCorrect`, `ApartCorrect` and `ReportCorrect`, from
`ParametersAssumption` only. `AtMostOneEffect` alone is not inductive. `EffectInv` says
when an effect may be in the database: once a closure is to be told so (`maybe`), or the
transaction has timed out, which `on_error` refuses, or the run is over. `ApartInv` ties
the allocator's counter to the versions issued, and clones to the states that `take`
lets them see. For the report, `ChargeInv` says that the current generation counts the
work of this attempt only, later ones none, and that no pending future carries the
generation of an attempt to come; `ReportInv` that the report and the open attempt are in
step with the loop at each of its places.

**NetworkLifecycle.** `StateCorrect`, `StopCorrect` and `ExitCorrect`, for any number of threads
and calls. The invariant says that exactly the holder of the mutex is between two FFI
calls, so the state can differ from what the client was told only while it is held or
after it was poisoned; that the state says which version, setup and network thread there
are; and that a registered hook has yet to run, is stopping or has stopped the network,
was told not to, or aborted the process.

**Hca.** `UniqueCorrect` and `RememberedCorrect`, for any number of transactions and calls,
any windows and thresholds. Uniqueness is not inductive: two snapshots may both see a
candidate free. `HeldInv` says what keeps the second one out: from the moment a call has
found its candidate free, the candidate is among what its transaction writes and among
what it read with conflicts, and a value granted meanwhile is among what changed.
`SnapshotInv` is the other half, that a value granted before the transaction began is
taken in its snapshot. `OverlayTaken` carries that through an own or a replayed clear:
whatever is cleared lies below a window that the same transaction counted in
(`WritesInv`), so that what was taken stays taken.

**ProfileReader.** `Invariance`, `EachOnceHolds` and `StoppedAdvance`, for any number of
transactions with any numbers of chunks, any rows and commits, with clients that append
while pages are read, stopped, bounded and lost. `EachOnce` speaks of rows anywhere in the
keyspace, a page only of those it has read, so the invariant says of both what a prefix
of the rows shows. `Done(r, i, k)` (the rows of an id from i on are its chunks, the last
of them at k) and `Broken(r, i, k)` (one of them is out of order by k) never change when
rows are added (`RowsGrow`), exclude each other (`DoneOnce`), and are what `Whole` means
(`DoneIsWhole`, `WholeIsDone`; both need the n-th row of an id, found in `NthExists` by
the least number with that count). `PageInv` ties each pending transaction of a page to
the count of its rows, each outcome to rows between the start of the page and the next
row to read, and says that no first row in between is forgotten: it is pending, returned,
or broken by the last row of its report. Each branch of `process` keeps it
(`InterruptedKeeps`, `OrphanKeeps`, `SingleKeeps`, `FirstKeeps`, `NextKeeps`,
`LastKeeps`). `CutFacts` is what makes the end of a page right: the cut divides the
outcomes into those that end before it and those that start at it or after, so that the
next page sees a dropped transaction from its first row on, and no kept one again. The
pass over the outcomes is a recursive function; `RecursiveFunction` shows that it is one
at all (from a start and a step on the numbers), and `PassSplits` follows it row by row
by `NumberInduction`. Both rest on `LeastNumber`, since the library's induction theorems
cannot be instantiated here. Of a page that was stopped, `ResumeFacts` says that it
advances. The same invariant was checked by TLC before it was proved, with up to seven
rows.

**StackMachine.** `OwnershipHolds` and `OthersAreKept`, for any names, any bounds of stack
and futures, and any program. That a transaction is held by exactly one item or by the map
is true between instructions only; inside one, the current transaction is in neither.
`Consistent` is therefore stated of any stack and map: a future that owns a transaction
stands against its name in the map, no two futures share a name, no two entries an id, and
an entry that is owed has its future unless it was lost. `SettledFacts` shows it of what
`run_step` has after it took the current transaction out and awaited its future,
`ConsistentPopped` of what is left when any number of items is popped and the transactions
that come back with them are put in the map, `ConsistentRestored`, `ConsistentHanded`,
`ConsistentPushed` and `ConsistentSwapped` of the ways an instruction ends. Its ids are
needed: `OwnersNamed` shows that `run_step`, which looks for the future by id, finds the
one that has the transaction's name. Every instruction is then of one of a few kinds,
with a lemma each.

**DirectoryInstructions.** `ListStaysInStep`, for any bound of the list and of attempts. The
invariant adds to the property that `error_index` leads to an entry that is not null, since
DIRECTORY_CHANGE falls back on it unchecked.

**RangeReads.** `RangesReadOnce` and `ConflictsReported`, for any keys, any set of
well-typed requests (limits, directions, selectors of any offset), any budget, and any
writes in between; the assumptions are those types, and that `NoValue` is none of the
values it stands beside. Neither property says how a reader goes on, so `Progress` does:
what has been returned is in order, in the bounds, within the limit, and has every key up
to the last one that must be there; and the options that go on are the ones asked for with
a bound just after that key and what is left of the limit, or there are none because the
limit is reached or nothing is missing. `SelectedAfter` is why this works: options
cut after a key that they selected select exactly what follows it, whatever the offset of
the bound that stays, in both directions. It counts: a selector resolves to a place, the
number of keys that come no later, and places tell the keys of a finite set apart
(`PlaceUnique`) and leave none out (`SortedFacts`), which also shows that `Sorted` is a
sequence of the whole set. `SortedTail` then makes the rest of what a stream would return
alone of what it has returned. A scan that resumes is `Progress` again, with no limit to
reduce; and so is one that is begun again, since what the ended pages returned (`done`) is
kept to be such progress too, through every write. For conflict ranges, `ParserAt` says what a parser holds once it was fed the
markers up to some key: every reported range is covered and ends there or before, an open
marker is that key, and, unless a range was added meanwhile, everything covered up to there
is reported or open. `NoEdge`, that between two markers nothing changes, gives the step
(`MarkerKeeps`); `FeedKeeps` takes it over a batch, whose `Feed` is a recursive function,
shown to exist as in `ProfileReader`. Both invariants were checked by TLC first, over the
keys and requests of `sequential`.

**Directory.** `NewerUntouched`, for any clients, names, depth, candidates of the allocator
and prefixes given by hand. The property speaks of one commit, whose writes were computed
from an older store by an operation of any number of steps, so `VersionInv` relates the two:
the store keeps its shape; no pending write sets the version of the root to anything but the
current one, so that no commit makes a version newer; while it is newer there is no
partition, what is pending writes content only, and nothing over a major version. The
lemmas are of two kinds. `Tame*` show of every operator, through all its calls and in every
store, that it only makes such writes, and no partition unless asked for one. `Newer*` follow each operation over a newer version: it is
not forwarded, as there is no partition; a look-up of the path may succeed, but the first
choice of a prefix, a move and a removal are refused by `check_version` before they write,
and what a failed operation leaves is empty. `AllAppliedFacts` does the same for the commit.
The recursive functions are shown to exist (`StoresFacts`, `WalkFacts`, `InnermostFacts`,
`ChooseFacts`, `LinkFacts`, `MoveFacts`) by `NumberInduction`. `VersionKept` states the
invariant. The newer directories it starts from hold plain directories only (`Used`), as in
the run: a partition has a version of its own, and inside one the root's version decides
nothing beyond the way in.

Only model-checked: liveness (`OrphanedLeaseTakenOver`, `RunEnds`, `CallEnds`,
`CallsReturn`, `AllResolve`, `WholeReported`), which is out of the prover's reach;
the three properties of `DirectoryView`, whose tree is recursive (`ImplementsTree`,
`NothingOrphaned`, `LookupsAgree`); `Subspace`, `ProfileDecode` and the rest of what is
written with recursive operators or is an induction over data (`KeysFaithful`, `StampLands`,
`DecodesLogged`, `BucketsSplitTheHits`); and `ElectionWorkload` (`OracleAccepts`,
`WitnessesSeen`), whose oracle was not attempted beyond its first lemmas. Some theorems state
properties that no run lists any more, since stronger ones imply them in the runs:
`FenceCorrect`, `EpochsCorrect`, `TypeCorrect` of `LeaderElection` and `CallbackCorrect` of
`FdbFuture`.

## 6. Abstractions

- Durable values are records, not bytes; keys and prefixes are symbols, except in
  `TupleLayer` and `Subspace`, which are about their bytes. In `Directory` one symbol above
  all others plays 0xFE.
- Strings are not checked to be UTF-8; a blob of `ProfileDecode` is made of units, a
  number of any width being one; clock estimates of versions are left out.
- The time budget of a scan is a choice at each batch.
- In `ElectionWorkload` a commit is applied at most once (`AutomaticIdempotency`), so no
  operation is logged twice.
- Errors are what the code tells apart.
- The register's value is the participant that wrote it; its chunks are left out.
- The allocator inside `Directory` hands out any candidate it has not handed out,
  with the conflicts of the real one; `Hca` is the real one.
- An operation of `Directory` reads one snapshot, so it runs in one step and its
  commit is another. A transaction that conflicts is dropped when the conflict arises.
- Prefixes chosen by hand are part of `Directory` (`Manual`), and the run allows none.
  With hand-made prefixes disjoint from allocated ones
  (`Manual <- MCManual`, `Candidate = {1}`) the properties hold as well. With one that
  the allocator can hand out too (`MCAllocatable`) `ImplementsTree` fails: allocated
  prefixes are checked against the nodes by snapshot reads (`directory_layer.rs:313`),
  which do not conflict with a directory created by hand meanwhile, and in one call the
  parent of a hand-made directory is allocated after the check.
- `SimExecutor` with `Yields = TRUE` (tasks that wake themselves) does not complete
  every task: `poll_pending_tasks` takes the queue once (`fdb_rt.rs:68`), and what is
  woken meanwhile waits for a callback that need not come. No task of the repository
  does that alone.

## 7. Disagreements between code and documentation

- `future_migration`: when a pending future is handed to another task, `poll` reads
  the readiness before it registers the new waker and does not read it again. If the
  callback falls in between, it wakes the earlier task and the new one is never woken.

Noticed while modelling, and part of the models, without a run of their own:

- `runner.rs:112` documents `on_attempt_start` as called "before the closure runs". The
  closure is called as an argument (`runner.rs:623`), so its synchronous part, and any
  operation it issues there, precedes the hook (`CallClosure`, `AttemptStart`).
- The binding tester's `check(..)?` returns early and drops the current transaction it
  has taken, so the next instruction that wants it panics (`Abandoned`, `lost`);
  EMPTY_STACK drops futures that own transactions of other names. `DirectoryCreateLayer`
  panics on a null item although its comment says that it pushes null. LOG_STACK works in
  the current transaction and unwraps, although its comment promises a new transaction
  with the normal retry logic. The transaction map is documented as shared by all
  threads; each machine has its own.

## 8. Not modelled

- The chunks of a register's value and its size limits.
- Handles of directories (`DirectorySubspace`, `DirectoryPartition`) as objects that
  outlive a move: operations start from the root with absolute paths.
  One hazard of the list, `directory_subspace.rs:46`, is left without a property for it.
- Directories made by hand under a prefix the allocator may hand out: part of the module,
  in no run, see section 6; the hazard at `directory_layer.rs:313`.
- Watches, tenants, options and other calls that forward to the client.
- The simulation runtime and its tracing: FFI glue and formatting around one global
  subscriber. TimeKeeper, the environment and the key types: stateless helpers.
- `foundationdb-gen`, `foundationdb-sys`, macros: no state at run time.
- Warn-only witnesses of the workload, payloads of its operations, labels of its log.

## 9. Plan

Done, in the order of importance: the election with its register, the runner, the
allocator, `transact`, the network, futures and executor, the directory layer, range
reads, tuples, the profiling reader, the binding tester, the election workload with its
oracle; and the proofs of section 5.

What is left:

1. Model further: directory handles that became stale and directories made by hand, in
   a run of their own; chunked values of the register (sizes, missing chunks).
2. Prove further: the simulation executor; that the oracle of the workload accepts every
   log, which needs the state of its replay related to the database at each commit; the
   tree of directories, once `Tree` is told without recursion (as the set of paths that
   lead to a node).
