--------------------------- MODULE LeaderElection ---------------------------
(***************************************************************************)
(* The lease-based leader election of recipes/leader_election, composed    *)
(* with the ranked register that fences its leaders' work, over a          *)
(* FoundationDB database with optimistic transactions.                     *)
(*                                                                         *)
(* A participant is one process incarnation.  Its loop is the one          *)
(* leader_election/mod.rs documents: read the clock, build the poll input, *)
(* run the poll in Database::run (with the protected work in the same      *)
(* transaction), and adopt the result only after the run succeeded.  It    *)
(* may also resign, or do protected work in a later transaction under a    *)
(* rank it was granted.  A crashed incarnation never returns: a restarted  *)
(* process is another, fresh participant.                                  *)
(*                                                                         *)
(* Time.  The code stores anchors and subtracts them from readings of the  *)
(* same monotonic clock; the model stores the differences.  Every age      *)
(* grows by one at each Tick ("similar rates") and stops at Horizon, which *)
(* no lease exceeds, so comparisons with a lease are exact.                *)
(***************************************************************************)
EXTENDS RegisterOps, ElectionOps, FiniteSets

CONSTANTS
    Participant,    \* process incarnations
    Leases,         \* the durations each participant's handles are given
    Operations,     \* what callers do besides polling: "resign", "work"
    Horizon,        \* ages saturate here
    MaxRevision,    \* the last revision (u64::MAX in the code)
    MaxLimbo        \* bound: commits outstanding after their client gave up

ASSUME ParticipantAssumption == Nobody \notin Participant
ASSUME LeaseAssumption ==
    /\ Horizon \in Nat
    /\ Leases \in [Participant -> SUBSET (1 .. Horizon)]
ASSUME OperationAssumption == Operations \subseteq {"resign", "work"}
ASSUME BoundAssumption == MaxRevision \in Nat /\ MaxLimbo \in Nat

VARIABLES
    rec,            \* durable election record: one key
    reg,            \* durable ranked register
    recAge,         \* time since the election key was last written
    local,          \* each participant's LocalState
    token,          \* the last and the previous rank each one was granted
    run,            \* each participant's Database::run in progress
    limbo           \* commit requests whose client stopped waiting

vars == <<rec, reg, recAge, local, token, run, limbo>>

-----------------------------------------------------------------------------
(* Values.                                                                 *)

Key == {"election", "register"}
Age == 0 .. Horizon
Owner == Participant \cup {Nobody}
Lease == 1 .. Horizon
NoLease == 0        \* lease_duration = None; a zero duration is rejected

Record == [revision : 0 .. MaxRevision, owner : Owner, lease : Lease \cup {NoLease}]
NoRecord == [revision |-> 0, owner |-> Nobody, lease |-> NoLease]

Register == [maxRead : 0 .. MaxRevision, maxWrite : 0 .. MaxRevision, value : Owner]
NoRegister == EmptyRegister(Nobody)

LocalState ==
    [kind : {"unknown", "observation", "leadership"}, owner : Owner,
     rank : 0 .. MaxRevision, lease : Lease \cup {NoLease}, age : Age]
Unknown ==
    [kind |-> "unknown", owner |-> Nobody, rank |-> 0, lease |-> NoLease, age |-> 0]

\* A transaction: the keys it read (non-snapshot) and wrote, and what it
\* writes.  A read-only transaction is never checked for conflicts and lists
\* no reads; rec is then the record it saw.
Txn == [reads : SUBSET Key, writes : SUBSET Key, rec : Record, reg : Register]
NoTxn == [reads |-> {}, writes |-> {}, rec |-> NoRecord, reg |-> NoRegister]

OtherResult == {"none", "Resigned", "Rejected", "Committed", "Aborted"}

Run ==
    [phase : {"idle", "attempt", "commit", "done", "crashed"},
     op : {"none", "poll", "resign", "work"},
     lease : Lease \cup {NoLease}, elapsed : Age, since : Age,
     rank : 0 .. MaxRevision,
     result : LeaderDecision \cup FollowDecision \cup OtherResult,
     fresh : BOOLEAN, txn : Txn]
IdleRun ==
    [phase |-> "idle", op |-> "none", lease |-> NoLease, elapsed |-> 0, since |-> 0,
     rank |-> 0, result |-> "none", fresh |-> TRUE, txn |-> NoTxn]

-----------------------------------------------------------------------------
(* What a participant's transactions read and write.                       *)

LeaderTxn_FencesOldEpoch(p, lease, writes) ==
    LET next   == LeaderRecord(rec, p, lease)
        fenced == RankedRead(reg, rec.revision)
    IN  [reads |-> Key, writes |-> Key, rec |-> next,
         reg |-> IF writes THEN RankedWrite(fenced, next.revision, p) ELSE fenced]

\* A leader outcome with the work its caller co-commits: the fence, and
\* optionally a protected write under the new rank.
LeaderTxn(p, lease, writes) ==
    LET next   == LeaderRecord(rec, p, lease)
        fenced == RankedRead(reg, next.revision)
    IN  [reads |-> Key, writes |-> Key, rec |-> next,
         reg |-> IF writes THEN RankedWrite(fenced, next.revision, p) ELSE fenced]

FollowerTxn == [reads |-> {}, writes |-> {}, rec |-> rec, reg |-> NoRegister]

\* resign: release on an exact match, keeping the revision and the duration.
ResignTxn(released) ==
    IF released
    THEN [reads |-> {"election"}, writes |-> {"election"},
          rec |-> [rec EXCEPT !.owner = Nobody], reg |-> NoRegister]
    ELSE FollowerTxn

\* A later transaction of protected work: write(rank, value) alone.
WorkTxn(p, rank) ==
    IF WriteAccepted(reg, rank)
    THEN [reads |-> {"register"}, writes |-> {"register"},
          rec |-> NoRecord, reg |-> RankedWrite(reg, rank, p)]
    ELSE NoTxn

Adopted_LateLeadership(mine, p, r) ==
    LET seen == r.txn.rec
        anchored(kind, age) ==
            [kind |-> kind, owner |-> seen.owner, rank |-> seen.revision,
             lease |-> seen.lease, age |-> age]
    IN  CASE r.result \in LeaderDecision -> anchored("leadership", 0)
          [] r.result = "Preserve" -> mine
          [] OTHER -> anchored("observation", 0)

Adopted_EarlyObservation(mine, p, r) ==
    LET seen == r.txn.rec
        anchored(kind, age) ==
            [kind |-> kind, owner |-> seen.owner, rank |-> seen.revision,
             lease |-> seen.lease, age |-> age]
    IN  CASE r.result \in LeaderDecision -> anchored("leadership", r.since)
          [] r.result = "Preserve" -> mine
          [] OTHER -> anchored("observation", r.since)

Adopted_Reanchors(mine, p, r) ==
    LET seen == r.txn.rec
        anchored(kind, age) ==
            [kind |-> kind, owner |-> seen.owner, rank |-> seen.revision,
             lease |-> seen.lease, age |-> age]
    IN  IF r.result \in LeaderDecision THEN anchored("leadership", r.since)
                                       ELSE anchored("observation", 0)

\* LocalState::adopt: leadership is anchored at the reading taken before the
\* run, a reset observation at the moment of adoption; a preserved one keeps
\* its anchor.
Adopted(mine, p, r) ==
    LET seen == r.txn.rec
        same == /\ mine.kind = "observation"
                /\ SameRecord(seen, mine.owner, mine.rank, mine.lease)
        anchored(kind, age) ==
            [kind |-> kind, owner |-> seen.owner, rank |-> seen.revision,
             lease |-> seen.lease, age |-> age]
    IN  CASE r.result \in LeaderDecision -> anchored("leadership", r.since)
          [] r.result = "Preserve" /\ same -> mine
          [] OTHER -> anchored("observation", 0)

-----------------------------------------------------------------------------
(* The database.  A commit is rejected when a key the transaction read was *)
(* written since; a read-only transaction always commits.                  *)

Conflicts(t, writes) == t.reads \cap writes # {}

Applied(t) ==
    /\ rec' = IF "election" \in t.writes THEN t.rec ELSE rec
    /\ recAge' = IF "election" \in t.writes THEN 0 ELSE recAge
    /\ reg' = IF "register" \in t.writes THEN t.reg ELSE reg

\* What other transactions in progress see of a commit.
Overtaken(r, t) == [r EXCEPT !.fresh = @ /\ ~Conflicts(r.txn, t.writes)]
LimboAfter(t) == {other \in limbo \ {t} : ~Conflicts(other, t.writes)}

ReadOnly(p) == run[p].txn.writes = {}
Committing(p) == run[p].phase = "commit"
CanCommit(p) == Committing(p) /\ (ReadOnly(p) \/ run[p].fresh)

-----------------------------------------------------------------------------
(* The participant's runs.                                                 *)

Idle(p) == run[p].phase = "idle"
Attempting(p, op) == run[p].phase = "attempt" /\ run[p].op = op
Polling(p) == run[p].op = "poll"

Staged(p, result, t) ==
    run' = [run EXCEPT ![p].phase = "commit", ![p].result = result,
                       ![p].fresh = TRUE, ![p].txn = t]

Durable == <<rec, reg, recAge>>

\* Read the clock once, before Database::run, and build the input.
BeginPoll(p, lease) ==
    /\ Idle(p)
    /\ run' = [run EXCEPT ![p] = [IdleRun EXCEPT !.phase = "attempt", !.op = "poll",
                                    !.lease = lease, !.elapsed = local[p].age]]
    /\ UNCHANGED <<Durable, local, token, limbo>>

\* One attempt of the closure: election.poll, then for a leader outcome
\* register.read(rank) and possibly register.write(rank, payload).
PollAttempt(p, writes) ==
    LET decision == Decide(rec, p, local[p], run[p].elapsed)
        leads    == decision \in LeaderDecision
    IN  /\ Attempting(p, "poll")
        /\ leads => rec.revision < MaxRevision
        /\ Staged(p, decision, IF leads THEN LeaderTxn(p, run[p].lease, writes)
                                        ELSE FollowerTxn)
        /\ UNCHANGED <<Durable, local, token, limbo>>

\* next_revision fails with RevisionExhausted, which ends the run.
PollExhausted(p) ==
    /\ Attempting(p, "poll")
    /\ Decide(rec, p, local[p], run[p].elapsed) \in LeaderDecision
    /\ rec.revision = MaxRevision
    /\ run' = [run EXCEPT ![p] = IdleRun]
    /\ UNCHANGED <<Durable, local, token, limbo>>

BeginResign(p) ==
    /\ Idle(p) /\ "resign" \in Operations
    /\ local[p].kind = "leadership"
    /\ run' = [run EXCEPT ![p] = [IdleRun EXCEPT !.phase = "attempt", !.op = "resign"]]
    /\ UNCHANGED <<Durable, local, token, limbo>>

ResignAttempt_AnyEpoch(p) ==
    LET released == rec.owner = p
    IN  /\ Attempting(p, "resign")
        /\ Staged(p, IF released THEN "Resigned" ELSE "Rejected", ResignTxn(released))
        /\ UNCHANGED <<Durable, local, token, limbo>>

ResignAttempt(p) ==
    LET released == SameRecord(rec, p, local[p].rank, local[p].lease)
    IN  /\ Attempting(p, "resign")
        /\ Staged(p, IF released THEN "Resigned" ELSE "Rejected", ResignTxn(released))
        /\ UNCHANGED <<Durable, local, token, limbo>>

\* Protected work under a rank granted earlier, perhaps no longer current.
BeginWork(p, rank) ==
    /\ Idle(p) /\ "work" \in Operations
    /\ rank \in {token[p].last, token[p].stale} \ {0}
    /\ run' = [run EXCEPT ![p] = [IdleRun EXCEPT !.phase = "attempt", !.op = "work",
                                    !.rank = rank]]
    /\ UNCHANGED <<Durable, local, token, limbo>>

WorkAttempt(p) ==
    LET rank == run[p].rank
    IN  /\ Attempting(p, "work")
        /\ Staged(p, IF WriteAccepted(reg, rank) THEN "Committed" ELSE "Aborted",
                  WorkTxn(p, rank))
        /\ UNCHANGED <<Durable, local, token, limbo>>

\* What the caller holds once Database::run returned Ok: a poll's NextState,
\* still to be adopted.  The other operations leave nothing in progress.
Returned(r) ==
    IF r.op = "poll"
    THEN [r EXCEPT !.phase = "done", !.fresh = TRUE, !.txn = [NoTxn EXCEPT !.rec = r.txn.rec]]
    ELSE IdleRun

\* The commit succeeds and Database::run returns Ok.  A caller that resigned
\* clears its local state; one whose resignation was rejected keeps it.
Commit(p) ==
    LET t == run[p].txn
    IN  /\ CanCommit(p)
        /\ Applied(t)
        /\ run' = [q \in Participant |-> IF q = p THEN Returned(run[p])
                                                  ELSE Overtaken(run[q], t)]
        /\ limbo' = LimboAfter(t)
        /\ local' = IF run[p].result = "Resigned" THEN [local EXCEPT ![p] = Unknown]
                                                  ELSE local
        /\ UNCHANGED token

\* Back to the start of the retry loop, with the same input.
Retrying(r) == [r EXCEPT !.phase = "attempt", !.result = "none", !.fresh = TRUE,
                         !.txn = NoTxn]

\* not_committed: a key it read was written since.
CommitConflict(p) ==
    /\ Committing(p) /\ ~CanCommit(p)
    /\ run' = [run EXCEPT ![p] = Retrying(@)]
    /\ UNCHANGED <<Durable, local, token, limbo>>

\* Any other retryable error, the commit not applied.
CommitFailed(p) ==
    /\ CanCommit(p)
    /\ run' = [run EXCEPT ![p] = Retrying(@)]
    /\ UNCHANGED <<Durable, local, token, limbo>>

\* commit_unknown_result although the commit was applied: the run retries.
CommitUnknown(p) ==
    LET t == run[p].txn
    IN  /\ CanCommit(p) /\ ~ReadOnly(p)
        /\ Applied(t)
        /\ run' = [q \in Participant |-> IF q = p THEN Retrying(run[p])
                                                  ELSE Overtaken(run[q], t)]
        /\ limbo' = LimboAfter(t)
        /\ UNCHANGED <<local, token>>

\* A client that stops waiting may leave its commit request behind.
LeavesBehind(p) ==
    \/ UNCHANGED limbo
    \/ /\ CanCommit(p) /\ ~ReadOnly(p)
       /\ Cardinality(limbo) < MaxLimbo
       /\ limbo' = limbo \cup {run[p].txn}

\* Database::run returns an error (timeout, cancellation, retry limit).  The
\* result is not adopted; after a failed resignation the caller starts over.
RunFails(p) ==
    /\ run[p].phase \in {"attempt", "commit"}
    /\ LeavesBehind(p)
    /\ run' = [run EXCEPT ![p] = IdleRun]
    /\ local' = IF run[p].op = "resign" THEN [local EXCEPT ![p] = Unknown] ELSE local
    /\ UNCHANGED <<Durable, token>>

\* The caller adopts the result of a successful poll, some time later.
Adopt(p) ==
    /\ run[p].phase = "done"
    /\ local' = [local EXCEPT ![p] = Adopted(@, p, run[p])]
    /\ token' = IF run[p].result \in LeaderDecision
                THEN [token EXCEPT ![p] = [last |-> run[p].txn.rec.revision,
                                           stale |-> @.last]]
                ELSE token
    /\ run' = [run EXCEPT ![p] = IdleRun]
    /\ UNCHANGED <<Durable, limbo>>

\* The incarnation ends; its local state is lost and its ID is not reused.
Crash(p) ==
    /\ run[p].phase # "crashed"
    /\ LeavesBehind(p)
    /\ run' = [run EXCEPT ![p] = [IdleRun EXCEPT !.phase = "crashed"]]
    /\ local' = [local EXCEPT ![p] = Unknown]
    /\ token' = [token EXCEPT ![p] = [last |-> 0, stale |-> 0]]
    /\ UNCHANGED Durable

\* A request left behind reaches the database late, or never.
LimboCommit(t) ==
    /\ t \in limbo
    /\ Applied(t)
    /\ run' = [q \in Participant |-> Overtaken(run[q], t)]
    /\ limbo' = LimboAfter(t)
    /\ UNCHANGED <<local, token>>

LimboLost(t) ==
    /\ t \in limbo
    /\ limbo' = limbo \ {t}
    /\ UNCHANGED <<Durable, local, token, run>>

\* Time passes for everyone.
Older(age) == IF age < Horizon THEN age + 1 ELSE age
Tick ==
    /\ recAge' = Older(recAge)
    /\ local' = [p \in Participant |->
                    IF local[p].kind = "unknown" THEN local[p]
                    ELSE [local[p] EXCEPT !.age = Older(@)]]
    /\ run' = [p \in Participant |->
                    IF Polling(p) THEN [run[p] EXCEPT !.since = Older(@)] ELSE run[p]]
    /\ UNCHANGED <<rec, reg, token, limbo>>

-----------------------------------------------------------------------------
Init ==
    /\ rec = NoRecord
    /\ reg = NoRegister
    /\ recAge = 0
    /\ local = [p \in Participant |-> Unknown]
    /\ token = [p \in Participant |-> [last |-> 0, stale |-> 0]]
    /\ run = [p \in Participant |-> IdleRun]
    /\ limbo = {}

Next ==
    \/ \E p \in Participant :
        \/ \E lease \in Leases[p] : BeginPoll(p, lease)
        \/ \E writes \in BOOLEAN : PollAttempt(p, writes)
        \/ PollExhausted(p)
        \/ BeginResign(p)
        \/ ResignAttempt(p)
        \/ \E rank \in {token[p].last, token[p].stale} : BeginWork(p, rank)
        \/ WorkAttempt(p)
        \/ Commit(p)
        \/ CommitConflict(p)
        \/ CommitFailed(p)
        \/ CommitUnknown(p)
        \/ RunFails(p)
        \/ Adopt(p)
        \/ Crash(p)
    \/ \E t \in limbo : LimboCommit(t)
    \/ \E t \in limbo : LimboLost(t)
    \/ Tick

Spec == Init /\ [][Next]_vars

\* Callers keep polling, time passes, and a database that stays reachable
\* lets a run that is tried again and again get through; nothing obliges a
\* run to fail, a request to be lost, or a participant to crash.
FairSpec ==
    /\ Spec
    /\ WF_vars(Tick)
    /\ \A p \in Participant :
        /\ WF_vars(\E lease \in Leases[p] : BeginPoll(p, lease))
        /\ SF_vars(\E writes \in BOOLEAN : PollAttempt(p, writes))
        /\ SF_vars(Commit(p))
        /\ WF_vars(CommitConflict(p))
        /\ WF_vars(Adopt(p))

-----------------------------------------------------------------------------
(* Properties.                                                             *)

\* Every variable keeps the shape the code gives it (types.rs, algorithm.rs).
TypeOK ==
    /\ rec \in Record
    /\ reg \in Register
    /\ recAge \in Age
    /\ local \in [Participant -> LocalState]
    /\ token \in [Participant -> [last : 0 .. MaxRevision, stale : 0 .. MaxRevision]]
    /\ run \in [Participant -> Run]
    /\ limbo \subseteq Txn

\* mod.rs "Renewal cadence and fencing epochs": whoever becomes or stays owner
\* does so under a strictly newer revision, whatever committed late, was
\* retried after an unknown result, or raced; a release keeps the revision.
EpochsMonotone ==
    [][rec' # rec =>
        \/ rec'.revision > rec.revision /\ rec'.owner # Nobody
        \/ rec' = [rec EXCEPT !.owner = Nobody]]_vars

\* mod.rs "Durable state and local time": an owner is replaced by another
\* participant only if its record stood unchanged for the duration persisted
\* in it, although followers time it with late, retried and stale reads.
NoEarlyTakeover ==
    [][rec.owner \in Participant /\ rec'.owner \in Participant \ {rec.owner}
        => recAge >= rec.lease]_vars

\* LocalState::adopt anchors leadership before the run and observations after
\* it: a participant that still counts its own lease as running, and owns the
\* record, cannot lose it to another participant.
HoldsLease(p) ==
    /\ local[p].kind = "leadership"
    /\ local[p].age < local[p].lease
    /\ rec.owner = p /\ local[p].lease <= rec.lease
LeaseExclusion ==
    [][\A p \in Participant : HoldsLease(p) => rec'.owner \in {p, Nobody}]_vars

\* The doc comment of resign: a delayed or stale resignation never releases
\* an epoch other than the one its issuer was granted.
ReleasedBy(p) ==
    \/ run[p].op = "resign" /\ run[p].result = "Resigned"
            /\ local[p].rank = rec.revision
    \/ \E t \in limbo : t.writes = {"election"} /\ t.rec.revision = rec.revision
NoForeignRelease ==
    [][rec.owner # Nobody /\ rec'.owner = Nobody => ReleasedBy(rec.owner)]_vars

\* ranked_register/mod.rs "Composing with Leader Election": the fence stands
\* at the newest epoch, so no lower rank can write.
FenceAtEpoch == reg.maxRead = rec.revision /\ reg.maxWrite <= rec.revision

\* Protected work lands only in the epoch current when it lands, and at most
\* once per epoch, from whoever holds it (or held it until it resigned).
FencedWork ==
    [][reg'.maxWrite # reg.maxWrite \/ reg'.value # reg.value =>
        /\ reg'.maxWrite = rec'.revision
        /\ reg.maxWrite < rec'.revision
        /\ rec'.owner \in {reg'.value, Nobody}]_vars

\* No two participants are ever granted the same rank, and no rank beyond the
\* durable revision is in anyone's hands.
Ranks(p) ==
    {token[p].last, token[p].stale}
        \cup (IF run[p].phase = "done" /\ run[p].result \in LeaderDecision
              THEN {run[p].txn.rec.revision} ELSE {})
UniqueGrants ==
    /\ \A p \in Participant : \A r \in Ranks(p) : r <= rec.revision
    /\ \A p, q \in Participant : p # q => Ranks(p) \cap Ranks(q) \subseteq {0}

\* The whole composition implements the time-free promise.
Epochs == INSTANCE FencedEpochs
            WITH epoch <- rec.revision, holder <- rec.owner,
                 written <- reg.maxWrite, author <- reg.value
ImplementsFencedEpochs == Epochs!Spec

\* mod.rs "Safety versus liveness": a crashed owner does not keep the lease.
\* Some participant that keeps polling waits out the persisted duration and
\* takes over, unless none is left or the revisions are exhausted.
Crashed(p) == run[p].phase = "crashed"
OrphanedLeaseTakenOver ==
    \A p \in Participant :
        rec.owner = p /\ Crashed(p)
            ~> \/ rec.owner # p
               \/ \A q \in Participant : Crashed(q)
               \/ rec.revision = MaxRevision
=============================================================================
