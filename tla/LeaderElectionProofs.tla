------------------------ MODULE LeaderElectionProofs ------------------------
(***************************************************************************)
(* IInv is inductive, and the safety properties of LeaderElection follow   *)
(* from it: for any participants, leases, horizon, revision bound, and any *)
(* number of commits left behind.                                          *)
(***************************************************************************)
EXTENDS LeaderElectionInv, TLAPS

USE ParticipantAssumption, LeaseAssumption, BoundAssumption

-----------------------------------------------------------------------------
(* Types.                                                                  *)

\* decide returns one of its six decisions; the protocol step builds records
\* and transactions of the declared shape.
LEMMA DecideType ==
    ASSUME NEW state, NEW p, NEW claim, NEW elapsed
    PROVE  Decide(state, p, claim, elapsed) \in LeaderDecision \cup FollowDecision
BY DEF Decide, LeaderDecision, FollowDecision

\* A ranked read and a ranked write leave a register of the declared shape.
LEMMA RegisterType ==
    ASSUME NEW r \in Register, NEW rank \in 0 .. MaxRevision, NEW v \in Owner
    PROVE  RankedRead(r, rank) \in Register /\ RankedWrite(r, rank, v) \in Register
BY DEF Register, RankedRead, RankedWrite

\* What the keys hold before anything is written, and what a participant that has
\* just started knows, have the declared shapes.
LEMMA InitialTypes ==
    /\ NoRecord \in Record /\ NoRegister \in Register /\ NoTxn \in Txn
    /\ IdleRun \in Run /\ Unknown \in LocalState
<1>1. NoRecord \in Record
  BY DEF NoRecord, Record, Owner, NoLease
<1>2. NoRegister \in Register
  BY DEF NoRegister, EmptyRegister, Register, Owner
<1>3. NoTxn \in Txn
  BY <1>1, <1>2 DEF NoTxn, Txn
<1>4. IdleRun \in Run
  BY <1>3 DEF IdleRun, Run, NoLease, Age, OtherResult
<1>5. Unknown \in LocalState
  BY DEF Unknown, LocalState, Owner, NoLease, Age
<1> QED
  BY <1>1, <1>2, <1>3, <1>4, <1>5

\* The claim a poll stages, the next revision with its ranked read and write, is a
\* transaction while there are revisions left.
LEMMA LeaderTxnType ==
    ASSUME TypeOK, NEW p \in Participant, NEW lease \in Lease \cup {NoLease},
           NEW writes \in BOOLEAN, rec.revision < MaxRevision
    PROVE  LeaderTxn(p, lease, writes) \in Txn
<1> DEFINE next == LeaderRecord(rec, p, lease)
<1>1. next \in Record /\ next.revision \in 0 .. MaxRevision
  BY DEF TypeOK, Record, LeaderRecord, Owner
<1>2. RankedRead(reg, next.revision) \in Register
  BY <1>1, RegisterType DEF TypeOK, Owner
<1>3. RankedWrite(RankedRead(reg, next.revision), next.revision, p) \in Register
  BY <1>1, <1>2, RegisterType DEF Owner
<1> QED
  BY <1>1, <1>2, <1>3 DEF LeaderTxn, Txn

\* So is what a follower's poll, a resignation and ranked work stage.
LEMMA OtherTxnTypes ==
    ASSUME TypeOK
    PROVE  /\ FollowerTxn \in Txn
           /\ \A released \in BOOLEAN : ResignTxn(released) \in Txn
           /\ \A p \in Participant, rank \in 0 .. MaxRevision : WorkTxn(p, rank) \in Txn
<1>1. FollowerTxn \in Txn
  BY InitialTypes DEF TypeOK, FollowerTxn, Txn
<1>2. [rec EXCEPT !.owner = Nobody] \in Record
  BY DEF TypeOK, Record, Owner
<1>3. ASSUME NEW released \in BOOLEAN PROVE ResignTxn(released) \in Txn
  BY <1>1, <1>2, InitialTypes DEF ResignTxn, Txn, Key
<1>4. ASSUME NEW p \in Participant, NEW rank \in 0 .. MaxRevision
      PROVE  WorkTxn(p, rank) \in Txn
  <2>1. RankedWrite(reg, rank, p) \in Register
    BY RegisterType DEF TypeOK, Owner
  <2> QED
    BY <2>1, InitialTypes DEF WorkTxn, Txn, Key
<1> QED
  BY <1>1, <1>3, <1>4

\* Adopting a result replaces the local state by one of the declared shape.
LEMMA AdoptedType ==
    ASSUME NEW mine \in LocalState, NEW p \in Participant, NEW r \in Run
    PROVE  Adopted(mine, p, r) \in LocalState
<1>1. r.txn.rec \in Record /\ r.since \in Age
  BY DEF Run, Txn
<1>2. 0 \in Age
  BY DEF Age
<1> QED
  BY <1>1, <1>2 DEF Adopted, LocalState, Record

\* A run that stays within its phases stays a run.
LEMMA RunTypes ==
    ASSUME NEW r \in Run
    PROVE  /\ Returned(r) \in Run
           /\ Retrying(r) \in Run
           /\ \A t : Overtaken(r, t) \in Run
           /\ [r EXCEPT !.since = Older(@)] \in Run
<1>1. [NoTxn EXCEPT !.rec = r.txn.rec] \in Txn
  BY InitialTypes DEF Run, Txn
<1>2. Returned(r) \in Run
  <2>1. CASE r.op = "poll"
    <3> DEFINE t == [NoTxn EXCEPT !.rec = r.txn.rec]
    <3>1. t \in Txn
      BY <1>1
    <3> HIDE DEF t
    <3>2. [r EXCEPT !.phase = "done", !.fresh = TRUE, !.txn = t] \in Run
      BY <3>1 DEF Run
    <3> QED
      BY <2>1, <3>2 DEF Returned, t
  <2>2. CASE r.op # "poll"
    BY <2>2, InitialTypes DEF Returned
  <2> QED
    BY <2>1, <2>2
<1>3. Retrying(r) \in Run
  BY InitialTypes DEF Retrying, Run, OtherResult
<1>4. ASSUME NEW t PROVE Overtaken(r, t) \in Run
  BY DEF Overtaken, Run
<1>5. [r EXCEPT !.since = Older(@)] \in Run
  BY DEF Older, Run, Age
<1> QED
  BY <1>2, <1>3, <1>4, <1>5

\* Types survive a commit, and a staged attempt.
LEMMA AppliedType ==
    ASSUME TypeOK, NEW t \in Txn, Applied(t)
    PROVE  rec' \in Record /\ reg' \in Register /\ recAge' \in Age
BY DEF TypeOK, Applied, Txn, Age

\* Staging a transaction leaves every participant a run.
LEMMA StagedType ==
    ASSUME TypeOK, NEW p \in Participant, NEW t \in Txn,
           NEW result \in LeaderDecision \cup FollowDecision \cup OtherResult,
           Staged(p, result, t)
    PROVE  run' \in [Participant -> Run]
<1> DEFINE r == [run[p] EXCEPT !.phase = "commit", !.result = result, !.fresh = TRUE, !.txn = t]
<1>1. run[p] \in Run /\ run \in [Participant -> Run]
  BY DEF TypeOK
<1>2. r \in Run
  BY <1>1 DEF Run
<1>3. run' = [run EXCEPT ![p] = r]
  BY <1>1 DEF Staged
<1> HIDE DEF r
<1> QED
  BY <1>1, <1>2, <1>3

\* So does a commit that overtakes the transactions of the others.
LEMMA OvertakenType ==
    ASSUME TypeOK, NEW t, NEW p \in Participant, NEW r \in Run,
           run' = [q \in Participant |-> IF q = p THEN r ELSE Overtaken(run[q], t)]
    PROVE  run' \in [Participant -> Run]
BY RunTypes DEF TypeOK

\* Every step, be it of a poll, a resignation, ranked work, a commit that lands
\* late or a crash, keeps the types.
THEOREM TypeStep == TypeOK /\ [Next]_vars => TypeOK'
<1> SUFFICES ASSUME TypeOK, [Next]_vars PROVE TypeOK'
  OBVIOUS
<1> USE DEF Durable
<1>0. /\ run \in [Participant -> Run] /\ local \in [Participant -> LocalState]
      /\ limbo \subseteq Txn /\ \A p \in Participant : run[p].txn \in Txn
  BY DEF TypeOK, Run
<1>1. ASSUME NEW p \in Participant, NEW lease \in Leases[p], BeginPoll(p, lease)
      PROVE  TypeOK'
  <2> DEFINE r == [IdleRun EXCEPT !.phase = "attempt", !.op = "poll",
                                  !.lease = lease, !.elapsed = local[p].age]
  <2>1. lease \in Lease /\ local[p].age \in Age
    BY <1>0 DEF Lease, LocalState
  <2>2. r \in Run
    BY <2>1, InitialTypes DEF Run
  <2>3. run' = [run EXCEPT ![p] = r]
    BY <1>1 DEF BeginPoll
  <2> HIDE DEF r
  <2> QED
    BY <1>0, <1>1, <2>2, <2>3 DEF BeginPoll, TypeOK
<1>2. ASSUME NEW p \in Participant, NEW writes \in BOOLEAN, PollAttempt(p, writes)
      PROVE  TypeOK'
  <2> DEFINE decision == Decide(rec, p, local[p], run[p].elapsed)
             t == IF decision \in LeaderDecision
                  THEN LeaderTxn(p, run[p].lease, writes) ELSE FollowerTxn
  <2>1. decision \in LeaderDecision \cup FollowDecision
    BY DecideType
  <2>2. run[p].lease \in Lease \cup {NoLease}
    BY <1>0 DEF Run
  <2>3. decision \in LeaderDecision => rec.revision < MaxRevision
    BY <1>2 DEF PollAttempt
  <2>4. t \in Txn
    BY <2>2, <2>3, LeaderTxnType, OtherTxnTypes
  <2>5. Staged(p, decision, t)
    BY <1>2 DEF PollAttempt
  <2> HIDE DEF decision, t
  <2>6. run' \in [Participant -> Run]
    BY <2>1, <2>4, <2>5, StagedType
  <2> QED
    BY <1>2, <2>6 DEF PollAttempt, TypeOK
<1>3. ASSUME NEW p \in Participant, PollExhausted(p) PROVE TypeOK'
  BY <1>0, <1>3, InitialTypes DEF PollExhausted, TypeOK
<1>4. ASSUME NEW p \in Participant, BeginResign(p) PROVE TypeOK'
  <2> DEFINE r == [IdleRun EXCEPT !.phase = "attempt", !.op = "resign"]
  <2>1. r \in Run
    BY InitialTypes DEF Run
  <2>2. run' = [run EXCEPT ![p] = r]
    BY <1>4 DEF BeginResign
  <2> HIDE DEF r
  <2> QED
    BY <1>0, <1>4, <2>1, <2>2 DEF BeginResign, TypeOK
<1>5. ASSUME NEW p \in Participant, ResignAttempt(p) PROVE TypeOK'
  <2> DEFINE released == SameRecord(rec, p, local[p].rank, local[p].lease)
             result == IF released THEN "Resigned" ELSE "Rejected"
             t == ResignTxn(released)
  <2>1. result \in LeaderDecision \cup FollowDecision \cup OtherResult
    BY DEF OtherResult
  <2>2. t \in Txn
    BY OtherTxnTypes DEF SameRecord
  <2>3. Staged(p, result, t)
    BY <1>5 DEF ResignAttempt
  <2> HIDE DEF result, t
  <2>4. run' \in [Participant -> Run]
    BY <2>1, <2>2, <2>3, StagedType
  <2> QED
    BY <1>5, <2>4 DEF ResignAttempt, TypeOK
<1>6. ASSUME NEW p \in Participant, NEW rank \in {token[p].last, token[p].stale},
             BeginWork(p, rank)
      PROVE  TypeOK'
  <2> DEFINE r == [IdleRun EXCEPT !.phase = "attempt", !.op = "work", !.rank = rank]
  <2>1. rank \in 0 .. MaxRevision
    BY DEF TypeOK
  <2>2. r \in Run
    BY <2>1, InitialTypes DEF Run
  <2>3. run' = [run EXCEPT ![p] = r]
    BY <1>6 DEF BeginWork
  <2> HIDE DEF r
  <2> QED
    BY <1>0, <1>6, <2>2, <2>3 DEF BeginWork, TypeOK
<1>7. ASSUME NEW p \in Participant, WorkAttempt(p) PROVE TypeOK'
  <2> DEFINE result == IF WriteAccepted(reg, run[p].rank) THEN "Committed" ELSE "Aborted"
             t == WorkTxn(p, run[p].rank)
  <2>1. result \in LeaderDecision \cup FollowDecision \cup OtherResult
    BY DEF OtherResult
  <2>2. t \in Txn
    BY <1>0, OtherTxnTypes DEF Run
  <2>3. Staged(p, result, t)
    BY <1>7 DEF WorkAttempt
  <2> HIDE DEF result, t
  <2>4. run' \in [Participant -> Run]
    BY <2>1, <2>2, <2>3, StagedType
  <2> QED
    BY <1>7, <2>4 DEF WorkAttempt, TypeOK
<1>8. ASSUME NEW p \in Participant, Commit(p) PROVE TypeOK'
  <2>1. rec' \in Record /\ reg' \in Register /\ recAge' \in Age
    BY <1>0, <1>8, AppliedType DEF Commit
  <2>2. run' \in [Participant -> Run]
    BY <1>0, <1>8, RunTypes, OvertakenType DEF Commit
  <2>3. limbo' \subseteq Txn /\ local' \in [Participant -> LocalState]
    BY <1>0, <1>8, InitialTypes DEF Commit, LimboAfter
  <2> QED
    BY <1>8, <2>1, <2>2, <2>3 DEF Commit, TypeOK
<1>9. ASSUME NEW p \in Participant, CommitConflict(p) \/ CommitFailed(p) PROVE TypeOK'
  <2>1. run' = [run EXCEPT ![p] = Retrying(run[p])] /\ Retrying(run[p]) \in Run
    BY <1>0, <1>9, RunTypes DEF CommitConflict, CommitFailed
  <2>2. UNCHANGED <<rec, reg, recAge, local, token, limbo>>
    BY <1>9 DEF CommitConflict, CommitFailed
  <2> QED
    BY <1>0, <2>1, <2>2 DEF TypeOK
<1>10. ASSUME NEW p \in Participant, CommitUnknown(p) PROVE TypeOK'
  <2>1. rec' \in Record /\ reg' \in Register /\ recAge' \in Age
    BY <1>0, <1>10, AppliedType DEF CommitUnknown
  <2>2. run' \in [Participant -> Run]
    BY <1>0, <1>10, RunTypes, OvertakenType DEF CommitUnknown
  <2>3. limbo' \subseteq Txn
    BY <1>0, <1>10 DEF CommitUnknown, LimboAfter
  <2> QED
    BY <1>10, <2>1, <2>2, <2>3 DEF CommitUnknown, TypeOK
<1>11. ASSUME NEW p \in Participant, RunFails(p) PROVE TypeOK'
  <2>1. limbo' \subseteq Txn
    BY <1>0, <1>11 DEF RunFails, LeavesBehind
  <2>2. local' \in [Participant -> LocalState] /\ run' \in [Participant -> Run]
    BY <1>0, <1>11, InitialTypes DEF RunFails
  <2> QED
    BY <1>11, <2>1, <2>2 DEF RunFails, TypeOK
<1>12. ASSUME NEW p \in Participant, Adopt(p) PROVE TypeOK'
  <2>1. Adopted(local[p], p, run[p]) \in LocalState
    BY <1>0, AdoptedType
  <2>2. run[p].txn.rec.revision \in 0 .. MaxRevision
    BY <1>0 DEF Txn, Record
  <2>3. local' = [local EXCEPT ![p] = Adopted(local[p], p, run[p])]
    BY <1>12 DEF Adopt
  <2>4. local' \in [Participant -> LocalState]
    BY <1>0, <2>1, <2>3
  <2>5. run' \in [Participant -> Run]
    BY <1>0, <1>12, InitialTypes DEF Adopt
  <2>6. token' \in [Participant -> [last : 0 .. MaxRevision, stale : 0 .. MaxRevision]]
    BY <1>12, <2>2 DEF Adopt, TypeOK
  <2> QED
    BY <1>12, <2>4, <2>5, <2>6 DEF Adopt, TypeOK
<1>13. ASSUME NEW p \in Participant, Crash(p) PROVE TypeOK'
  <2> DEFINE r == [IdleRun EXCEPT !.phase = "crashed"]
  <2>1. r \in Run
    BY InitialTypes DEF Run
  <2>2. run' = [run EXCEPT ![p] = r]
    BY <1>13 DEF Crash
  <2> HIDE DEF r
  <2>3. limbo' \subseteq Txn
    BY <1>0, <1>13 DEF Crash, LeavesBehind
  <2>4. token' \in [Participant -> [last : 0 .. MaxRevision, stale : 0 .. MaxRevision]]
    BY <1>13 DEF Crash, TypeOK
  <2> QED
    BY <1>0, <1>13, <2>1, <2>2, <2>3, <2>4, InitialTypes DEF Crash, TypeOK
<1>14. ASSUME NEW t \in limbo, LimboCommit(t) PROVE TypeOK'
  <2>1. rec' \in Record /\ reg' \in Register /\ recAge' \in Age
    BY <1>0, <1>14, AppliedType DEF LimboCommit
  <2>2. run' \in [Participant -> Run] /\ limbo' \subseteq Txn
    BY <1>0, <1>14, RunTypes DEF LimboCommit, LimboAfter
  <2> QED
    BY <1>14, <2>1, <2>2 DEF LimboCommit, TypeOK
<1>15. ASSUME NEW t \in limbo, LimboLost(t) PROVE TypeOK'
  BY <1>0, <1>15 DEF LimboLost, TypeOK
<1>16. CASE Tick
  <2>1. recAge' \in Age
    BY <1>16 DEF Tick, TypeOK, Older, Age
  <2>2. ASSUME NEW p \in Participant PROVE local'[p] \in LocalState
    <3> DEFINE l == [local[p] EXCEPT !.age = Older(@)]
    <3>1. l \in LocalState
      BY <1>0 DEF Older, Age, LocalState
    <3>2. local'[p] = IF local[p].kind = "unknown" THEN local[p] ELSE l
      BY <1>16 DEF Tick
    <3> HIDE DEF l
    <3> QED
      BY <1>0, <3>1, <3>2
  <2>3. ASSUME NEW p \in Participant PROVE run'[p] \in Run
    BY <1>0, <1>16, RunTypes DEF Tick
  <2>4. /\ local' = [p \in Participant |-> local'[p]]
        /\ run' = [p \in Participant |-> run'[p]]
    BY <1>16 DEF Tick
  <2>5. local' \in [Participant -> LocalState] /\ run' \in [Participant -> Run]
    BY <2>2, <2>3, <2>4
  <2> QED
    BY <1>16, <2>1, <2>5 DEF Tick, TypeOK
<1>17. CASE UNCHANGED vars
  BY <1>17 DEF vars, TypeOK
<1> QED
  BY <1>1, <1>2, <1>3, <1>4, <1>5, <1>6, <1>7, <1>8, <1>9, <1>10, <1>11, <1>12,
     <1>13, <1>14, <1>15, <1>16, <1>17 DEF Next

\* Every variable keeps the shape the code gives it, for any participants,
\* leases, operations and bounds.
THEOREM TypeCorrect == Spec => []TypeOK
<1>1. Init => TypeOK
  BY InitialTypes DEF Init, TypeOK, Age
<1> QED
  BY <1>1, TypeStep, PTL DEF Spec
-----------------------------------------------------------------------------
(* What a write the database accepts does to the durable state.            *)

\* The record stands, begins a new epoch, or is released.
RecStep ==
    \/ rec' = rec /\ recAge' = recAge
    \/ /\ rec'.revision = rec.revision + 1 /\ rec'.owner \in Participant
       /\ recAge' = 0
    \/ /\ rec.owner # Nobody /\ rec' = [rec EXCEPT !.owner = Nobody]
       /\ recAge' = 0

\* A transaction whose commit the database would accept now.
Harmless(t) == t \in Txn /\ (t.writes = {} \/ Legal(t, rec, reg, recAge))

\* Whatever it is, the record moves as the protocol allows and the fence
\* follows it.
LEMMA AppliedEffect ==
    ASSUME TypeOK, FenceAtEpoch, NEW t, Harmless(t), Applied(t)
    PROVE  RecStep /\ FenceAtEpoch'
<1> USE DEF Applied, FenceAtEpoch, RecStep, Key
<1>0. /\ rec \in Record /\ reg \in Register /\ t.rec \in Record /\ t.reg \in Register
      /\ rec.revision \in Nat /\ reg.maxWrite \in Nat /\ t.reg.maxWrite \in Nat
  BY DEF TypeOK, Harmless, Txn, Record, Register
<1>1. CASE t.writes = {}
  BY <1>1
<1>2. CASE EpochTxn(t, rec, reg, recAge)
  BY <1>0, <1>2 DEF EpochTxn
<1>3. CASE ReleaseTxn(t, rec)
  BY <1>0, <1>3 DEF ReleaseTxn, Record
<1>4. CASE WriteTxn(t, rec, reg)
  BY <1>0, <1>4 DEF WriteTxn
<1> QED
  BY <1>1, <1>2, <1>3, <1>4 DEF Harmless, Legal

\* A commit leaves every transaction it does not conflict with legal.
LEMMA LegalSurvives ==
    ASSUME TypeOK, NEW t, Harmless(t), Applied(t),
           NEW u, Legal(u, rec, reg, recAge), ~Conflicts(u, t.writes)
    PROVE  Legal(u, rec', reg', recAge')
<1> USE DEF Applied, Conflicts, Key
<1>0. rec \in Record
  BY DEF TypeOK
<1>1. CASE t.writes = {}
  BY <1>1
<1>2. CASE EpochTxn(t, rec, reg, recAge)
  BY <1>2 DEF EpochTxn, ReleaseTxn, WriteTxn, Legal
<1>3. CASE ReleaseTxn(t, rec)
  <2>1. WriteTxn(u, rec, reg)
    BY <1>3 DEF EpochTxn, ReleaseTxn, Legal
  <2>2. WriteTxn(u, rec', reg')
    BY <1>0, <1>3, <2>1 DEF ReleaseTxn, WriteTxn, Record
  <2> QED
    BY <2>2 DEF Legal
<1>4. CASE WriteTxn(t, rec, reg)
  <2>1. ReleaseTxn(u, rec) /\ rec' = rec
    BY <1>4 DEF EpochTxn, WriteTxn, Legal
  <2> QED
    BY <2>1 DEF Legal
<1> QED
  BY <1>1, <1>2, <1>3, <1>4 DEF Harmless, Legal

\* Time makes no legal transaction illegal.
LEMMA LegalAges ==
    ASSUME NEW u, Legal(u, rec, reg, recAge), rec \in Record, recAge \in Nat,
           recAge' \in Nat, recAge' >= recAge
    PROVE  Legal(u, rec, reg, recAge')
<1>1. rec.lease \in Nat
  BY DEF Record, Lease, NoLease
<1> QED
  BY <1>1 DEF Legal, EpochTxn

-----------------------------------------------------------------------------
(* What the others know outlives a commit.                                 *)

\* An observation of the record is still true of it after a commit: the record is
\* the same, or has a later revision.
LEMMA LocalSurvives ==
    ASSUME TypeOK, RecStep, NEW p \in Participant, LocalInv(p), local'[p] = local[p]
    PROVE  LocalInv(p)'
<1>0. /\ rec \in Record /\ local[p] \in LocalState
      /\ local[p].rank \in Nat /\ local[p].age \in Nat /\ rec.revision \in Nat
  BY DEF TypeOK, LocalState, Record, Age
<1> QED
  BY <1>0 DEF LocalInv, RecStep, SameRecord, Record

\* A rank a participant holds is still no later than the revision, and nobody else
\* owns a record of that very revision.
LEMMA RankSurvives ==
    ASSUME TypeOK, RecStep, NEW p \in Participant, NEW rank \in Nat, RankOK(rank, p, rec)
    PROVE  RankOK(rank, p, rec')
<1>0. rec \in Record /\ rec.revision \in Nat
  BY DEF TypeOK, Record
<1> QED
  BY <1>0 DEF RankOK, RecStep, Record

\* Ranks are numbers.
LEMMA RankType ==
    ASSUME TypeOK, NEW p \in Participant
    PROVE  Ranks(p) \subseteq Nat
BY DEF TypeOK, Record, Ranks, Run, Txn

\* What a participant staged stays legal after another's commit, unless that
\* commit wrote what it read and it can no longer be committed.
LEMMA RunSurvives ==
    ASSUME TypeOK, FenceAtEpoch, NEW t, Harmless(t), Applied(t),
           NEW p \in Participant, RunInv(p),
           run'[p] = Overtaken(run[p], t), local'[p] = local[p], token'[p] = token[p]
    PROVE  RunInv(p)' /\ UNCHANGED Ranks(p)
<1> DEFINE r == run[p]
           s == run'[p]
<1>0. /\ run[p] \in Run /\ rec \in Record /\ rec.revision \in Nat
      /\ run[p].since \in Nat /\ run[p].txn.rec.revision \in Nat
  BY DEF TypeOK, Run, Record, Age, Txn
<1>1. /\ s.phase = r.phase /\ s.op = r.op /\ s.rank = r.rank /\ s.elapsed = r.elapsed
      /\ s.since = r.since /\ s.result = r.result /\ s.txn = r.txn
      /\ s.fresh = (r.fresh /\ ~Conflicts(r.txn, t.writes))
  BY <1>0 DEF Overtaken, Run
<1>2. RecStep
  BY AppliedEffect
<1>3. /\ s.rank \in {0, token'[p].last, token'[p].stale}
      /\ s.op = "poll" /\ s.phase \in {"attempt", "commit"} => s.elapsed <= local'[p].age
      /\ s.phase = "done" => s.op = "poll"
  BY <1>1 DEF RunInv, Polling
<1>4. Seen(p)' => s.txn.rec.revision <= rec'.revision
  BY <1>0, <1>1, <1>2 DEF RunInv, Seen, Committing, ReadOnly, RecStep, Record
<1>5. s.phase = "done" /\ s.result \in LeaderDecision /\ rec'.owner = p
        => recAge' <= s.since
  BY <1>0, <1>1, <1>2 DEF RunInv, RecStep, Record
<1>6. s.phase = "commit" /\ s.result \in LeaderDecision
        => s.op = "poll" /\ s.txn.writes = Key /\ s.txn.rec.owner = p
  BY <1>1 DEF RunInv, Committing, Polling
<1>7. s.phase = "commit" /\ s.txn.writes # {} /\ s.fresh
        => Legal(s.txn, rec', reg', recAge')
  BY <1>1, LegalSurvives DEF RunInv, Committing, ReadOnly
<1>8. s.phase = "commit" /\ s.txn.writes = {"election"}
        => /\ s.op = "resign" /\ s.result = "Resigned"
           /\ s.fresh => rec'.owner = p /\ local'[p].rank = rec'.revision
  <2> SUFFICES ASSUME s.phase = "commit", s.txn.writes = {"election"}
               PROVE  /\ s.op = "resign" /\ s.result = "Resigned"
                      /\ s.fresh => rec'.owner = p /\ local'[p].rank = rec'.revision
    OBVIOUS
  <2>1. /\ r.op = "resign" /\ r.result = "Resigned"
        /\ r.fresh => rec.owner = p /\ local[p].rank = rec.revision
    BY <1>1 DEF RunInv, Committing
  <2>2. s.fresh => Legal(r.txn, rec, reg, recAge)
    BY <1>1 DEF RunInv, Committing, ReadOnly
  <2>3. s.fresh => "election" \notin t.writes
    BY <1>1, <2>2 DEF Legal, EpochTxn, ReleaseTxn, WriteTxn, Key, Conflicts
  <2>4. s.fresh => rec' = rec
    BY <2>3 DEF Applied
  <2> QED
    BY <1>1, <2>1, <2>4
<1>9. s.phase = "commit" /\ s.op = "poll" => s.txn.writes \in {{}, Key}
  BY <1>1 DEF RunInv, Committing, Polling
<1>10. RunInv(p)'
  BY <1>3, <1>4, <1>5, <1>6, <1>7, <1>8, <1>9 DEF RunInv, Committing, ReadOnly, Polling
<1>11. UNCHANGED Ranks(p)
  BY <1>1 DEF Ranks
<1> QED
  BY <1>10, <1>11

-----------------------------------------------------------------------------
(* Steps that leave the durable state alone.                               *)

\* It is enough that p's own part of the invariant survives, that it gains no
\* rank, and that what it leaves behind is legal.
LEMMA PrivateStep ==
    ASSUME IInv, TypeOK', NEW p \in Participant, UNCHANGED Durable,
           \A q \in Participant \ {p} :
                run'[q] = run[q] /\ local'[q] = local[q] /\ token'[q] = token[q],
           \A t \in limbo' : Legal(t, rec, reg, recAge),
           Ranks(p)' \subseteq Ranks(p) \cup {0},
           LocalInv(p)', RunInv(p)'
    PROVE  IInv'
<1>0. /\ rec' = rec /\ reg' = reg /\ recAge' = recAge /\ TypeOK /\ FenceAtEpoch
      /\ rec.revision \in Nat
  BY DEF Durable, IInv, TypeOK, Record
<1>1. FenceAtEpoch'
  BY <1>0 DEF FenceAtEpoch
<1>2. \A t \in limbo' : Legal(t, rec', reg', recAge')
  BY <1>0
<1>3. ASSUME NEW q \in Participant \ {p}
      PROVE  ParticipantInv(q)' /\ Ranks(q)' = Ranks(q)
  <2>1. Ranks(q)' = Ranks(q)
    BY DEF Ranks
  <2>2. ParticipantInv(q)
    BY DEF IInv
  <2>3. LocalInv(q)' /\ RankInv(q)'
    BY <1>0, <2>1, <2>2 DEF ParticipantInv, LocalInv, RankInv
  <2>4. RunInv(q)'
    BY <1>0, <2>2 DEF ParticipantInv, RunInv, Seen, Committing, ReadOnly, Polling
  <2> QED
    BY <2>1, <2>3, <2>4 DEF ParticipantInv
<1>4. RankInv(p)'
  BY <1>0 DEF IInv, ParticipantInv, RankInv, RankOK
<1>5. Disjoint'
  <2> SUFFICES ASSUME NEW q \in Participant, NEW s \in Participant, q # s
               PROVE  Ranks(q)' \cap Ranks(s)' \subseteq {0}
    BY DEF Disjoint
  <2>1. Ranks(q) \cap Ranks(s) \subseteq {0}
    BY DEF IInv, Disjoint
  <2>2. Ranks(q)' \subseteq Ranks(q) \cup {0} /\ Ranks(s)' \subseteq Ranks(s) \cup {0}
    BY <1>3
  <2> QED
    BY <2>1, <2>2
<1> QED
  BY <1>1, <1>2, <1>3, <1>4, <1>5 DEF IInv, ParticipantInv

\* Going idle, or ending, keeps a participant's part.
LEMMA IdleRunInv ==
    ASSUME NEW p \in Participant, run'[p].phase \in {"idle", "attempt", "crashed"},
           run'[p].rank \in {0, token'[p].last, token'[p].stale},
           run'[p].op = "poll" => run'[p].elapsed <= local'[p].age
    PROVE  RunInv(p)' /\ Ranks(p)' = {token'[p].last, token'[p].stale}
BY DEF RunInv, Seen, Committing, Ranks

-----------------------------------------------------------------------------
(* Steps in which a transaction commits.                                   *)

\* A legal commit keeps the fence at the epoch, what is in limbo legal, and the
\* invariant of every participant but those the step itself changes.
LEMMA CommitStep ==
    ASSUME IInv, TypeOK', NEW t, Harmless(t), Applied(t), limbo' = LimboAfter(t),
           NEW S, \A q \in Participant \ S :
                run'[q] = Overtaken(run[q], t) /\ local'[q] = local[q] /\ token'[q] = token[q]
    PROVE  /\ RecStep
           /\ FenceAtEpoch'
           /\ \A u \in limbo' : Legal(u, rec', reg', recAge')
           /\ \A q \in Participant \ S : ParticipantInv(q)' /\ Ranks(q)' = Ranks(q)
<1>1. RecStep /\ FenceAtEpoch' /\ TypeOK
  BY AppliedEffect DEF IInv
<1>2. ASSUME NEW u \in limbo' PROVE Legal(u, rec', reg', recAge')
  <2>1. u \in limbo /\ ~Conflicts(u, t.writes)
    BY DEF LimboAfter
  <2> QED
    BY <1>1, <2>1, LegalSurvives DEF IInv
<1>3. ASSUME NEW q \in Participant \ S
      PROVE  ParticipantInv(q)' /\ Ranks(q)' = Ranks(q)
  <2>1. ParticipantInv(q) /\ FenceAtEpoch
    BY DEF IInv
  <2>2. RunInv(q)' /\ Ranks(q)' = Ranks(q)
    BY <1>1, <2>1, RunSurvives DEF ParticipantInv
  <2>3. LocalInv(q)'
    BY <1>1, <2>1, LocalSurvives DEF ParticipantInv
  <2>4. RankInv(q)'
    BY <1>1, <2>1, <2>2, RankSurvives, RankType DEF ParticipantInv, RankInv
  <2> QED
    BY <2>2, <2>3, <2>4 DEF ParticipantInv
<1> QED
  BY <1>1, <1>2, <1>3

-----------------------------------------------------------------------------
(* What an attempt stages is legal.                                        *)

\* The claim of a poll that decides to lead opens the next epoch, and takes over
\* another's lease only after watching it for its whole length.
LEMMA LeaderTxnLegal ==
    ASSUME IInv, NEW p \in Participant, NEW writes \in BOOLEAN, Attempting(p, "poll"),
           Decide(rec, p, local[p], run[p].elapsed) \in LeaderDecision
    PROVE  LET t == LeaderTxn(p, run[p].lease, writes)
           IN  EpochTxn(t, rec, reg, recAge) /\ t.rec.owner = p
<1> DEFINE t == LeaderTxn(p, run[p].lease, writes)
           rank == rec.revision + 1
<1>0. /\ rec \in Record /\ reg \in Register /\ FenceAtEpoch
      /\ rec.revision \in Nat /\ reg.maxWrite \in Nat /\ reg.maxRead = rec.revision
      /\ rank \in Nat
  BY DEF IInv, TypeOK, Record, Register, FenceAtEpoch
<1>1. /\ t.reads = Key /\ t.writes = Key /\ t.rec.revision = rank /\ t.rec.owner = p
  BY DEF LeaderTxn, LeaderRecord
<1>2. /\ RankedRead(reg, rank).maxRead = rank /\ RankedRead(reg, rank).value = reg.value
      /\ RankedRead(reg, rank).maxWrite = reg.maxWrite
      /\ RankedRead(reg, rank) \in [maxRead : Nat, maxWrite : Nat, value : Owner]
  BY <1>0 DEF RankedRead, Register
<1>3. WriteAccepted(RankedRead(reg, rank), rank)
  BY <1>0, <1>2 DEF WriteAccepted, FenceAtEpoch
<1>4. t.reg.maxRead = rank
  BY <1>2, <1>3 DEF LeaderTxn, LeaderRecord, RankedWrite
<1>5. \/ t.reg.maxWrite = rank /\ t.reg.value = p
      \/ t.reg.maxWrite = reg.maxWrite /\ t.reg.value = reg.value
  BY <1>2, <1>3 DEF LeaderTxn, LeaderRecord, RankedWrite
<1>6. ASSUME rec.owner \notin {Nobody, p} PROVE recAge >= rec.lease
  <2>1. /\ local[p].kind = "observation"
        /\ SameRecord(rec, local[p].owner, local[p].rank, local[p].lease)
        /\ run[p].elapsed >= local[p].lease
    BY <1>6 DEF Decide, SameRecord, LeaderDecision
  <2>2. local[p].age <= recAge /\ run[p].elapsed <= local[p].age
    BY <1>6, <1>0, <2>1
       DEF IInv, ParticipantInv, LocalInv, RunInv, Attempting, Record, Owner
  <2>3. /\ recAge \in Nat /\ run[p].elapsed \in Nat /\ local[p].age \in Nat
        /\ rec.lease \in Nat /\ local[p].lease = rec.lease
    BY <2>1 DEF IInv, TypeOK, Age, Run, LocalState, Record, Lease, NoLease, SameRecord
  <2> QED
    BY <2>1, <2>2, <2>3
<1> QED
  BY <1>1, <1>4, <1>5, <1>6 DEF EpochTxn

\* Ranked work writes under the rank of the current epoch, or writes nothing.
LEMMA WorkTxnLegal ==
    ASSUME IInv, NEW p \in Participant, Attempting(p, "work")
    PROVE  LET t == WorkTxn(p, run[p].rank)
           IN  \/ WriteTxn(t, rec, reg)
               \/ t = NoTxn
<1> DEFINE rank == run[p].rank
<1>0. /\ rec \in Record /\ reg \in Register /\ FenceAtEpoch
      /\ rec.revision \in Nat /\ reg.maxWrite \in Nat /\ reg.maxRead = rec.revision
      /\ rank \in Nat
  BY DEF IInv, TypeOK, Record, Register, FenceAtEpoch, Run
<1>1. CASE WriteAccepted(reg, rank)
  <2>1. rank >= rec.revision /\ rank > reg.maxWrite
    BY <1>0, <1>1 DEF WriteAccepted
  <2>2. rank \in Ranks(p)
    BY <1>0, <2>1 DEF IInv, ParticipantInv, RunInv, Ranks
  <2>3. RankOK(rank, p, rec)
    BY <2>2 DEF IInv, ParticipantInv, RankInv
  <2>4. rank = rec.revision /\ rec.owner \in {p, Nobody}
    BY <1>0, <2>1, <2>3 DEF RankOK
  <2> QED
    BY <1>0, <1>1, <2>1, <2>4 DEF WorkTxn, WriteTxn, RankedWrite, Register
<1>2. CASE ~WriteAccepted(reg, rank)
  BY <1>2 DEF WorkTxn
<1> QED
  BY <1>1, <1>2

\* A staged attempt establishes the part of the invariant about the run.
LEMMA StagedRunInv ==
    ASSUME TypeOK, NEW p \in Participant, NEW result, NEW t, Staged(p, result, t),
           RunInv(p), run[p].phase = "attempt", UNCHANGED <<Durable, local, token>>,
           t.writes = {} => t.rec.revision <= rec.revision,
           t.writes # {} => Legal(t, rec, reg, recAge),
           run[p].op = "poll" => t.writes \in {{}, Key},
           result \in LeaderDecision
                => run[p].op = "poll" /\ t.writes = Key /\ t.rec.owner = p,
           t.writes = {"election"}
                => /\ run[p].op = "resign" /\ result = "Resigned"
                   /\ rec.owner = p /\ local[p].rank = rec.revision
    PROVE  RunInv(p)' /\ Ranks(p)' \subseteq Ranks(p) \cup {0}
<1> DEFINE s == run'[p]
<1>0. run \in [Participant -> Run] /\ run[p] \in Run
  BY DEF TypeOK
<1>1. /\ s.phase = "commit" /\ s.result = result /\ s.fresh = TRUE /\ s.txn = t
      /\ s.op = run[p].op /\ s.rank = run[p].rank /\ s.elapsed = run[p].elapsed
  BY <1>0 DEF Staged, Run
<1>2. /\ rec' = rec /\ reg' = reg /\ recAge' = recAge /\ local' = local /\ token' = token
  BY DEF Durable
<1>3. /\ s.rank \in {0, token'[p].last, token'[p].stale}
      /\ s.op = "poll" => s.elapsed <= local'[p].age
  BY <1>1, <1>2 DEF RunInv
<1>4. Legal(s.txn, rec', reg', recAge') \/ s.txn.writes = {}
  BY <1>1, <1>2
<1> HIDE DEF s
<1>5. RunInv(p)'
  BY <1>1, <1>2, <1>3, <1>4 DEF RunInv, Seen, Committing, ReadOnly, Polling, s
<1>6. Ranks(p)' \subseteq Ranks(p) \cup {0}
  BY <1>1, <1>2 DEF Ranks, s
<1> QED
  BY <1>5, <1>6

\* Nothing a participant's part speaks of changes.
LEMMA SameInv ==
    ASSUME UNCHANGED <<rec, reg, recAge, local, token, run>>, NEW p \in Participant,
           ParticipantInv(p)
    PROVE  ParticipantInv(p)' /\ Ranks(p)' = Ranks(p)
<1>1. Ranks(p)' = Ranks(p)
  BY DEF Ranks
<1>2. LocalInv(p)' /\ RankInv(p)'
  BY <1>1 DEF ParticipantInv, LocalInv, RankInv
<1>3. RunInv(p)'
  BY DEF ParticipantInv, RunInv, Seen, Committing, ReadOnly, Polling
<1> QED
  BY <1>1, <1>2, <1>3 DEF ParticipantInv

-----------------------------------------------------------------------------
(* IInv is inductive.                                                      *)

\* The invariant holds initially.
LEMMA InvInit == Init => IInv
<1> SUFFICES ASSUME Init PROVE IInv
  OBVIOUS
<1>1. TypeOK
  BY InitialTypes DEF Init, TypeOK, Age
<1>2. FenceAtEpoch
  BY DEF Init, FenceAtEpoch, NoRecord, NoRegister, EmptyRegister
<1>3. ASSUME NEW p \in Participant PROVE Ranks(p) = {0} /\ ParticipantInv(p)
  <2>1. Ranks(p) = {0}
    BY <1>3 DEF Init, Ranks, IdleRun
  <2>2. RankInv(p)
    BY <2>1 DEF RankInv, RankOK, Init, NoRecord
  <2>3. LocalInv(p)
    BY DEF LocalInv, Init, NoRecord, Unknown
  <2>4. RunInv(p)
    BY DEF RunInv, Seen, Committing, Init, IdleRun
  <2> QED
    BY <2>1, <2>2, <2>3, <2>4 DEF ParticipantInv
<1>4. Disjoint
  BY <1>3 DEF Disjoint
<1> QED
  BY <1>1, <1>2, <1>3, <1>4 DEF IInv, Init

\* Every step of the specification preserves it: one step per action.
THEOREM InvStep == IInv /\ [Next]_vars => IInv'
<1> SUFFICES ASSUME IInv, [Next]_vars PROVE IInv'
  OBVIOUS
<1> USE DEF Durable
<1>0. /\ TypeOK /\ TypeOK' /\ FenceAtEpoch
      /\ run \in [Participant -> Run] /\ local \in [Participant -> LocalState]
      /\ rec.revision \in Nat
      /\ limbo \subseteq Txn /\ \A t \in limbo : Legal(t, rec, reg, recAge)
  BY TypeStep DEF IInv, TypeOK, Record
<1>p. ASSUME NEW p \in Participant PROVE LocalInv(p) /\ RunInv(p) /\ RankInv(p)
  BY DEF IInv, ParticipantInv
<1>i. IdleRun.phase = "idle" /\ IdleRun.rank = 0 /\ IdleRun.op = "none"
  BY DEF IdleRun
<1>1. ASSUME NEW p \in Participant, NEW lease \in Leases[p], BeginPoll(p, lease)
      PROVE  IInv'
  <2>1. /\ run'[p].phase = "attempt" /\ run'[p].rank = 0
        /\ run'[p].elapsed = local[p].age /\ local[p].age \in Nat
    BY <1>0, <1>1 DEF BeginPoll, IdleRun, LocalState, Age
  <2>2. RunInv(p)' /\ Ranks(p)' \subseteq Ranks(p) \cup {0}
    BY <1>1, <2>1, IdleRunInv DEF BeginPoll, Ranks
  <2>3. LocalInv(p)'
    BY <1>1, <1>p DEF BeginPoll, LocalInv
  <2> QED
    BY <1>0, <1>1, <2>2, <2>3, PrivateStep DEF BeginPoll
<1>2. ASSUME NEW p \in Participant, NEW writes \in BOOLEAN, PollAttempt(p, writes)
      PROVE  IInv'
  <2> DEFINE decision == Decide(rec, p, local[p], run[p].elapsed)
             t == IF decision \in LeaderDecision
                  THEN LeaderTxn(p, run[p].lease, writes) ELSE FollowerTxn
  <2>1. Staged(p, decision, t) /\ run[p].phase = "attempt" /\ run[p].op = "poll"
    BY <1>2 DEF PollAttempt, Attempting
  <2>2. decision \in LeaderDecision => EpochTxn(t, rec, reg, recAge) /\ t.rec.owner = p
    BY <1>2, LeaderTxnLegal DEF PollAttempt
  <2>3. decision \notin LeaderDecision => t.writes = {} /\ t.rec = rec
    BY DEF FollowerTxn
  <2> HIDE DEF decision, t
  <2>4. /\ t.writes \in {{}, Key} /\ t.rec.revision \in Nat
        /\ t.writes # {} => Legal(t, rec, reg, recAge)
        /\ t.writes = {} => t.rec.revision <= rec.revision
    BY <1>0, <2>2, <2>3 DEF EpochTxn, Legal, Key
  <2>5. RunInv(p)' /\ Ranks(p)' \subseteq Ranks(p) \cup {0}
    BY <1>0, <1>2, <1>p, <2>1, <2>2, <2>3, <2>4, StagedRunInv DEF PollAttempt, EpochTxn, Key
  <2>6. LocalInv(p)'
    BY <1>2, <1>p DEF PollAttempt, LocalInv
  <2> QED
    BY <1>0, <1>2, <2>5, <2>6, PrivateStep DEF PollAttempt, Staged
<1>3. ASSUME NEW p \in Participant, PollExhausted(p) PROVE IInv'
  <2>1. run'[p] = IdleRun
    BY <1>0, <1>3 DEF PollExhausted
  <2>2. RunInv(p)' /\ Ranks(p)' \subseteq Ranks(p) \cup {0}
    BY <1>3, <1>i, <2>1, IdleRunInv DEF PollExhausted, Ranks
  <2>3. LocalInv(p)'
    BY <1>3, <1>p DEF PollExhausted, LocalInv
  <2> QED
    BY <1>0, <1>3, <2>2, <2>3, PrivateStep DEF PollExhausted
<1>4. ASSUME NEW p \in Participant, BeginResign(p) PROVE IInv'
  <2>1. run'[p].phase = "attempt" /\ run'[p].rank = 0 /\ run'[p].op = "resign"
    BY <1>0, <1>4 DEF BeginResign, IdleRun
  <2>2. RunInv(p)' /\ Ranks(p)' \subseteq Ranks(p) \cup {0}
    BY <1>4, <2>1, IdleRunInv DEF BeginResign, Ranks
  <2>3. LocalInv(p)'
    BY <1>4, <1>p DEF BeginResign, LocalInv
  <2> QED
    BY <1>0, <1>4, <2>2, <2>3, PrivateStep DEF BeginResign
<1>5. ASSUME NEW p \in Participant, ResignAttempt(p) PROVE IInv'
  <2> DEFINE released == SameRecord(rec, p, local[p].rank, local[p].lease)
             result == IF released THEN "Resigned" ELSE "Rejected"
             t == ResignTxn(released)
  <2>1. Staged(p, result, t) /\ run[p].phase = "attempt" /\ run[p].op = "resign"
    BY <1>5 DEF ResignAttempt, Attempting
  <2>2. released => /\ ReleaseTxn(t, rec) /\ result = "Resigned"
                    /\ rec.owner = p /\ local[p].rank = rec.revision
    BY DEF ResignTxn, ReleaseTxn, SameRecord
  <2>3. ~released => t.writes = {} /\ t.rec = rec
    BY DEF ResignTxn, FollowerTxn
  <2>4. result \notin LeaderDecision
    BY DEF LeaderDecision
  <2> HIDE DEF released, result, t
  <2>5. RunInv(p)' /\ Ranks(p)' \subseteq Ranks(p) \cup {0}
    BY <1>0, <1>5, <1>p, <2>1, <2>2, <2>3, <2>4, StagedRunInv
       DEF ResignAttempt, ReleaseTxn, Legal
  <2>6. LocalInv(p)'
    BY <1>5, <1>p DEF ResignAttempt, LocalInv
  <2> QED
    BY <1>0, <1>5, <2>5, <2>6, PrivateStep DEF ResignAttempt, Staged
<1>6. ASSUME NEW p \in Participant, NEW rank \in {token[p].last, token[p].stale},
             BeginWork(p, rank)
      PROVE  IInv'
  <2>1. run'[p].phase = "attempt" /\ run'[p].rank = rank /\ run'[p].op = "work"
    BY <1>0, <1>6 DEF BeginWork, IdleRun
  <2>2. RunInv(p)' /\ Ranks(p)' \subseteq Ranks(p) \cup {0}
    BY <1>6, <2>1, IdleRunInv DEF BeginWork, Ranks
  <2>3. LocalInv(p)'
    BY <1>6, <1>p DEF BeginWork, LocalInv
  <2> QED
    BY <1>0, <1>6, <2>2, <2>3, PrivateStep DEF BeginWork
<1>7. ASSUME NEW p \in Participant, WorkAttempt(p) PROVE IInv'
  <2> DEFINE t == WorkTxn(p, run[p].rank)
             result == IF WriteAccepted(reg, run[p].rank) THEN "Committed" ELSE "Aborted"
  <2>1. Staged(p, result, t) /\ run[p].phase = "attempt" /\ run[p].op = "work"
    BY <1>7 DEF WorkAttempt, Attempting
  <2>2. WriteTxn(t, rec, reg) \/ (t.writes = {} /\ t.rec.revision = 0)
    BY <1>7, WorkTxnLegal DEF WorkAttempt, NoTxn, NoRecord
  <2>3. result \notin LeaderDecision
    BY DEF LeaderDecision
  <2> HIDE DEF result, t
  <2>4. RunInv(p)' /\ Ranks(p)' \subseteq Ranks(p) \cup {0}
    BY <1>0, <1>7, <1>p, <2>1, <2>2, <2>3, StagedRunInv DEF WorkAttempt, WriteTxn, Legal
  <2>5. LocalInv(p)'
    BY <1>7, <1>p DEF WorkAttempt, LocalInv
  <2> QED
    BY <1>0, <1>7, <2>4, <2>5, PrivateStep DEF WorkAttempt, Staged
<1>8. ASSUME NEW p \in Participant, CanCommit(p)
      PROVE  Harmless(run[p].txn)
  BY <1>0, <1>8, <1>p DEF CanCommit, ReadOnly, RunInv, Harmless, Run
<1>9. ASSUME NEW p \in Participant, Commit(p) PROVE IInv'
  <2> DEFINE t == run[p].txn
             r == run[p]
             s == run'[p]
  <2>1. CanCommit(p) /\ Harmless(t) /\ Applied(t) /\ limbo' = LimboAfter(t)
    BY <1>8, <1>9 DEF Commit
  <2>2. \A q \in Participant \ {p} :
            run'[q] = Overtaken(run[q], t) /\ local'[q] = local[q] /\ token'[q] = token[q]
    BY <1>0, <1>9 DEF Commit
  <2>3. /\ RecStep /\ FenceAtEpoch'
        /\ \A u \in limbo' : Legal(u, rec', reg', recAge')
        /\ \A q \in Participant \ {p} : ParticipantInv(q)' /\ Ranks(q)' = Ranks(q)
    BY <1>0, <2>1, <2>2, CommitStep
  <2>4. token'[p] = token[p] /\ s = Returned(r)
        /\ (local'[p] = local[p] \/ local'[p] = Unknown)
    BY <1>0, <1>9 DEF Commit
  <2>5. LocalInv(p)'
    <3>1. CASE local'[p] = local[p]
      BY <1>0, <1>p, <2>3, <3>1, LocalSurvives
    <3>2. CASE local'[p] = Unknown
      <4>1. rec'.revision \in Nat
        BY <1>0 DEF TypeOK, Record
      <4> QED
        BY <3>2, <4>1 DEF LocalInv, Unknown
    <3> QED
      BY <2>4, <3>1, <3>2
  <2>6. r \in Run /\ r.phase = "commit" /\ (t.writes # {} => r.fresh)
    BY <1>0, <2>1 DEF CanCommit, Committing, ReadOnly
  <2>7. CASE r.op = "poll"
    <3>1. /\ s.phase = "done" /\ s.op = "poll" /\ s.result = r.result
          /\ s.rank = r.rank /\ s.since = r.since /\ s.txn.rec = t.rec
      BY <2>4, <2>6, <2>7 DEF Returned, Run, NoTxn
    <3>2. t.writes \in {{}, Key}
      BY <1>p, <2>6, <2>7 DEF RunInv, Committing, Polling
    <3>3. r.result \in LeaderDecision
            => t.writes = Key /\ t.rec.owner = p /\ EpochTxn(t, rec, reg, recAge)
      BY <1>p, <2>1, <2>6
         DEF RunInv, Committing, Harmless, Legal, ReleaseTxn, WriteTxn, Key
    <3>4. t.writes = Key => rec' = t.rec /\ recAge' = 0
      BY <2>1 DEF Applied, Key
    <3>5. t.writes = {} => rec' = rec /\ t.rec.revision <= rec.revision
      BY <1>p, <2>1, <2>6 DEF Applied, RunInv, Seen, Committing, ReadOnly
    <3>6. rec'.revision \in Nat /\ r.since \in Nat
      BY <1>0, <2>6 DEF TypeOK, Record, Run, Age
    <3>7. RunInv(p)'
      BY <1>p, <2>4, <3>1, <3>2, <3>3, <3>4, <3>5, <3>6
         DEF RunInv, Seen, Committing, ReadOnly, Polling
    <3>8. Ranks(p)' = Ranks(p) \cup (IF r.result \in LeaderDecision
                                     THEN {rec'.revision} ELSE {})
      BY <2>4, <2>6, <3>1, <3>3, <3>4 DEF Ranks
    <3>9. r.result \in LeaderDecision
            => rec'.owner = p /\ rec'.revision = rec.revision + 1
      BY <3>3, <3>4 DEF EpochTxn
    <3>10. \A rank \in Ranks(p) : RankOK(rank, p, rec')
      BY <1>0, <1>p, <2>3, RankSurvives, RankType DEF RankInv
    <3>11. RankInv(p)'
      BY <3>6, <3>8, <3>9, <3>10 DEF RankInv, RankOK
    <3>12. Disjoint'
      <4>1. ASSUME NEW q \in Participant \ {p}
            PROVE  Ranks(p)' \cap Ranks(q)' \subseteq {0}
        <5>1. \A rank \in Ranks(q) : rank <= rec.revision /\ rank \in Nat
          BY <1>0, <1>p, RankType DEF RankInv, RankOK
        <5>2. Ranks(p) \cap Ranks(q) \subseteq {0} /\ Ranks(q)' = Ranks(q)
          BY <2>3 DEF IInv, Disjoint
        <5> QED
          BY <1>0, <3>8, <3>9, <5>1, <5>2
      <4>2. ASSUME NEW q \in Participant \ {p}, NEW u \in Participant \ {p}, q # u
            PROVE  Ranks(q)' \cap Ranks(u)' \subseteq {0}
        BY <2>3, <4>2 DEF IInv, Disjoint
      <4> QED
        BY <4>1, <4>2 DEF Disjoint
    <3> QED
      BY <1>0, <2>3, <2>5, <3>7, <3>11, <3>12 DEF IInv, ParticipantInv
  <2>8. CASE r.op # "poll"
    <3>1. s = IdleRun
      BY <2>4, <2>8 DEF Returned
    <3>2. RunInv(p)' /\ Ranks(p)' = {token[p].last, token[p].stale}
      BY <1>i, <2>4, <3>1, IdleRunInv
    <3>3. Ranks(p)' \subseteq Ranks(p)
      BY <3>2 DEF Ranks
    <3>4. RankInv(p)'
      BY <1>0, <1>p, <2>3, <3>3, RankSurvives, RankType DEF RankInv
    <3>5. Disjoint'
      BY <2>3, <3>3 DEF IInv, Disjoint
    <3> QED
      BY <1>0, <2>3, <2>5, <3>2, <3>4, <3>5 DEF IInv, ParticipantInv
  <2> QED
    BY <2>7, <2>8
<1>10. ASSUME NEW p \in Participant, CommitConflict(p) \/ CommitFailed(p) PROVE IInv'
  <2>1. /\ run' = [run EXCEPT ![p] = Retrying(run[p])]
        /\ UNCHANGED <<rec, reg, recAge, local, token, limbo>>
    BY <1>10 DEF CommitConflict, CommitFailed
  <2>2. run[p] \in Run /\ run[p].phase = "commit"
    BY <1>0, <1>10 DEF CommitConflict, CommitFailed, CanCommit, Committing
  <2>3. /\ run'[p].phase = "attempt" /\ run'[p].rank = run[p].rank
        /\ run'[p].op = run[p].op /\ run'[p].elapsed = run[p].elapsed
    BY <1>0, <2>1, <2>2 DEF Retrying, Run
  <2>4. RunInv(p)' /\ Ranks(p)' \subseteq Ranks(p) \cup {0}
    BY <1>p, <2>1, <2>2, <2>3, IdleRunInv DEF RunInv, Ranks
  <2>5. LocalInv(p)'
    BY <1>p, <2>1 DEF LocalInv
  <2> QED
    BY <1>0, <2>1, <2>4, <2>5, PrivateStep
<1>11. ASSUME NEW p \in Participant, CommitUnknown(p) PROVE IInv'
  <2> DEFINE t == run[p].txn
  <2>1. Harmless(t) /\ Applied(t) /\ limbo' = LimboAfter(t) /\ run[p].phase = "commit"
    BY <1>8, <1>11 DEF CommitUnknown, CanCommit, Committing
  <2>2. \A q \in Participant \ {p} :
            run'[q] = Overtaken(run[q], t) /\ local'[q] = local[q] /\ token'[q] = token[q]
    BY <1>0, <1>11 DEF CommitUnknown
  <2>3. /\ RecStep /\ FenceAtEpoch'
        /\ \A u \in limbo' : Legal(u, rec', reg', recAge')
        /\ \A q \in Participant \ {p} : ParticipantInv(q)' /\ Ranks(q)' = Ranks(q)
    BY <1>0, <2>1, <2>2, CommitStep
  <2>4. /\ local'[p] = local[p] /\ token'[p] = token[p] /\ run'[p] = Retrying(run[p])
    BY <1>0, <1>11 DEF CommitUnknown
  <2>5. /\ run'[p].phase = "attempt" /\ run'[p].rank = run[p].rank
        /\ run'[p].op = run[p].op /\ run'[p].elapsed = run[p].elapsed
    BY <1>0, <2>4 DEF Retrying, Run
  <2>6. RunInv(p)' /\ Ranks(p)' = {token[p].last, token[p].stale}
    BY <1>p, <2>1, <2>4, <2>5, IdleRunInv DEF RunInv
  <2>7. Ranks(p)' \subseteq Ranks(p)
    BY <2>6 DEF Ranks
  <2>8. RankInv(p)'
    BY <1>0, <1>p, <2>3, <2>7, RankSurvives, RankType DEF RankInv
  <2>9. LocalInv(p)'
    BY <1>0, <1>p, <2>3, <2>4, LocalSurvives
  <2>10. Disjoint'
    BY <2>3, <2>7 DEF IInv, Disjoint
  <2> QED
    BY <1>0, <2>3, <2>6, <2>8, <2>9, <2>10 DEF IInv, ParticipantInv
<1>12. ASSUME NEW p \in Participant, LeavesBehind(p)
       PROVE  \A t \in limbo' : Legal(t, rec, reg, recAge)
  BY <1>0, <1>8, <1>12 DEF LeavesBehind, Harmless, ReadOnly
<1>13. ASSUME NEW p \in Participant, RunFails(p) PROVE IInv'
  <2>1. run'[p] = IdleRun /\ (local'[p] = local[p] \/ local'[p] = Unknown)
    BY <1>0, <1>13 DEF RunFails
  <2>2. RunInv(p)' /\ Ranks(p)' \subseteq Ranks(p) \cup {0}
    BY <1>13, <1>i, <2>1, IdleRunInv DEF RunFails, Ranks
  <2>3. LocalInv(p)'
    BY <1>0, <1>13, <1>p, <2>1 DEF RunFails, LocalInv, Unknown
  <2> QED
    BY <1>0, <1>12, <1>13, <2>2, <2>3, PrivateStep DEF RunFails
<1>14. ASSUME NEW p \in Participant, Adopt(p) PROVE IInv'
  <2> DEFINE r == run[p]
             mine == local[p]
  <2>1. /\ r.phase = "done" /\ run'[p] = IdleRun /\ local'[p] = Adopted(mine, p, r)
        /\ rec' = rec /\ recAge' = recAge
    BY <1>0, <1>14 DEF Adopt
  <2>2. /\ r.txn.rec.revision <= rec.revision
        /\ r.result \in LeaderDecision /\ rec.owner = p => recAge <= r.since
    BY <1>p, <2>1 DEF RunInv, Seen
  <2>3. recAge \in Nat
    BY <1>0 DEF TypeOK, Age
  <2>4. LocalInv(p)'
    <3>1. CASE r.result \in LeaderDecision
      <4>1. local'[p] = [kind |-> "leadership", owner |-> r.txn.rec.owner,
                         rank |-> r.txn.rec.revision, lease |-> r.txn.rec.lease,
                         age |-> r.since]
        BY <2>1, <3>1 DEF Adopted, LeaderDecision
      <4> QED
        BY <2>1, <2>2, <3>1, <4>1 DEF LocalInv
    <3>2. CASE local'[p] = mine
      BY <1>p, <2>1, <3>2 DEF LocalInv
    <3>3. CASE /\ r.result \notin LeaderDecision
               /\ local'[p] # mine
      <4>1. /\ local'[p].kind = "observation" /\ local'[p].age = 0
            /\ local'[p].rank = r.txn.rec.revision
        BY <2>1, <3>3 DEF Adopted
      <4> QED
        BY <2>1, <2>2, <2>3, <4>1 DEF LocalInv
    <3> QED
      BY <3>1, <3>2, <3>3
  <2>5. /\ token'[p].last \in Ranks(p) /\ token'[p].stale \in Ranks(p)
    BY <1>0, <1>14, <2>1 DEF Adopt, Ranks, TypeOK
  <2>6. RunInv(p)' /\ Ranks(p)' \subseteq Ranks(p) \cup {0}
    BY <1>i, <2>1, <2>5, IdleRunInv
  <2>7. \A q \in Participant \ {p} :
            run'[q] = run[q] /\ local'[q] = local[q] /\ token'[q] = token[q]
    BY <1>0, <1>14 DEF Adopt, TypeOK
  <2> QED
    BY <1>0, <1>14, <2>4, <2>6, <2>7, PrivateStep DEF Adopt
<1>15. ASSUME NEW p \in Participant, Crash(p) PROVE IInv'
  <2>1. /\ run'[p].phase = "crashed" /\ run'[p].rank = 0 /\ run'[p].op = "none"
        /\ local'[p] = Unknown /\ token'[p] = [last |-> 0, stale |-> 0]
    BY <1>0, <1>15, <1>i DEF Crash, IdleRun, TypeOK
  <2>2. RunInv(p)' /\ Ranks(p)' \subseteq Ranks(p) \cup {0}
    BY <2>1, IdleRunInv
  <2>3. LocalInv(p)'
    BY <1>0, <1>15, <2>1 DEF Crash, LocalInv, Unknown
  <2>4. \A q \in Participant \ {p} :
            run'[q] = run[q] /\ local'[q] = local[q] /\ token'[q] = token[q]
    BY <1>0, <1>15 DEF Crash, TypeOK
  <2> QED
    BY <1>0, <1>12, <1>15, <2>2, <2>3, <2>4, PrivateStep DEF Crash
<1>16. ASSUME NEW t \in limbo, LimboCommit(t) PROVE IInv'
  <2>1. Harmless(t) /\ Applied(t) /\ limbo' = LimboAfter(t)
    BY <1>0, <1>16 DEF LimboCommit, Harmless
  <2>2. \A q \in Participant \ {} :
            run'[q] = Overtaken(run[q], t) /\ local'[q] = local[q] /\ token'[q] = token[q]
    BY <1>16 DEF LimboCommit
  <2>3. /\ FenceAtEpoch'
        /\ \A u \in limbo' : Legal(u, rec', reg', recAge')
        /\ \A q \in Participant \ {} : ParticipantInv(q)' /\ Ranks(q)' = Ranks(q)
    BY <1>0, <2>1, <2>2, CommitStep
  <2>4. Disjoint'
    BY <2>3 DEF IInv, Disjoint
  <2> QED
    BY <1>0, <2>3, <2>4 DEF IInv
<1>17. ASSUME NEW t \in limbo, LimboLost(t) PROVE IInv'
  <2>1. /\ UNCHANGED <<rec, reg, recAge, local, token, run>> /\ limbo' \subseteq limbo
    BY <1>17 DEF LimboLost
  <2>2. \A u \in limbo' : Legal(u, rec', reg', recAge')
    BY <1>0, <2>1
  <2>3. FenceAtEpoch' /\ Disjoint' /\ \A q \in Participant : ParticipantInv(q)'
    BY <2>1, SameInv DEF IInv, FenceAtEpoch, Disjoint
  <2> QED
    BY <1>0, <2>2, <2>3 DEF IInv
<1>18. CASE Tick
  <2>1. /\ UNCHANGED <<rec, reg, token, limbo>>
        /\ recAge \in Nat /\ recAge' \in Nat /\ recAge' >= recAge /\ recAge' = Older(recAge)
    BY <1>0, <1>18 DEF Tick, TypeOK, Age, Older
  <2>2. \A u : Legal(u, rec, reg, recAge) => Legal(u, rec', reg', recAge')
    BY <1>0, <2>1, LegalAges DEF TypeOK
  <2>3. ASSUME NEW p \in Participant PROVE ParticipantInv(p)' /\ Ranks(p)' = Ranks(p)
    <3>1. /\ run'[p].phase = run[p].phase /\ run'[p].op = run[p].op
          /\ run'[p].rank = run[p].rank /\ run'[p].elapsed = run[p].elapsed
          /\ run'[p].result = run[p].result /\ run'[p].fresh = run[p].fresh
          /\ run'[p].txn = run[p].txn
          /\ run'[p].since = IF run[p].op = "poll" THEN Older(run[p].since)
                                                   ELSE run[p].since
      BY <1>0, <1>18 DEF Tick, Polling, Run
    <3>2. /\ local'[p].kind = local[p].kind /\ local'[p].owner = local[p].owner
          /\ local'[p].rank = local[p].rank /\ local'[p].lease = local[p].lease
          /\ local'[p].age = IF local[p].kind = "unknown" THEN local[p].age
                                                          ELSE Older(local[p].age)
      BY <1>0, <1>18 DEF Tick, LocalState
    <3>3. /\ run[p].since \in Age /\ local[p].age \in Age /\ recAge \in Age
          /\ run[p].elapsed \in Age
      BY <1>0 DEF TypeOK, Run, LocalState
    <3>4. Ranks(p)' = Ranks(p)
      BY <2>1, <3>1 DEF Ranks
    <3>5. RankInv(p)'
      BY <1>p, <2>1, <3>4 DEF RankInv
    <3>6. LocalInv(p)'
      BY <1>p, <2>1, <3>2, <3>3 DEF LocalInv, SameRecord, Older, Age
    <3>7. run'[p].op = "poll" /\ run'[p].phase \in {"attempt", "commit"}
            => run'[p].elapsed <= local'[p].age
      <4>1. run[p].op = "poll" /\ run[p].phase \in {"attempt", "commit"}
              => run[p].elapsed <= local[p].age
        BY <1>p DEF RunInv
      <4>2. run[p].elapsed <= local[p].age => run'[p].elapsed <= local'[p].age
        BY <3>1, <3>2, <3>3 DEF Older, Age
      <4> QED
        BY <3>1, <4>1, <4>2
    <3>8. run'[p].phase = "done" /\ run'[p].result \in LeaderDecision /\ rec'.owner = p
            => recAge' <= run'[p].since
      <4>1. run[p].phase = "done" /\ run[p].result \in LeaderDecision /\ rec.owner = p
              => run[p].op = "poll" /\ recAge <= run[p].since
        BY <1>p DEF RunInv, Polling
      <4>2. run[p].op = "poll" /\ recAge <= run[p].since => recAge' <= run'[p].since
        BY <2>1, <3>1, <3>3 DEF Older, Age
      <4> QED
        BY <2>1, <3>1, <4>1, <4>2
    <3>9. RunInv(p)'
      BY <1>p, <2>1, <2>2, <3>1, <3>2, <3>7, <3>8
         DEF RunInv, Seen, Committing, ReadOnly, Polling
    <3> QED
      BY <3>4, <3>5, <3>6, <3>9 DEF ParticipantInv
  <2>4. FenceAtEpoch' /\ Disjoint'
    BY <2>1, <2>3 DEF IInv, FenceAtEpoch, Disjoint
  <2> QED
    BY <1>0, <2>1, <2>2, <2>3, <2>4 DEF IInv
<1>19. CASE UNCHANGED vars
  <2>1. UNCHANGED <<rec, reg, recAge, local, token, run, limbo>>
    BY <1>19 DEF vars
  <2>2. FenceAtEpoch' /\ Disjoint' /\ \A q \in Participant : ParticipantInv(q)'
    BY <2>1, SameInv DEF IInv, FenceAtEpoch, Disjoint
  <2> QED
    BY <1>0, <2>1, <2>2 DEF IInv
<1> QED
  BY <1>1, <1>2, <1>3, <1>4, <1>5, <1>6, <1>7, <1>9, <1>10, <1>11, <1>13, <1>14,
     <1>15, <1>16, <1>17, <1>18, <1>19 DEF Next

\* The invariant holds in every reachable state.
THEOREM InvCorrect == Spec => []IInv
BY InvInit, InvStep, PTL DEF Spec

-----------------------------------------------------------------------------
(* Invariants.                                                             *)

\* The register's fence stands at the newest epoch, whatever commits late.
THEOREM FenceCorrect == Spec => []FenceAtEpoch
<1>1. IInv => FenceAtEpoch
  BY DEF IInv
<1> QED
  BY <1>1, InvCorrect, PTL

\* No rank is granted to two participants, and none beyond the record's.
THEOREM GrantsCorrect == Spec => []UniqueGrants
<1>1. IInv => UniqueGrants
  BY DEF IInv, ParticipantInv, RankInv, RankOK, Disjoint, UniqueGrants
<1> QED
  BY <1>1, InvCorrect, PTL

-----------------------------------------------------------------------------
(* Action properties.                                                      *)

\* The durable state changes only when a legal transaction commits, one its
\* client waits for or one left behind.
LEMMA ChangeCases ==
    ASSUME IInv, [Next]_vars, ~(rec' = rec /\ reg' = reg)
    PROVE  \E t \in Txn :
              /\ Legal(t, rec, reg, recAge) /\ Applied(t)
              /\ \/ t \in limbo
                 \/ \E p \in Participant : CanCommit(p) /\ t = run[p].txn
<1> USE DEF Durable
<1>1. ASSUME NEW p \in Participant, Commit(p) \/ CommitUnknown(p)
      PROVE  /\ CanCommit(p) /\ Applied(run[p].txn) /\ run[p].txn \in Txn
             /\ Legal(run[p].txn, rec, reg, recAge)
  <2>1. CanCommit(p) /\ Applied(run[p].txn) /\ RunInv(p) /\ run[p].txn \in Txn
    BY <1>1 DEF Commit, CommitUnknown, IInv, ParticipantInv, TypeOK, Run
  <2>2. run[p].txn.writes # {}
    BY <2>1 DEF Applied
  <2> QED
    BY <2>1, <2>2 DEF CanCommit, ReadOnly, RunInv
<1>2. ASSUME NEW t \in limbo, LimboCommit(t)
      PROVE  t \in Txn /\ Legal(t, rec, reg, recAge) /\ Applied(t)
  BY <1>2 DEF LimboCommit, IInv, TypeOK
<1>3. ASSUME NEW p \in Participant
      PROVE  /\ \A lease \in Leases[p] : ~BeginPoll(p, lease)
             /\ \A writes \in BOOLEAN : ~PollAttempt(p, writes)
             /\ ~PollExhausted(p) /\ ~BeginResign(p) /\ ~ResignAttempt(p)
             /\ \A rank : ~BeginWork(p, rank)
             /\ ~WorkAttempt(p) /\ ~CommitConflict(p) /\ ~CommitFailed(p)
             /\ ~RunFails(p) /\ ~Adopt(p) /\ ~Crash(p)
  BY DEF BeginPoll, PollAttempt, PollExhausted, BeginResign, ResignAttempt, BeginWork,
         WorkAttempt, CommitConflict, CommitFailed, RunFails, Adopt, Crash
<1>4. ~Tick /\ ~UNCHANGED vars /\ \A t : ~LimboLost(t)
  BY DEF Tick, vars, LimboLost
<1>5. \/ \E p \in Participant : Commit(p) \/ CommitUnknown(p)
      \/ \E t \in limbo : LimboCommit(t)
  BY <1>3, <1>4 DEF Next
<1> QED
  BY <1>1, <1>2, <1>5

\* A new owner, or a renewal, always comes with a newer revision.
THEOREM EpochsCorrect == Spec => EpochsMonotone
<1> DEFINE A == rec' # rec =>
                  \/ rec'.revision > rec.revision /\ rec'.owner # Nobody
                  \/ rec' = [rec EXCEPT !.owner = Nobody]
<1>1. IInv /\ [Next]_vars => A
  <2> SUFFICES ASSUME IInv, [Next]_vars, rec' # rec PROVE A
    OBVIOUS
  <2>1. PICK t \in Txn : Legal(t, rec, reg, recAge) /\ Applied(t)
    BY ChangeCases
  <2>2. rec.revision \in Nat
    BY DEF IInv, TypeOK, Record
  <2> QED
    BY <2>1, <2>2 DEF Legal, EpochTxn, ReleaseTxn, WriteTxn, Applied, Key
<1> QED
  BY <1>1, InvCorrect, PTL DEF Spec, EpochsMonotone

\* An owner is replaced by another participant only after its record stood
\* unchanged for the persisted duration.
THEOREM TakeoverCorrect == Spec => NoEarlyTakeover
<1> DEFINE A == rec.owner \in Participant /\ rec'.owner \in Participant \ {rec.owner}
                  => recAge >= rec.lease
<1>1. IInv /\ [Next]_vars => A
  <2> SUFFICES ASSUME IInv, [Next]_vars,
                      rec.owner \in Participant, rec'.owner \in Participant \ {rec.owner}
               PROVE  recAge >= rec.lease
    OBVIOUS
  <2>1. PICK t \in Txn : Legal(t, rec, reg, recAge) /\ Applied(t)
    BY ChangeCases
  <2>2. rec \in Record
    BY DEF IInv, TypeOK
  <2> QED
    BY <2>1, <2>2 DEF Legal, EpochTxn, ReleaseTxn, WriteTxn, Applied, Key, Record
<1> QED
  BY <1>1, InvCorrect, PTL DEF Spec, NoEarlyTakeover

\* While a participant counts its lease as running, no other takes over.
THEOREM ExclusionCorrect == Spec => LeaseExclusion
<1> DEFINE A == \A p \in Participant : HoldsLease(p) => rec'.owner \in {p, Nobody}
<1>1. IInv /\ [Next]_vars => A
  <2> SUFFICES ASSUME IInv, [Next]_vars, NEW p \in Participant, HoldsLease(p),
                      rec'.owner \notin {p, Nobody}
               PROVE  FALSE
    OBVIOUS
  <2>1. rec.owner = p /\ rec' # rec
    BY DEF HoldsLease
  <2>2. PICK t \in Txn : Legal(t, rec, reg, recAge) /\ Applied(t)
    BY <2>1, ChangeCases
  <2>3. rec \in Record /\ recAge \in Nat /\ local[p].age \in Nat
        /\ local[p].lease \in Nat /\ rec.lease \in Nat
    BY DEF IInv, TypeOK, LocalState, Record, Age, Lease, NoLease
  <2>4. recAge <= local[p].age
    BY <2>1 DEF IInv, ParticipantInv, LocalInv, HoldsLease
  <2>5. recAge >= rec.lease
    BY <2>1, <2>2, <2>3 DEF Legal, EpochTxn, ReleaseTxn, WriteTxn, Applied, Key, Record
  <2> QED
    BY <2>3, <2>4, <2>5 DEF HoldsLease
<1> QED
  BY <1>1, InvCorrect, PTL DEF Spec, LeaseExclusion

\* A release ends only the epoch its issuer was granted.
THEOREM ReleaseCorrect == Spec => NoForeignRelease
<1> DEFINE A == rec.owner # Nobody /\ rec'.owner = Nobody => ReleasedBy(rec.owner)
<1>1. IInv /\ [Next]_vars => A
  <2> SUFFICES ASSUME IInv, [Next]_vars, rec.owner # Nobody, rec'.owner = Nobody
               PROVE  ReleasedBy(rec.owner)
    OBVIOUS
  <2>1. PICK t \in Txn :
              /\ Legal(t, rec, reg, recAge) /\ Applied(t)
              /\ \/ t \in limbo
                 \/ \E p \in Participant : CanCommit(p) /\ t = run[p].txn
    BY ChangeCases
  <2>2. rec \in Record
    BY DEF IInv, TypeOK
  <2>3. ReleaseTxn(t, rec)
    BY <2>1 DEF Legal, EpochTxn, WriteTxn, Applied, Key
  <2>4. t.rec.revision = rec.revision
    BY <2>2, <2>3 DEF ReleaseTxn, Record
  <2>5. CASE t \in limbo
    BY <2>3, <2>4, <2>5 DEF ReleaseTxn, ReleasedBy
  <2>6. CASE \E p \in Participant : CanCommit(p) /\ t = run[p].txn
    <3>1. PICK p \in Participant : CanCommit(p) /\ t = run[p].txn
      BY <2>6
    <3>2. RunInv(p) /\ run[p].fresh
      BY <2>3, <3>1 DEF IInv, ParticipantInv, CanCommit, ReadOnly, ReleaseTxn
    <3>3. /\ run[p].op = "resign" /\ run[p].result = "Resigned"
          /\ rec.owner = p /\ local[p].rank = rec.revision
      BY <2>3, <3>1, <3>2 DEF RunInv, CanCommit, Committing, ReleaseTxn
    <3> QED
      BY <3>3 DEF ReleasedBy
  <2> QED
    BY <2>1, <2>5, <2>6
<1> QED
  BY <1>1, InvCorrect, PTL DEF Spec, NoForeignRelease

\* Protected work lands only in the current epoch, once, from its holder.
THEOREM WorkCorrect == Spec => FencedWork
<1> DEFINE A == reg'.maxWrite # reg.maxWrite \/ reg'.value # reg.value =>
                  /\ reg'.maxWrite = rec'.revision
                  /\ reg.maxWrite < rec'.revision
                  /\ rec'.owner \in {reg'.value, Nobody}
<1>1. IInv /\ [Next]_vars => A
  <2> SUFFICES ASSUME IInv, [Next]_vars,
                      reg'.maxWrite # reg.maxWrite \/ reg'.value # reg.value
               PROVE  /\ reg'.maxWrite = rec'.revision
                      /\ reg.maxWrite < rec'.revision
                      /\ rec'.owner \in {reg'.value, Nobody}
    OBVIOUS
  <2>1. PICK t \in Txn : Legal(t, rec, reg, recAge) /\ Applied(t)
    BY ChangeCases
  <2>2. rec.revision \in Nat /\ reg.maxWrite \in Nat /\ reg.maxWrite <= rec.revision
    BY DEF IInv, TypeOK, Record, Register, FenceAtEpoch
  <2> QED
    BY <2>1, <2>2 DEF Legal, EpochTxn, ReleaseTxn, WriteTxn, Applied, Key
<1> QED
  BY <1>1, InvCorrect, PTL DEF Spec, FencedWork

-----------------------------------------------------------------------------
(* Refinement.                                                             *)

\* The composition implements the time-free specification of fenced epochs.
THEOREM RefinementCorrect == Spec => ImplementsFencedEpochs
<1> DEFINE absvars == <<rec.revision, rec.owner, reg.maxWrite, reg.value>>
<1>1. Init => Epochs!Init
  BY DEF Init, Epochs!Init, NoRecord, NoRegister, EmptyRegister
<1>2. IInv /\ [Next]_vars => [Epochs!Next]_absvars
  <2> SUFFICES ASSUME IInv, [Next]_vars, ~(UNCHANGED absvars)
               PROVE  Epochs!Next
    OBVIOUS
  <2>1. PICK t \in Txn : Legal(t, rec, reg, recAge) /\ Applied(t)
    BY ChangeCases
  <2>2. rec \in Record /\ reg \in Register
    BY DEF IInv, TypeOK
  <2>3. CASE EpochTxn(t, rec, reg, recAge)
    <3>1. Epochs!Grant(t.rec.owner) /\ t.rec.owner \in Participant
      BY <2>1, <2>3 DEF Epochs!Grant, EpochTxn, Applied, Key
    <3> QED
      BY <3>1 DEF Epochs!Next
  <2>4. CASE ReleaseTxn(t, rec)
    <3>1. Epochs!Release
      BY <2>1, <2>2, <2>4 DEF Epochs!Release, ReleaseTxn, Applied, Record, Owner
    <3> QED
      BY <3>1 DEF Epochs!Next
  <2>5. CASE WriteTxn(t, rec, reg)
    <3>1. Epochs!Write(t.reg.value) /\ t.reg.value \in Participant
      BY <2>1, <2>2, <2>5 DEF Epochs!Write, WriteTxn, Applied
    <3> QED
      BY <3>1 DEF Epochs!Next
  <2> QED
    BY <2>1, <2>3, <2>4, <2>5 DEF Legal
<1> QED
  BY <1>1, <1>2, InvCorrect, PTL DEF Spec, ImplementsFencedEpochs, Epochs!Spec
=============================================================================
