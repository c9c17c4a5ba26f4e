------------------------ MODULE TransactionRunProofs ------------------------
(***************************************************************************)
(* Database::run for any policy, any number of retries, user versions and  *)
(* budgets, and any number of reads in flight: an effect is applied at     *)
(* most once, attempts have nothing of one another, and the report tells   *)
(* what each attempt did.                                                  *)
(***************************************************************************)
EXTENDS TransactionRun, TLAPS

USE ParametersAssumption

Phase == {"create", "call", "start", "body", "before_commit", "commit", "commit_error",
          "decide", "on_error", "ended", "retry", "return", "done", "dropped"}
Operation == [kind : Kinds, attempt : Nat, generation : Nat, collected : BOOLEAN]
Recording == [generation : Nat \cup {None}, readVersion : Nat \cup {None},
              keys : Nat \cup {None}]

\* The shape of the variables.
Shape ==
    /\ pc \in Phase /\ attempt \in Nat /\ maybe \in BOOLEAN
    /\ trx \in [generation : Nat, versions : Nat, retries : Nat, collector : BOOLEAN,
                expired : BOOLEAN]
    /\ kept \in BOOLEAN
    /\ pending \subseteq Operation
    /\ usage \in [Generation -> SUBSET Nat]
    /\ open \in Recording
    /\ closure \in [told : BOOLEAN, issued : [Version -> Nat]]
    /\ outcome \in [result : {None, "ok", "err"}, completed : Nat, effects : Nat]

Over == {"return", "done", "dropped"}

\* What the next closure will be told covers every commit that may have happened.
EffectInv ==
    /\ outcome.effects <= 1
    /\ outcome.result = "ok" => outcome.effects = 1 /\ pc \in Over
    /\ pc \in {"start", "body", "before_commit", "commit"} => closure.told = maybe
    /\ trx.expired => pc \in {"commit_error", "decide", "on_error"} \cup Over
    /\ outcome.effects > 0 => maybe \/ trx.expired \/ pc \in Over

\* Nobody else holds the transaction from a commit or on_error to the next attempt,
\* and the allocator counts what the attempt was issued.
ApartInv ==
    /\ pc \in {"commit", "commit_error", "on_error", "ended", "retry", "call", "create"} => ~kept
    /\ pc \in Over /\ outcome.result = "ok" => ~kept
    /\ \A v \in Version : closure.issued[v] = IF v < trx.versions THEN 1 ELSE 0

\* What a generation counts is the work of one attempt; generations yet to come
\* count nothing, and there are enough of them.
ChargeInv ==
    /\ trx.retries <= RetryLimit
    /\ trx.generation <= trx.retries + MaxBudgets
    /\ pc = "ended" => trx.generation < trx.retries + MaxBudgets
    /\ open.generation \in {None, trx.generation}
    /\ {open.readVersion, open.keys} \subseteq {None, attempt}
    /\ usage[trx.generation] \subseteq {attempt}
    /\ \A g \in Generation : g > trx.generation => usage[g] = {}
    /\ \A op \in pending :
        /\ op.generation <= trx.generation
        /\ op.generation = trx.generation => op.attempt = attempt /\ pc # "retry"
    /\ pc = "retry" => /\ usage[trx.generation] = {}
                       /\ open.readVersion = None /\ open.keys = None

Entry == [generation : Nat, outcome : {"Committed", "Retried", "Failed"}, usage : SUBSET Nat,
          readVersion : Nat \cup {None}, keys : Nat \cup {None}, onError : BOOLEAN]

\* An entry tells of its own attempt only, and one that has a successor was retried.
EntryInv ==
    \A i \in 1 .. Len(report) :
        /\ report[i].usage \subseteq {i - 1}
        /\ {report[i].readVersion, report[i].keys} \subseteq {i - 1, None}
        /\ i <= attempt => report[i].outcome = "Retried" /\ report[i].onError

\* The last entry is the attempt's, ended as given, and nothing came after it.
Reported(ended) ==
    /\ Len(report) = attempt + 1
    /\ report[attempt + 1].outcome = ended /\ ~report[attempt + 1].onError

\* The attempt is recorded from its start until it is reported.
Recorded == open.generation = trx.generation /\ Len(report) = attempt

ReportInv ==
    /\ report \in Seq(Entry)
    /\ EntryInv
    /\ ~trx.collector => /\ pc \in {"create", "call", "start", "return", "done"}
                         /\ attempt = 0 /\ Len(report) = 0 /\ open.generation = None
    /\ trx.collector /\ pc \in {"create", "call", "start", "body", "before_commit", "commit",
                                "commit_error", "decide", "on_error"} => Recorded
    /\ trx.collector /\ pc = "return" =>
        IF outcome.result = "ok" THEN Reported("Committed") /\ open.generation = None ELSE Recorded
    /\ pc \in {"ended", "retry"} => Reported("Retried")
    /\ pc = "retry" => open.generation = trx.generation
    /\ trx.collector /\ pc = "done" =>
        Reported(IF outcome.result = "ok" THEN "Committed" ELSE "Failed")

-----------------------------------------------------------------------------
\* The run starts with everything in its type,
LEMMA ShapeInit == ASSUME Init PROVE Shape
BY DEF Init, Shape, Phase, Operation, Recording, NotRecording

\* finish_attempt leaves the collector without an open attempt, or as it was.
LEMMA FinishShape ==
    ASSUME Shape, NEW r, FinishAttempt(r)
    PROVE  open' \in Recording
BY DEF Shape, FinishAttempt, NotRecording, Recording

\* UsageSlot::begin leaves a later generation, and an open attempt of it or none.
LEMMA BeginShape ==
    ASSUME Shape, BeginGeneration
    PROVE  /\ open' \in Recording
           /\ trx' \in [generation : Nat, versions : Nat, retries : Nat, collector : BOOLEAN,
                        expired : BOOLEAN]
BY DEF Shape, BeginGeneration, Opened, NotRecording, Recording

\* A commit that is applied writes the effect once, or not at all.
LEMMA EffectOnce == Effect \in {0, 1}
BY DEF Effect

\* and no step of the loop, of the closure or of a late future leaves it.
LEMMA ShapeStep == ASSUME Shape, Next PROVE Shape'
<1> USE DEF Shape, Phase
<1>1. ASSUME NEW kind \in Kinds, IssueOperation(kind) PROVE Shape'
  BY <1>1 DEF IssueOperation, Operation
<1>2. ASSUME NEW op \in pending, CompleteOperation(op) PROVE Shape'
  <2>1. op.attempt \in Nat /\ op.generation \in Nat
    BY DEF Operation
  <2>2. usage' \in [Generation -> SUBSET Nat]
    BY <1>2, <2>1 DEF CompleteOperation, Credited
  <2>3. open' \in Recording
    BY <1>2, <2>1 DEF CompleteOperation, Recording
  <2> QED
    BY <1>2, <2>2, <2>3 DEF CompleteOperation
<1>3. CASE AllocateUserVersion
  BY <1>3 DEF AllocateUserVersion
<1>4. CASE SetClientBudget
  BY <1>4, BeginShape DEF SetClientBudget
<1>5. CASE LeakClone \/ DropClone
  BY <1>5 DEF LeakClone, DropClone
<1>6. CASE DropRun
  BY <1>6 DEF DropRun, Effect
<1>7. CASE CreateTransaction \/ CreateFails \/ CallClosure
  BY <1>7 DEF CreateTransaction, CreateFails, CallClosure, Returns
<1>8. CASE AttemptStart
  BY <1>8 DEF AttemptStart, Opened, NotRecording, Recording
<1>9. CASE ClosureSucceeds \/ CommitStarts
  BY <1>9 DEF ClosureSucceeds, CommitStarts, Returns
<1>10. ASSUME NEW err \in Error, ClosureFails(err) PROVE Shape'
  BY <1>10 DEF ClosureFails, Fails, AfterFailure, IsMaybeCommitted
<1>11. CASE CommitSucceeds
  <2>1. outcome' \in [result : {None, "ok", "err"}, completed : Nat, effects : Nat]
    <3>1. outcome.effects + Effect \in Nat
      BY EffectOnce
    <3> HIDE DEF Effect
    <3> QED
      BY <1>11, <3>1 DEF CommitSucceeds
  <2> QED
    BY <1>11, <2>1, FinishShape DEF CommitSucceeds
<1>12. ASSUME NEW err \in FdbError, NEW applied \in BOOLEAN, CommitFails(err, applied)
       PROVE  Shape'
  <2>1. outcome' \in [result : {None, "ok", "err"}, completed : Nat, effects : Nat]
    BY <1>12, EffectOnce DEF CommitFails
  <2> QED
    BY <1>12, <2>1 DEF CommitFails, Fails, AfterFailure, IsMaybeCommitted
<1>13. CASE CommitErrorHook
  BY <1>13 DEF CommitErrorHook, Recording
<1>14. ASSUME NEW decision \in Decisions, Decide(decision) PROVE Shape'
  BY <1>14 DEF Decide, Returns
<1>15. CASE OnErrorRefuses
  BY <1>15 DEF OnErrorRefuses, Returns
<1>16. CASE OnErrorSucceeds
  BY <1>16, FinishShape DEF OnErrorSucceeds
<1>17. CASE BeginAttempt
  <2>1. open' \in Recording
    BY <1>17 DEF BeginAttempt, Opened, NotRecording, Recording
  <2>2. trx' \in [generation : Nat, versions : Nat, retries : Nat, collector : BOOLEAN,
                 expired : BOOLEAN]
    <3>1. trx.generation + 1 \in Nat
      OBVIOUS
    <3> QED
      BY <1>17, <3>1 DEF BeginAttempt
  <2> QED
    BY <1>17, <2>1, <2>2 DEF BeginAttempt
<1>18. CASE NextAttempt
  BY <1>18 DEF NextAttempt
<1>19. CASE Complete
  BY <1>19, FinishShape DEF Complete
<1> QED
  BY <1>1, <1>2, <1>3, <1>4, <1>5, <1>6, <1>7, <1>8, <1>9, <1>10, <1>11, <1>12, <1>13, <1>14,
     <1>15, <1>16, <1>17, <1>18, <1>19 DEF Next, Loop

\* Nor does a step of something else.
LEMMA ShapeStutter == ASSUME Shape, UNCHANGED vars PROVE Shape'
BY DEF Shape, vars

-----------------------------------------------------------------------------
\* Nothing was applied before the run,
LEMMA EffectInit == ASSUME Init PROVE EffectInv
BY DEF Init, EffectInv, Over

\* and every step keeps the closure informed of what may have been.
LEMMA EffectStep == ASSUME Shape, EffectInv, Next PROVE EffectInv'
<1> USE DEF Shape, Phase, EffectInv, Over
<1>1. CASE \/ \E kind \in Kinds : IssueOperation(kind)
           \/ \E op \in pending : CompleteOperation(op)
           \/ LeakClone \/ DropClone
  BY <1>1 DEF IssueOperation, CompleteOperation, LeakClone, DropClone
<1>2. CASE AllocateUserVersion
  BY <1>2 DEF AllocateUserVersion
<1>3. CASE SetClientBudget \/ AttemptStart \/ OnErrorSucceeds
  BY <1>3 DEF SetClientBudget, BeginGeneration, AttemptStart, OnErrorSucceeds
<1>4. CASE BeginAttempt
  BY <1>4 DEF BeginAttempt
<1>5. CASE DropRun
  BY <1>5 DEF DropRun, Effect
<1>6. CASE CreateTransaction \/ CreateFails \/ CallClosure \/ ClosureSucceeds \/ CommitStarts
           \/ CommitErrorHook \/ OnErrorRefuses \/ NextAttempt
  BY <1>6 DEF CreateTransaction, CreateFails, CallClosure, ClosureSucceeds, CommitStarts,
              CommitErrorHook, OnErrorRefuses, NextAttempt, Returns
<1>7. ASSUME NEW err \in Error, ClosureFails(err) PROVE EffectInv'
  BY <1>7 DEF ClosureFails, Fails, AfterFailure
<1>8. CASE CommitSucceeds
  BY <1>8 DEF CommitSucceeds, Effect
<1>9. ASSUME NEW err \in FdbError, NEW applied \in BOOLEAN, CommitFails(err, applied)
      PROVE  EffectInv'
  BY <1>9 DEF CommitFails, Fails, AfterFailure, IsMaybeCommitted, Uncertain, Effect
<1>10. ASSUME NEW decision \in Decisions, Decide(decision) PROVE EffectInv'
  BY <1>10 DEF Decide, Returns
<1>11. CASE Complete
  BY <1>11 DEF Complete
<1> QED
  BY <1>1, <1>2, <1>3, <1>4, <1>5, <1>6, <1>7, <1>8, <1>9, <1>10, <1>11 DEF Next, Loop

-----------------------------------------------------------------------------
\* Nobody holds the transaction before the first closure,
LEMMA ApartInit == ASSUME Init PROVE ApartInv
BY DEF Init, ApartInv, Over, Version

\* nor from a commit or on_error to the next one; the allocator is reset in between.
LEMMA ApartStep == ASSUME Shape, EffectInv, ApartInv, Next PROVE ApartInv'
<1> USE DEF Shape, Phase, ApartInv, Over
<1>1. CASE \/ \E kind \in Kinds : IssueOperation(kind)
           \/ \E op \in pending : CompleteOperation(op)
           \/ LeakClone \/ DropClone
  BY <1>1 DEF IssueOperation, CompleteOperation, LeakClone, DropClone, Running
<1>2. CASE AllocateUserVersion
  <2>1. trx.versions \in Version
    BY <1>2 DEF AllocateUserVersion, Version
  <2>2. \A v \in Version : closure'.issued[v] =
            IF v = trx.versions THEN closure.issued[v] + 1 ELSE closure.issued[v]
    BY <1>2, <2>1 DEF AllocateUserVersion
  <2>3. trx'.versions = trx.versions + 1
    BY <1>2 DEF AllocateUserVersion
  <2> QED
    BY <1>2, <2>1, <2>2, <2>3 DEF AllocateUserVersion, Version
<1>3. CASE SetClientBudget \/ AttemptStart \/ OnErrorSucceeds
  BY <1>3 DEF SetClientBudget, BeginGeneration, AttemptStart, OnErrorSucceeds
<1>4. CASE BeginAttempt
  BY <1>4 DEF BeginAttempt, Version
<1>5. CASE DropRun
  BY <1>5 DEF DropRun, EffectInv
<1>6. CASE CreateTransaction \/ CreateFails \/ CallClosure \/ ClosureSucceeds \/ CommitStarts
           \/ CommitErrorHook \/ OnErrorRefuses \/ NextAttempt
  BY <1>6 DEF CreateTransaction, CreateFails, CallClosure, ClosureSucceeds, CommitStarts,
              CommitErrorHook, OnErrorRefuses, NextAttempt, Returns
<1>7. ASSUME NEW err \in Error, ClosureFails(err) PROVE ApartInv'
  BY <1>7 DEF ClosureFails, Fails
<1>8. CASE CommitSucceeds
  BY <1>8 DEF CommitSucceeds
<1>9. ASSUME NEW err \in FdbError, NEW applied \in BOOLEAN, CommitFails(err, applied)
      PROVE  ApartInv'
  BY <1>9 DEF CommitFails, Fails
<1>10. ASSUME NEW decision \in Decisions, Decide(decision) PROVE ApartInv'
  BY <1>10 DEF Decide, Returns
<1>11. CASE Complete
  BY <1>11 DEF Complete
<1> QED
  BY <1>1, <1>2, <1>3, <1>4, <1>5, <1>6, <1>7, <1>8, <1>9, <1>10, <1>11 DEF Next, Loop

-----------------------------------------------------------------------------
\* No generation counted anything before the run,
LEMMA ChargeInit == ASSUME Init PROVE ChargeInv
BY DEF Init, ChargeInv, NotRecording, Generation

\* A generation that begins is within the bound and has counted nothing.
LEMMA Fresh ==
    ASSUME Shape, ChargeInv, trx.generation < trx.retries + MaxBudgets
    PROVE  trx.generation + 1 \in Generation /\ usage[trx.generation + 1] = {}
BY DEF Shape, ChargeInv, Generation

\* and late futures count in the generation that issued them.
LEMMA ChargeStep == ASSUME Shape, ApartInv, ChargeInv, ReportInv, Next PROVE ChargeInv'
<1> USE DEF Shape, Phase, Operation, Recording
<1>1. ASSUME NEW kind \in Kinds, IssueOperation(kind) PROVE ChargeInv'
  BY <1>1 DEF IssueOperation, Usable, Running, ApartInv, ChargeInv
<1>2. ASSUME NEW op \in pending, CompleteOperation(op) PROVE ChargeInv'
  <2>1. op \in Operation /\ op.generation <= trx.generation
    BY DEF ChargeInv
  <2>2. CASE op.generation = trx.generation
    <3>1. op.attempt = attempt /\ pc # "retry"
      BY <2>2 DEF ChargeInv
    <3> QED
      BY <1>2, <2>1, <2>2, <3>1 DEF CompleteOperation, Credited, GrvRecorded, ChargeInv
  <2>3. CASE op.generation < trx.generation
    BY <1>2, <2>1, <2>3 DEF CompleteOperation, Credited, GrvRecorded, ChargeInv, ReportInv
  <2> QED
    BY <2>1, <2>2, <2>3
<1>3. CASE AllocateUserVersion
  BY <1>3 DEF AllocateUserVersion, ChargeInv
<1>4. CASE SetClientBudget
  <2>1. trx.generation < trx.retries + MaxBudgets /\ pc # "retry" /\ pc # "ended"
    BY <1>4 DEF SetClientBudget, Usable, Running, ApartInv
  <2>2. trx'.generation = trx.generation + 1 /\ trx'.retries = trx.retries
    BY <1>4 DEF SetClientBudget, BeginGeneration
  <2>3. /\ open'.generation \in {None, trx.generation + 1}
        /\ {open'.readVersion, open'.keys} \subseteq {None, attempt}
    BY <1>4 DEF SetClientBudget, BeginGeneration, Opened, NotRecording, ChargeInv, ReportInv
  <2>4. UNCHANGED <<pc, attempt, usage, pending>>
    BY <1>4 DEF SetClientBudget
  <2> QED
    <3>1. usage[trx.generation + 1] = {} /\ trx.generation + 1 \in Generation
      BY <2>1, Fresh
    <3>2. \A g \in Generation : g > trx.generation + 1 => usage[g] = {}
      BY DEF ChargeInv, Generation
    <3>3. \A op \in pending : op.generation \in Nat /\ op.generation <= trx.generation
      BY DEF ChargeInv
    <3>4. trx.generation \in Nat /\ trx.retries \in Nat
      OBVIOUS
    <3> HIDE DEF Shape
    <3> QED
      BY <2>1, <2>2, <2>3, <2>4, <3>1, <3>2, <3>3, <3>4 DEF ChargeInv
<1>5. CASE LeakClone \/ DropClone \/ DropRun
  BY <1>5 DEF LeakClone, DropClone, DropRun, ChargeInv
<1>6. CASE CreateTransaction \/ CreateFails \/ CallClosure \/ ClosureSucceeds \/ CommitStarts
           \/ OnErrorRefuses
  BY <1>6 DEF CreateTransaction, CreateFails, CallClosure, ClosureSucceeds, CommitStarts,
              OnErrorRefuses, Returns, ChargeInv
<1>7. CASE AttemptStart
  BY <1>7 DEF AttemptStart, Opened, NotRecording, ChargeInv
<1>8. ASSUME NEW err \in Error, ClosureFails(err) PROVE ChargeInv'
  BY <1>8 DEF ClosureFails, Fails, ChargeInv
<1>9. CASE CommitSucceeds \/ Complete
  BY <1>9 DEF CommitSucceeds, Complete, FinishAttempt, NotRecording, ChargeInv
<1>10. ASSUME NEW err \in FdbError, NEW applied \in BOOLEAN, CommitFails(err, applied)
       PROVE  ChargeInv'
  BY <1>10 DEF CommitFails, Fails, ChargeInv
<1>11. CASE CommitErrorHook
  BY <1>11 DEF CommitErrorHook, ChargeInv
<1>12. ASSUME NEW decision \in Decisions, Decide(decision) PROVE ChargeInv'
  BY <1>12 DEF Decide, Returns, ChargeInv
<1>13. CASE OnErrorSucceeds
  BY <1>13 DEF OnErrorSucceeds, FinishAttempt, NotRecording, ChargeInv
<1>14. CASE BeginAttempt
  <2>1. trx.generation < trx.retries + MaxBudgets
    BY <1>14 DEF BeginAttempt, ChargeInv
  <2>2. trx'.generation = trx.generation + 1 /\ trx'.retries = trx.retries
    BY <1>14 DEF BeginAttempt
  <2>3. open'.generation = trx.generation + 1 /\ open'.readVersion = None /\ open'.keys = None
    BY <1>14 DEF BeginAttempt, Opened, NotRecording
  <2>4. pc' = "retry" /\ UNCHANGED <<attempt, usage, pending>>
    BY <1>14 DEF BeginAttempt
  <2> QED
    <3>1. usage[trx.generation + 1] = {} /\ trx.generation + 1 \in Generation
      BY <2>1, Fresh
    <3>2. \A g \in Generation : g > trx.generation + 1 => usage[g] = {}
      BY DEF ChargeInv, Generation
    <3>3. \A op \in pending : op.generation \in Nat /\ op.generation <= trx.generation
      BY DEF ChargeInv
    <3>4. trx.generation \in Nat /\ trx.retries \in Nat
      OBVIOUS
    <3> HIDE DEF Shape
    <3> QED
      BY <2>1, <2>2, <2>3, <2>4, <3>1, <3>2, <3>3, <3>4 DEF ChargeInv
<1>15. CASE NextAttempt
  BY <1>15 DEF NextAttempt, ChargeInv
<1> QED
  BY <1>1, <1>2, <1>3, <1>4, <1>5, <1>6, <1>7, <1>8, <1>9, <1>10, <1>11, <1>12, <1>13, <1>14,
     <1>15 DEF Next, Loop

-----------------------------------------------------------------------------
\* The report is empty before the run,
LEMMA ReportInit == ASSUME Init PROVE ReportInv
BY DEF Init, ReportInv, EntryInv, NotRecording

\* What finish_attempt appends while an attempt is recorded.
LEMMA Finished ==
    ASSUME Shape, ChargeInv, ReportInv, Recorded,
           NEW ended \in {"Committed", "Retried", "Failed"}, FinishAttempt(ended),
           attempt' = attempt
    PROVE  /\ report' \in Seq(Entry) /\ EntryInv' /\ open'.generation = None
           /\ Reported(ended)'
<1> DEFINE e == [generation |-> open.generation, outcome |-> ended,
                 usage |-> usage[open.generation], readVersion |-> open.readVersion,
                 keys |-> open.keys, onError |-> FALSE]
<1>1. open.generation \in Generation /\ open.generation # None
  BY DEF Recorded, Shape, ChargeInv, Generation
<1>2. report' = Append(report, e) /\ open'.generation = None
  BY <1>1 DEF FinishAttempt, NotRecording
<1>3. e \in Entry
  BY <1>1 DEF Entry, Shape, Recording, Generation
<1>4. report' \in Seq(Entry) /\ Len(report') = attempt + 1
  BY <1>2, <1>3 DEF ReportInv, Recorded
<1>5. \A i \in 1 .. Len(report') : report'[i] = IF i = attempt + 1 THEN e ELSE report[i]
  BY <1>2, <1>3, <1>4 DEF ReportInv, Recorded, Shape
<1>6. e.usage \subseteq {attempt} /\ {e.readVersion, e.keys} \subseteq {attempt, None}
  BY DEF Recorded, ChargeInv
<1>7. ASSUME NEW i \in 1 .. Len(report')
      PROVE  /\ report'[i].usage \subseteq {i - 1}
             /\ {report'[i].readVersion, report'[i].keys} \subseteq {i - 1, None}
             /\ i <= attempt => report'[i].outcome = "Retried" /\ report'[i].onError
  <2> HIDE DEF e
  <2>1. CASE i = attempt + 1
    BY <1>5, <1>6, <2>1 DEF Shape
  <2>2. CASE i \in 1 .. Len(report)
    BY <1>4, <1>5, <2>2 DEF ReportInv, EntryInv, Recorded, Shape
  <2> QED
    BY <1>4, <2>1, <2>2 DEF Recorded, Shape
<1> QED
  BY <1>2, <1>4, <1>5, <1>7 DEF EntryInv, Reported, Shape

\* and gets one entry for each attempt that ends.
LEMMA ReportStep ==
    ASSUME Shape, EffectInv, ApartInv, ChargeInv, ReportInv, Next
    PROVE  ReportInv'
<1> USE DEF Shape, Phase, Over
<1>1. CASE /\ UNCHANGED <<pc, attempt, report, outcome>> /\ trx'.collector = trx.collector
           /\ trx'.generation = trx.generation /\ open'.generation = open.generation
  BY <1>1 DEF ReportInv, EntryInv, Reported, Recorded
<1>2. CASE \/ \E kind \in Kinds : IssueOperation(kind)
           \/ \E op \in pending : CompleteOperation(op)
           \/ AllocateUserVersion \/ LeakClone \/ DropClone
  BY <1>1, <1>2 DEF IssueOperation, CompleteOperation, AllocateUserVersion, LeakClone, DropClone,
                    Recording
<1>3. CASE SetClientBudget
  <2>1. pc \in {"start", "body", "before_commit", "decide"} \cup Over
        /\ (pc \in Over => outcome.result # "ok")
    BY <1>3 DEF SetClientBudget, Usable, Running, ApartInv
  <2>2. /\ trx'.generation = trx.generation + 1 /\ trx'.collector = trx.collector
        /\ open'.generation = IF trx.collector THEN trx'.generation ELSE open.generation
    BY <1>3 DEF SetClientBudget, BeginGeneration, Opened, NotRecording
  <2> QED
    BY <1>3, <2>1, <2>2 DEF SetClientBudget, ReportInv, EntryInv, Reported, Recorded
<1>4. CASE DropRun
  BY <1>4 DEF DropRun, ReportInv, EntryInv, Reported, Recorded
<1>5. CASE CreateTransaction \/ CreateFails \/ CallClosure \/ ClosureSucceeds \/ CommitStarts
           \/ OnErrorRefuses
  BY <1>5 DEF CreateTransaction, CreateFails, CallClosure, ClosureSucceeds, CommitStarts,
              OnErrorRefuses, Returns, ReportInv, EntryInv, Reported, Recorded
<1>6. CASE AttemptStart
  BY <1>6 DEF AttemptStart, Opened, NotRecording, ReportInv, EntryInv, Reported, Recorded
<1>7. ASSUME NEW err \in Error, ClosureFails(err) PROVE ReportInv'
  BY <1>7 DEF ClosureFails, Fails, ReportInv, EntryInv, Reported, Recorded
<1>8. CASE CommitSucceeds
  <2>1. trx.collector /\ Recorded
    BY <1>8 DEF CommitSucceeds, ReportInv
  <2>2. pc' = "return" /\ outcome'.result = "ok" /\ UNCHANGED <<attempt, trx>>
    BY <1>8 DEF CommitSucceeds
  <2> QED
    BY <1>8, <2>1, <2>2, Finished DEF CommitSucceeds, ReportInv
<1>9. ASSUME NEW err \in FdbError, NEW applied \in BOOLEAN, CommitFails(err, applied)
      PROVE  ReportInv'
  BY <1>9 DEF CommitFails, Fails, ReportInv, EntryInv, Reported, Recorded
<1>10. CASE CommitErrorHook
  BY <1>10 DEF CommitErrorHook, ReportInv, EntryInv, Reported, Recorded, Recording
<1>11. ASSUME NEW decision \in Decisions, Decide(decision) PROVE ReportInv'
  BY <1>11 DEF Decide, Returns, ReportInv, EntryInv, Reported, Recorded
<1>12. CASE OnErrorSucceeds
  <2>1. trx.collector /\ Recorded
    BY <1>12 DEF OnErrorSucceeds, ReportInv
  <2>2. pc' = "ended" /\ attempt' = attempt /\ trx'.collector
    BY <1>12, <2>1 DEF OnErrorSucceeds
  <2> QED
    BY <1>12, <2>1, <2>2, Finished DEF OnErrorSucceeds, ReportInv
<1>13. CASE BeginAttempt
  BY <1>13 DEF BeginAttempt, Opened, NotRecording, ReportInv, EntryInv, Reported, Recorded
<1>14. CASE NextAttempt
  <2>1. Len(report) = attempt + 1 /\ trx.collector /\ report \in Seq(Entry)
        /\ report[attempt + 1].outcome = "Retried"
    BY <1>14 DEF NextAttempt, ReportInv, Reported
  <2>2. report' = [report EXCEPT ![attempt + 1].onError = TRUE]
    BY <1>14, <2>1 DEF NextAttempt
  <2>3. report[attempt + 1] \in Entry
    BY <2>1
  <2>4. [report[attempt + 1] EXCEPT !.onError = TRUE] \in Entry
    BY <2>3 DEF Entry
  <2>5. report' \in Seq(Entry) /\ Len(report') = attempt + 1
    BY <2>1, <2>2, <2>4
  <2>6. /\ report'[attempt + 1] = [report[attempt + 1] EXCEPT !.onError = TRUE]
        /\ \A i \in 1 .. attempt : report'[i] = report[i]
    <3>1. attempt \in Nat
      OBVIOUS
    <3>2. report \in [1 .. attempt + 1 -> Entry]
      BY <2>1
    <3>3. attempt + 1 \in 1 .. attempt + 1 /\ \A i \in 1 .. attempt : i \in 1 .. attempt + 1 /\ i # attempt + 1
      BY <3>1
    <3> DEFINE n == attempt + 1
    <3>4. report' = [report EXCEPT ![n] = [report[n] EXCEPT !.onError = TRUE]]
      BY <2>2
    <3>5. n \in DOMAIN report /\ \A i \in 1 .. attempt : i \in DOMAIN report /\ i # n
      BY <3>2, <3>3
    <3> HIDE DEF n, Shape
    <3>6. report'[n] = [report[n] EXCEPT !.onError = TRUE] /\ \A i \in 1 .. attempt : report'[i] = report[i]
      BY <3>4, <3>5
    <3> QED
      BY <3>6 DEF n
  <2>7. \A i \in 1 .. attempt + 1 : report[i] \in Entry
    BY <2>1
  <2>8. ASSUME NEW i \in 1 .. attempt + 1
        PROVE  /\ report'[i].usage \subseteq {i - 1}
               /\ {report'[i].readVersion, report'[i].keys} \subseteq {i - 1, None}
               /\ report'[i].outcome = "Retried" /\ report'[i].onError
    <3>1. /\ report[i].usage \subseteq {i - 1}
          /\ {report[i].readVersion, report[i].keys} \subseteq {i - 1, None}
          /\ i <= attempt => report[i].outcome = "Retried" /\ report[i].onError
      BY <2>1 DEF ReportInv, EntryInv
    <3>2. CASE i = attempt + 1
      BY <2>1, <2>6, <2>7, <3>1, <3>2 DEF Entry
    <3>3. CASE i \in 1 .. attempt
      BY <2>6, <3>1, <3>3
    <3> QED
      BY <3>2, <3>3
  <2> QED
    BY <1>14, <2>1, <2>5, <2>8 DEF NextAttempt, ReportInv, EntryInv, Recorded
<1>15. CASE Complete
  <2>1. pc' = "done" /\ outcome'.result = outcome.result /\ UNCHANGED <<attempt, trx>> /\ pc = "return"
    BY <1>15 DEF Complete
  <2>2. CASE trx.collector /\ outcome.result # "ok"
    <3>1. Recorded
      BY <2>1, <2>2 DEF ReportInv
    <3> QED
      BY <1>15, <2>1, <2>2, <3>1, Finished DEF Complete, ReportInv
  <2>3. CASE ~trx.collector \/ outcome.result = "ok"
    <3>1. open.generation = None
      BY <2>1, <2>3 DEF ReportInv
    <3>2. report' = report /\ open'.generation = None
      BY <1>15, <3>1 DEF Complete, FinishAttempt, NotRecording
    <3> QED
      BY <2>1, <2>3, <3>2 DEF ReportInv, EntryInv, Reported, Recorded
  <2> QED
    BY <2>2, <2>3
<1> QED
  BY <1>2, <1>3, <1>4, <1>5, <1>6, <1>7, <1>8, <1>9, <1>10, <1>11, <1>12, <1>13, <1>14,
     <1>15 DEF Next, Loop

-----------------------------------------------------------------------------
IInv == Shape /\ EffectInv /\ ApartInv /\ ChargeInv /\ ReportInv

\* The inductive invariant: the shape, what the closure is told, who holds the
\* transaction, what a generation is charged with, and the report so far.
THEOREM InvCorrect == Spec => []IInv
<1>1. Init => IInv
  BY ShapeInit, EffectInit, ApartInit, ChargeInit, ReportInit DEF IInv
<1>2. ASSUME IInv, Next PROVE IInv'
  BY <1>2, ShapeStep, EffectStep, ApartStep, ChargeStep, ReportStep DEF IInv
<1>3. ASSUME IInv, UNCHANGED vars PROVE IInv'
  <2>1. Shape'
    BY <1>3, ShapeStutter DEF IInv
  <2>2. EffectInv' /\ ApartInv' /\ ChargeInv' /\ ReportInv'
    BY <1>3 DEF IInv, vars, EffectInv, ApartInv, ChargeInv, ReportInv, EntryInv, Reported, Recorded
  <2> QED
    BY <2>1, <2>2 DEF IInv
<1>4. IInv /\ [Next]_vars => IInv'
  BY <1>2, <1>3
<1> QED
  BY <1>1, <1>4, PTL DEF Spec

\* MaybeCommitted: through uncertain commits, the failures that follow them and any
\* policy, a closure that heeds it applies its effect at most once, and exactly
\* once when the run returns Ok.
THEOREM EffectCorrect == Spec => []AtMostOneEffect
<1>1. IInv => AtMostOneEffect
  BY DEF IInv, Shape, EffectInv, AtMostOneEffect
<1> QED
  BY InvCorrect, <1>1, PTL

\* RetryableTransaction::take and allocate_user_version: no leaked clone reaches from
\* one attempt into the next, and each is issued its user versions once.
THEOREM ApartCorrect == Spec => []AttemptsApart
<1>1. IInv => AttemptsApart
  BY DEF IInv, ApartInv, AttemptsApart
<1> QED
  BY InvCorrect, <1>1, PTL

\* The report of metrics.rs: one entry per attempt, each with how it ended and with
\* its own work only.
THEOREM ReportCorrect == Spec => []ReportTellsTheRun
<1>1. ASSUME IInv, pc = "done", trx.collector
      PROVE  /\ Len(report) = attempt + 1
             /\ \A i \in 1 .. Len(report) :
                 /\ report[i].outcome =
                     IF i <= attempt THEN "Retried"
                     ELSE IF outcome.result = "ok" THEN "Committed" ELSE "Failed"
                 /\ report[i].onError = (i <= attempt)
  <2>1. attempt \in Nat /\ report \in Seq(Entry)
    BY <1>1 DEF IInv, Shape, ReportInv
  <2>2. Reported(IF outcome.result = "ok" THEN "Committed" ELSE "Failed")
    BY <1>1 DEF IInv, ReportInv
  <2>3. \A i \in 1 .. Len(report) : report[i].onError \in BOOLEAN
    <3>1. \A i \in 1 .. Len(report) : report[i] \in Entry
      BY <2>1
    <3> QED
      BY <3>1 DEF Entry
  <2>4. \A i \in 1 .. attempt : report[i].outcome = "Retried" /\ report[i].onError
    BY <1>1, <2>1, <2>2 DEF IInv, ReportInv, EntryInv, Reported
  <2> QED
    BY <2>1, <2>2, <2>3, <2>4 DEF Reported
<1>2. IInv => ReportTellsTheRun
  BY <1>1 DEF IInv, ReportInv, EntryInv, ReportTellsTheRun
<1> QED
  BY InvCorrect, <1>2, PTL
=============================================================================
