--------------------------- MODULE TransactionRun ---------------------------
(***************************************************************************)
(* One call of Database::run: the retry loop of runner.rs around a         *)
(* RetryableTransaction, with MetricsHooks attached.  Modelled with it:    *)
(* the usage generations of budget.rs, the metrics report of metrics.rs,   *)
(* the user-version allocator of transaction.rs, and reads whose futures   *)
(* outlive the attempt that issued them.                                   *)
(*                                                                         *)
(* The closure is the one MaybeCommitted exists for: it writes one effect, *)
(* unless it is told that an earlier commit may have happened and finds    *)
(* the effect there.  The policy is any RetryPolicy.  The database commits *)
(* or not, and says so or not; fdb_transaction_on_error refuses an error   *)
(* that is not retryable, and may refuse any, at the latest when           *)
(* RetryLimit retries were made.                                           *)
(***************************************************************************)
EXTENDS Naturals, Sequences, FiniteSets

CONSTANTS
    RetryLimit,         \* the native RetryLimit option
    UserVersions,       \* user versions per attempt (65536 in the code)
    Kinds,              \* operations the closure issues: "read", "grv"
    MaxBudgets,         \* bound: set_client_budget calls in the run
    MaxPending,         \* bound: futures not yet completed
    None                \* Option::None

ASSUME ParametersAssumption ==
    /\ RetryLimit \in Nat /\ UserVersions \in Nat /\ MaxBudgets \in Nat
    /\ None \notin Nat \cup {"ok", "err"}

VARIABLES
    pc,         \* where the retry loop is
    attempt,    \* index of the current attempt
    maybe,      \* maybe_committed
    cause,      \* the failure being handled, then the error given to on_error
    trx,        \* the Transaction: generation, user versions, retries, collector
    kept,       \* the closure leaked a clone of the RetryableTransaction
    pending,    \* read and GRV futures not yet completed; each is credited to the
                \* generation it captured, a GRV to the collector attached then
    usage,      \* what each accounting generation has counted
    open,       \* the metrics' OpenAttempt
    report,     \* the metrics' attempts, with their outcome, usage, ...
    closure,    \* what this attempt's closure was told and was issued
    outcome     \* the run's result, on_complete calls, effects in the database

vars == <<pc, attempt, maybe, cause, trx, kept, pending, usage, open, report,
          closure, outcome>>

-----------------------------------------------------------------------------
Attempt == 0 .. RetryLimit
Generation == 0 .. RetryLimit + MaxBudgets

\* FdbError, by what the loop and the native client distinguish, and errors
\* of the closure that carry no FdbError.  A commit that times out may have
\* happened too, but nothing can be retried on that transaction.
Retryable == {"not_committed", "unknown_result"}
FdbError == Retryable \cup {"timed_out", "fatal"}
Error == FdbError \cup {"custom"}
IsMaybeCommitted(err) == err = "unknown_result"
Uncertain == {"unknown_result", "timed_out"}

Version == 0 .. UserVersions - 1

NotRecording == [generation |-> None, readVersion |-> None, keys |-> None]

-----------------------------------------------------------------------------
(* Metrics and accounting.                                                 *)

\* TransactionMetrics::begin_attempt: what was open and unfinished is dropped.
Opened(generation) == [NotRecording EXCEPT !.generation = generation]

\* TransactionMetrics::finish_attempt: a no-op when nothing is being recorded.
FinishAttempt(result) ==
    /\ report' =
        IF open.generation = None THEN report
        ELSE Append(report, [generation |-> open.generation, outcome |-> result,
                             usage |-> usage[open.generation],
                             readVersion |-> open.readVersion, keys |-> open.keys,
                             onError |-> FALSE])
    /\ open' = NotRecording

Credited_CurrentGeneration(op) == trx.generation

\* The generation a completed operation counts in.
Credited(op) == op.generation

\* TransactionMetrics::record_grv: only while the issuing attempt is open.
GrvRecorded(op) == op.collected /\ open.generation = op.generation

\* UsageSlot::begin and open_metrics_attempt.
BeginGeneration ==
    /\ trx' = [trx EXCEPT !.generation = @ + 1]
    /\ open' = IF trx.collector THEN Opened(trx.generation + 1) ELSE open

-----------------------------------------------------------------------------
(* The transaction in the closure's hands.                                 *)

Running == pc \in {"start", "body"}
\* Who can use it: the closure, the before_commit hook, a leaked clone.
Usable == Running \/ pc = "before_commit" \/ kept

\* get, get_range, ... or get_read_version: a future is issued.  The closure
\* may do so in its synchronous part, before the future it returns is polled.
IssueOperation(kind) ==
    /\ Usable /\ Cardinality(pending) < MaxPending
    /\ pending' = pending \cup
        {[kind |-> kind, attempt |-> attempt, generation |-> trx.generation,
          collected |-> trx.collector]}
    /\ UNCHANGED <<pc, attempt, maybe, cause, trx, kept, usage, open, report, closure,
                   outcome>>

\* It completes, in this attempt or in a later one, or when the run is over.
CompleteOperation(op) ==
    /\ op \in pending
    /\ pending' = pending \ {op}
    /\ usage' = IF op.kind = "read"
                THEN [usage EXCEPT ![Credited(op)] = @ \cup {op.attempt}]
                ELSE usage
    /\ open' = IF op.kind = "grv" /\ GrvRecorded(op)
               THEN [open EXCEPT !.readVersion = op.attempt]
               ELSE open
    /\ UNCHANGED <<pc, attempt, maybe, cause, trx, kept, report, closure, outcome>>

\* allocate_user_version; it fails once every version has been issued.
AllocateUserVersion ==
    /\ Usable
    /\ trx.versions < UserVersions
    /\ trx' = [trx EXCEPT !.versions = @ + 1]
    /\ closure' = [closure EXCEPT !.issued[trx.versions] = @ + 1]
    /\ UNCHANGED <<pc, attempt, maybe, cause, kept, pending, usage, open, report, outcome>>

\* set_client_budget: a fresh generation in the middle of an attempt.
SetClientBudget ==
    /\ Usable /\ trx.generation - trx.retries < MaxBudgets
    /\ BeginGeneration
    /\ UNCHANGED <<pc, attempt, maybe, cause, kept, pending, usage, report, closure,
                   outcome>>

\* A clone moved into another task, and dropped whenever that task ends.
LeakClone ==
    /\ Running /\ ~kept
    /\ kept' = TRUE
    /\ UNCHANGED <<pc, attempt, maybe, cause, trx, pending, usage, open, report, closure,
                   outcome>>
DropClone ==
    /\ kept
    /\ kept' = FALSE
    /\ UNCHANGED <<pc, attempt, maybe, cause, trx, pending, usage, open, report, closure,
                   outcome>>

-----------------------------------------------------------------------------
(* The retry loop.                                                         *)

Returns(result) ==
    /\ pc' = "return"
    /\ outcome' = [outcome EXCEPT !.result = result]

\* create_retryable_trx, or its failure: the run is over before an attempt.
CreateTransaction ==
    /\ pc = "create"
    /\ pc' = "call"
    /\ UNCHANGED <<attempt, maybe, cause, trx, kept, pending, usage, open, report, closure,
                   outcome>>
CreateFails ==
    /\ pc = "create"
    /\ Returns("err")
    /\ UNCHANGED <<attempt, maybe, cause, trx, kept, pending, usage, open, report, closure>>

\* The loop calls the closure, which may already use the transaction...
CallClosure ==
    /\ pc = "call"
    /\ pc' = "start"
    /\ closure' = [closure EXCEPT !.told = maybe]
    /\ UNCHANGED <<attempt, maybe, cause, trx, kept, pending, usage, open, report, outcome>>

\* ... and run_attempt fires on_attempt_start, which attaches the collector to
\* the transaction's first attempt, before it polls the closure's future.
AttemptStart ==
    /\ pc = "start"
    /\ pc' = "body"
    /\ trx' = [trx EXCEPT !.collector = TRUE]
    /\ open' = IF trx.collector THEN open ELSE Opened(trx.generation)
    /\ UNCHANGED <<attempt, maybe, cause, kept, pending, usage, report, closure, outcome>>

ClosureSucceeds ==
    /\ pc = "body"
    /\ pc' = "before_commit"
    /\ UNCHANGED <<attempt, maybe, cause, trx, kept, pending, usage, open, report, closure,
                   outcome>>

AfterFailure_LatestOnly(err) == IsMaybeCommitted(err)

\* Later failures cannot resolve an earlier uncertain commit.
AfterFailure(err) == maybe \/ IsMaybeCommitted(err)

Fails(err) ==
    /\ maybe' = AfterFailure(err)
    /\ cause' = err
    /\ trx' = [trx EXCEPT !.expired = @ \/ err = "timed_out"]

\* The closure fails, with an error of its own transaction or of another.
ClosureFails(err) ==
    /\ pc = "body"
    /\ Fails(err)
    /\ pc' = "decide"
    /\ UNCHANGED <<attempt, kept, pending, usage, open, report, closure, outcome>>

CommitStarts_WaitsForClones ==
    /\ pc = "before_commit" /\ ~kept
    /\ pc' = "commit"
    /\ UNCHANGED <<attempt, maybe, cause, trx, kept, pending, usage, open, report, closure,
                   outcome>>

\* RetryableTransaction::take: nothing is committed while a clone is kept.
CommitStarts ==
    /\ pc = "before_commit"
    /\ IF kept THEN Returns("err") ELSE pc' = "commit" /\ UNCHANGED outcome
    /\ UNCHANGED <<attempt, maybe, cause, trx, kept, pending, usage, open, report, closure>>

Effect == IF closure.told /\ outcome.effects > 0 THEN 0 ELSE 1

CommitSucceeds ==
    /\ pc = "commit"
    /\ pc' = "return"
    /\ outcome' = [outcome EXCEPT !.result = "ok", !.effects = @ + Effect]
    /\ FinishAttempt("Committed")
    /\ UNCHANGED <<attempt, maybe, cause, trx, kept, pending, usage, closure>>

CommitFails(err, applied) ==
    /\ pc = "commit"
    /\ applied => err \in Uncertain
    /\ Fails(err)
    /\ outcome' = [outcome EXCEPT !.effects = @ + (IF applied THEN Effect ELSE 0)]
    /\ pc' = "commit_error"
    /\ UNCHANGED <<attempt, kept, pending, usage, open, report, closure>>

\* on_commit_error: the collector keeps the conflicting keys.
CommitErrorHook ==
    /\ pc = "commit_error"
    /\ pc' = "decide"
    /\ open' = [open EXCEPT !.keys = attempt]
    /\ UNCHANGED <<attempt, maybe, cause, trx, kept, pending, usage, report, closure,
                   outcome>>

Fatal == [retry |-> FALSE, error |-> "fatal"]
Retry == [retry |-> TRUE, error |-> "not_committed"]
Decisions == {Fatal, Retry} \cup [retry : {TRUE}, error : FdbError]

\* The policy: end the run, hand an error to on_error, or retry, which hands
\* it not_committed.  After a failed closure the transaction is taken first.
Decide(decision) ==
    /\ pc = "decide"
    /\ cause' = IF decision.retry THEN decision.error ELSE cause
    /\ IF decision.retry /\ ~kept
       THEN pc' = "on_error" /\ UNCHANGED outcome
       ELSE Returns("err")
    /\ UNCHANGED <<attempt, maybe, trx, kept, pending, usage, open, report, closure>>

\* on_error refuses: the error ends the run, whatever the policy wanted.
OnErrorRefuses ==
    /\ pc = "on_error"
    /\ Returns("err")
    /\ UNCHANGED <<attempt, maybe, cause, trx, kept, pending, usage, open, report, closure>>

\* on_error succeeds: the attempt is pushed to the report as retried, ...
OnErrorSucceeds ==
    /\ pc = "on_error"
    /\ cause \in Retryable /\ ~trx.expired /\ trx.retries < RetryLimit
    /\ pc' = "ended"
    /\ trx' = [trx EXCEPT !.retries = @ + 1]
    /\ FinishAttempt("Retried")
    /\ UNCHANGED <<attempt, maybe, cause, kept, pending, usage, closure, outcome>>

BeginAttempt_KeepsVersions ==
    /\ pc = "ended"
    /\ pc' = "retry"
    /\ BeginGeneration
    /\ closure' = [closure EXCEPT !.issued = [v \in Version |-> 0]]
    /\ UNCHANGED <<attempt, maybe, cause, kept, pending, usage, report, outcome>>

\* ... then a new generation begins and the version allocator is reset.
BeginAttempt ==
    /\ pc = "ended"
    /\ pc' = "retry"
    /\ trx' = [trx EXCEPT !.generation = @ + 1, !.versions = 0]
    /\ open' = Opened(trx.generation + 1)
    /\ closure' = [closure EXCEPT !.issued = [v \in Version |-> 0]]
    /\ UNCHANGED <<attempt, maybe, cause, kept, pending, usage, report, outcome>>

\* on_error_duration lands on the last reported attempt; then on_retry.
NextAttempt ==
    /\ pc = "retry"
    /\ pc' = "call"
    /\ attempt' = attempt + 1
    /\ cause' = None
    /\ report' = IF report = <<>> THEN report
                 ELSE [report EXCEPT ![Len(report)].onError = TRUE]
    /\ UNCHANGED <<maybe, trx, kept, pending, usage, open, closure, outcome>>

\* on_complete, on every exit path: an attempt still open is the one that failed.
Complete ==
    /\ pc = "return"
    /\ pc' = "done"
    /\ FinishAttempt("Failed")
    /\ outcome' = [outcome EXCEPT !.completed = @ + 1]
    /\ UNCHANGED <<attempt, maybe, cause, trx, kept, pending, usage, closure>>

\* The caller drops the run's future where it awaits; a commit may land.
DropRun ==
    /\ pc \in {"body", "before_commit", "commit", "commit_error", "on_error"}
    /\ pc' = "dropped"
    /\ \E applied \in {0, 1} :
        /\ applied = 1 => pc = "commit"
        /\ outcome' = [outcome EXCEPT !.effects = @ + applied * Effect]
    /\ UNCHANGED <<attempt, maybe, cause, trx, kept, pending, usage, open, report, closure>>

-----------------------------------------------------------------------------
Init ==
    /\ pc = "create" /\ attempt = 0 /\ maybe = FALSE
    /\ cause = None
    /\ trx = [generation |-> 0, versions |-> 0, retries |-> 0, collector |-> FALSE,
              expired |-> FALSE]
    /\ kept = FALSE /\ pending = {}
    /\ usage = [g \in Generation |-> {}]
    /\ open = NotRecording /\ report = <<>>
    /\ closure = [told |-> FALSE, issued |-> [v \in Version |-> 0]]
    /\ outcome = [result |-> None, completed |-> 0, effects |-> 0]

\* What the loop does next, once what it waits for has answered.
Loop ==
    \/ CreateTransaction
    \/ CreateFails
    \/ CallClosure
    \/ AttemptStart
    \/ ClosureSucceeds
    \/ \E err \in Error : ClosureFails(err)
    \/ CommitStarts
    \/ CommitSucceeds
    \/ \E err \in FdbError, applied \in BOOLEAN : CommitFails(err, applied)
    \/ CommitErrorHook
    \/ \E decision \in Decisions : Decide(decision)
    \/ OnErrorRefuses
    \/ OnErrorSucceeds
    \/ BeginAttempt
    \/ NextAttempt
    \/ Complete

Next ==
    \/ Loop
    \/ \E kind \in Kinds : IssueOperation(kind)
    \/ \E op \in pending : CompleteOperation(op)
    \/ AllocateUserVersion
    \/ SetClientBudget
    \/ LeakClone
    \/ DropClone
    \/ DropRun

Spec == Init /\ [][Next]_vars

-----------------------------------------------------------------------------
(* Properties.                                                             *)

\* MaybeCommitted: a closure that checks for its own effect when it is told to
\* never applies it twice, through uncertain commits, failures that follow
\* them and any policy; and a run that returns Ok has applied it.
AtMostOneEffect ==
    /\ outcome.effects <= 1
    /\ outcome.result = "ok" => outcome.effects = 1

\* The report of metrics.rs.  At the end of a run it has one entry per attempt,
\* in order: all but the last were retried, and the last one says how the run
\* ended (AttemptOutcome, RunnerHooks::on_complete).  And at any time what an
\* operation did is reported with the attempt that issued it or not at all,
\* however late its future completes (UsageSlot, record_grv).
ReportTellsTheRun ==
    /\ pc = "done" /\ trx.collector =>
        /\ Len(report) = attempt + 1
        /\ \A i \in 1 .. Len(report) :
            /\ report[i].outcome =
                IF i <= attempt THEN "Retried"
                ELSE IF outcome.result = "ok" THEN "Committed" ELSE "Failed"
            /\ report[i].onError = (i <= attempt)
    /\ \A i \in 1 .. Len(report) :
        /\ report[i].usage \subseteq {i - 1}
        /\ {report[i].readVersion, report[i].keys} \subseteq {i - 1, None}

\* An attempt has nothing of another.  From the commit, or from on_error, to the
\* next attempt nobody else holds the transaction, so no leaked clone can write
\* to one being committed or carried over (RetryableTransaction::take).  And each
\* attempt is issued the user versions 0, 1, 2, ... once, even at the limit and
\* after a retry (allocate_user_version).
AttemptsApart ==
    /\ pc \in {"commit", "commit_error", "on_error", "ended", "retry", "call"} => ~kept
    /\ \A v \in Version : closure.issued[v] = IF v < trx.versions THEN 1 ELSE 0
=============================================================================
