------------------------------ MODULE Transact ------------------------------
(***************************************************************************)
(* One call of Database::transact (database.rs): the older retry loop, with *)
(* its own limits and without MaybeCommitted.  A commit whose outcome is    *)
(* unknown is retried only if the caller declared the closure idempotent.   *)
(* transact_boxed and transact_boxed_local run the same loop.               *)
(***************************************************************************)
EXTENDS Naturals

CONSTANTS
    MaxLimit,           \* bound: retry_limit values tried
    None                \* Option::None

ASSUME LimitAssumption == MaxLimit \in Nat /\ None \notin Nat

VARIABLES
    options,    \* the TransactOption of the call
    pc,         \* where the loop is
    error,      \* the error being handled, and where it came from
    tries,      \* can_retry's count, saturating once no limit can tell
    starts,     \* history: closures started, saturating beyond every limit
    late,       \* time_out has passed
    effects,    \* commits of this call that took effect, saturating at 2
    result      \* what the call returns

transactvars == <<options, pc, error, tries, starts, late, effects, result>>

-----------------------------------------------------------------------------
TransactOption == [retryLimit : 0 .. MaxLimit \cup {None}, timeOut : BOOLEAN,
                   idempotent : BOOLEAN]

\* FdbError by what the loop and the native client tell apart, and a closure's
\* error that is no FdbError.
FdbError == {"not_committed", "unknown_result", "timed_out", "fatal"}
IsMaybeCommitted(err) == err = "unknown_result"
Uncertain == {"unknown_result", "timed_out"}
Retryable == {"not_committed", "unknown_result"}

AtMost(n, max) == IF n > max THEN max ELSE n

Returns(r) == pc' = "done" /\ result' = r

-----------------------------------------------------------------------------
\* create_trx.
CreateTransaction ==
    /\ pc = "create"
    /\ \/ pc' = "closure" /\ starts' = 1 /\ UNCHANGED result
       \/ Returns("fatal") /\ UNCHANGED starts
    /\ UNCHANGED <<options, error, tries, late, effects>>

ClosureSucceeds ==
    /\ pc = "closure"
    /\ pc' = "commit"
    /\ UNCHANGED <<options, error, tries, starts, late, effects, result>>

\* An error that is no FdbError ends the call; one that is, be it of another
\* transaction, is handled like a failed commit.
ClosureFails ==
    /\ pc = "closure"
    /\ \/ Returns("custom") /\ UNCHANGED error
       \/ \E err \in FdbError :
            pc' = "failed" /\ error' = err /\ UNCHANGED result
    /\ UNCHANGED <<options, tries, starts, late, effects>>

CommitSucceeds ==
    /\ pc = "commit"
    /\ effects' = AtMost(effects + 1, 2)
    /\ Returns("ok")
    /\ UNCHANGED <<options, error, tries, starts, late>>

CommitFails ==
    /\ pc = "commit"
    /\ \E err \in FdbError, applied \in {0, 1} :
        /\ applied = 1 => err \in Uncertain
        /\ error' = err
        /\ effects' = AtMost(effects + applied, 2)
    /\ pc' = "failed"
    /\ UNCHANGED <<options, tries, starts, late, result>>

CanRetry_CountsRetries ==
    /\ options.retryLimit # None => tries < options.retryLimit
    /\ options.timeOut => ~late

CanRetry_NoTimeOut == options.retryLimit # None => tries + 1 < options.retryLimit

\* can_retry, after it counted this attempt.
CanRetry ==
    /\ options.retryLimit # None => tries + 1 < options.retryLimit
    /\ options.timeOut => ~late

MayRetry_Always == TRUE

\* is_idempotent || !e.is_maybe_committed(): an attempt that may have
\* committed is not even counted when the closure is not idempotent.
MayRetry == options.idempotent \/ ~IsMaybeCommitted(error)

DecideRetry ==
    /\ pc = "failed"
    /\ tries' = IF MayRetry THEN AtMost(tries + 1, MaxLimit) ELSE tries
    /\ IF MayRetry /\ CanRetry
       THEN pc' = "on_error" /\ UNCHANGED result
       ELSE Returns(error)
    /\ UNCHANGED <<options, error, starts, late, effects>>

\* on_error waits for its backoff, then resets the transaction, or refuses.
OnErrorSucceeds ==
    /\ pc = "on_error" /\ error \in Retryable
    /\ pc' = "closure" /\ error' = None
    /\ starts' = AtMost(starts + 1, MaxLimit + 2)
    /\ UNCHANGED <<options, tries, late, effects, result>>
OnErrorRefuses ==
    /\ pc = "on_error"
    /\ Returns(error)
    /\ UNCHANGED <<options, error, tries, starts, late, effects>>

\* The deadline passes, wherever the loop is.
DeadlinePasses ==
    /\ options.timeOut /\ ~late /\ pc # "done"
    /\ late' = TRUE
    /\ UNCHANGED <<options, pc, error, tries, starts, effects, result>>

-----------------------------------------------------------------------------
TransactInit ==
    /\ options \in TransactOption
    /\ pc = "create" /\ error = None /\ tries = 0 /\ starts = 0 /\ late = FALSE
    /\ effects = 0 /\ result = None

Loop ==
    \/ CreateTransaction
    \/ ClosureSucceeds
    \/ ClosureFails
    \/ CommitSucceeds
    \/ CommitFails
    \/ DecideRetry
    \/ OnErrorSucceeds
    \/ OnErrorRefuses

TransactNext == Loop \/ DeadlinePasses

TransactSpec == TransactInit /\ [][TransactNext]_transactvars

\* The closure returns, native futures resolve and time passes.
FairSpec == TransactSpec /\ WF_transactvars(Loop) /\ WF_transactvars(DeadlinePasses)

-----------------------------------------------------------------------------
TypeOK ==
    /\ options \in TransactOption
    /\ pc \in {"create", "closure", "commit", "failed", "on_error", "done"}
    /\ error \in FdbError \cup {None}
    /\ tries \in 0 .. MaxLimit
    /\ starts \in 0 .. MaxLimit + 2
    /\ late \in BOOLEAN
    /\ effects \in 0 .. 2
    /\ result \in FdbError \cup {"custom", "ok", None}

\* TransactOption::is_idempotent: a closure not declared idempotent takes effect
\* at most once, exactly once if the call returns Ok, and not at all if it
\* returns an error that does not leave the outcome open.
AtMostOnce ==
    ~options.idempotent =>
        /\ effects <= 1
        /\ pc = "done" /\ result = "ok" => effects = 1
        /\ pc = "done" /\ result \notin Uncertain \cup {"ok"} => effects = 0

\* TransactOption::retry_limit: the closure is started at most retry_limit times,
\* whichever of its attempts and commits fail and however, and once if that is 0.
LimitsHold ==
    options.retryLimit # None => starts <= 1 \/ starts <= options.retryLimit

\* TransactOption: with either limit the call returns, although every attempt may
\* fail with an error that can be retried.
CallEnds == options.retryLimit # None \/ options.timeOut ~> pc = "done"
=============================================================================
