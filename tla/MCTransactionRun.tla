-------------------------- MODULE MCTransactionRun --------------------------
(***************************************************************************)
(* TransactionRun for TLC, in two kinds of behaviours: with many attempts, *)
(* user versions and uncertain commits; and with fewer attempts, whose     *)
(* reads complete late, budgets and the report.                            *)
(***************************************************************************)
EXTENDS TransactionRun

CONSTANT LateRetries    \* bound: retries when reads complete late

VARIABLE late           \* which of the two

mcvars == <<late, vars>>

Bounded ==
    IF late THEN trx'.retries <= LateRetries /\ trx'.versions = 0
    ELSE pending' = {} /\ trx'.generation <= trx'.retries

MCInit == Init /\ late \in BOOLEAN
MCNext == Next /\ Bounded /\ UNCHANGED late

\* What the loop waits for resolves: the closure's future, the hooks and the native
\* futures (with the Timeout option set, none waits forever).  Nobody is obliged to
\* drop a clone it leaked, or the run.
MCSpec == MCInit /\ [][MCNext]_mcvars /\ WF_mcvars(~late /\ Loop /\ UNCHANGED late)

\* Database::run ends although the policy may answer Retry to every failure and a
\* clone may be leaked for good: every retry passes through on_error, and commit
\* does not wait for the clone.
RunEnds == ~late ~> pc \in {"done", "dropped"}
=============================================================================
