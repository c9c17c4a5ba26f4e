----------------------------- MODULE ElectionOps -----------------------------
(***************************************************************************)
(* The pure protocol step of the leader election: what a poll makes of the *)
(* durable record [revision, owner, lease] it reads.                       *)
(* Source: foundationdb/src/recipes/leader_election/algorithm.rs.          *)
(***************************************************************************)
EXTENDS Naturals

CONSTANT Nobody     \* a released or never-created record has this owner

LeaderDecision == {"Acquired", "Renewed", "TookOver", "Reacquired"}
FollowDecision == {"Reset", "Preserve"}

SameRecord(state, owner, rank, lease) ==
    state.owner = owner /\ state.revision = rank /\ state.lease = lease

\* decide: what a poll claiming `claim`, `elapsed` after its anchor, makes of
\* the durable record `state`.
Decide(state, p, claim, elapsed) ==
    LET holder  == IF claim.kind = "leadership" THEN p ELSE claim.owner
        matches == SameRecord(state, holder, claim.rank, claim.lease)
    IN  IF state.owner = Nobody THEN "Acquired"
        ELSE CASE claim.kind = "leadership" /\ matches /\ elapsed < claim.lease
                    -> "Renewed"
               [] claim.kind = "observation" /\ matches /\ elapsed >= claim.lease
                    -> IF claim.owner = p THEN "Reacquired" ELSE "TookOver"
               [] claim.kind = "observation" /\ matches /\ elapsed < claim.lease
                    -> "Preserve"
               [] OTHER -> "Reset"

LeaderRecord_RestartsAfterRelease(state, p, lease) ==
    [revision |-> IF state.owner = Nobody THEN 1 ELSE state.revision + 1,
     owner |-> p, lease |-> lease]

\* leader_result: every leader outcome, renewals included, is a new revision.
LeaderRecord(state, p, lease) ==
    [revision |-> state.revision + 1, owner |-> p, lease |-> lease]
=============================================================================
