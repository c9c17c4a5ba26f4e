-------------------------- MODULE MCLeaderElection --------------------------
(* Small instances of LeaderElection for TLC.                              *)
EXTENDS LeaderElection, TLC

CONSTANT Slow       \* the participants configured with the longer lease

\* The longest lease for the slow participants, one tick for the others.
MCLeases == [p \in Participant |-> IF p \in Slow THEN {Horizon} ELSE {1}]
\* Handles rebuilt with either duration from one poll to the next.
MCBothLeases == [p \in Participant |-> IF p \in Slow THEN {1, Horizon} ELSE {1}]
=============================================================================
