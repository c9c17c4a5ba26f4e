---------------------------- MODULE FencedEpochs ----------------------------
(***************************************************************************)
(* What the election and its ranked register promise together, with no     *)
(* time, no transactions and no failures: one sequence of epochs, each     *)
(* granted to one participant, each ended by the next or by a release, and *)
(* at most one protected write per epoch, made while it is the current     *)
(* one.  LeaderElection implements it.                                     *)
(***************************************************************************)
EXTENDS Naturals

CONSTANTS Participant, Nobody

VARIABLES
    epoch,      \* the newest epoch granted
    holder,     \* who holds it, Nobody after a release
    written,    \* the epoch of the newest protected write
    author      \* who made that write

Grant(p) ==
    /\ epoch' = epoch + 1
    /\ holder' = p
    /\ \/ written' = epoch' /\ author' = p
       \/ UNCHANGED <<written, author>>

Release ==
    /\ holder \in Participant
    /\ holder' = Nobody
    /\ UNCHANGED <<epoch, written, author>>

\* A holder that released may still be completing work of its epoch.
Write(p) ==
    /\ written < epoch
    /\ holder \in {p, Nobody}
    /\ written' = epoch /\ author' = p
    /\ UNCHANGED <<epoch, holder>>

Init == epoch = 0 /\ holder = Nobody /\ written = 0 /\ author = Nobody

Next == Release \/ \E p \in Participant : Grant(p) \/ Write(p)

Spec == Init /\ [][Next]_<<epoch, holder, written, author>>
=============================================================================
