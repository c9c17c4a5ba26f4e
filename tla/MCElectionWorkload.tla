------------------------ MODULE MCElectionWorkload ------------------------
(* Small instances of ElectionWorkload for TLC.                            *)
EXTENDS ElectionWorkload, TLC

CONSTANT MCLease

MCLeaseOf == [c \in Client |-> MCLease]
Script(clients, rounds, kinds, last, runs, fails) ==
    [clients |-> clients, rounds |-> rounds, kinds |-> kinds, delays |-> {"none", "longer"},
     pauses |-> {"half", "after"}, last |-> last, runs |-> runs, failures |-> fails]
\* Every kind of round; rounds with a failure; the race and the completion of
\* three clients, of two after a round, and with runs as long as the lease.
MCScripts ==
    {Script({0, 1}, 2, Kinds, "rounds", 1, 0), Script({0, 1}, 2, {"resign"}, "rounds", 1, 1),
     Script({0, 1, 2}, 0, {}, "completion", 1, 1), Script({0, 1}, 1, {"poll"}, "completion", 1, 1),
     Script({0, 1}, 1, {"poll"}, "completion", 2, 0)}
=============================================================================
