-------------------------------- MODULE MCHca --------------------------------
(* Hca for TLC: transactions are alike, and so are the calls on one.        *)
EXTENDS Hca, TLC

Symmetric == Permutations(Solo) \cup Permutations(Client \ Solo) \cup Permutations(Call)
=============================================================================
