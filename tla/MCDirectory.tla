----------------------------- MODULE MCDirectory -----------------------------
(* Directory for TLC: clients are alike, and so are names.                  *)
EXTENDS DirectoryView, TLC

Symmetric == Permutations(Client) \cup Permutations(Name)

\* Prefixes asked for by hand, nested and disjoint from the allocated ones.
MCManual == {<<7>>, <<7, 1>>}
MCNoManual == {}
\* One that the allocator can hand out too.
MCAllocatable == {<<1>>}
=============================================================================
