---------------------------- MODULE RegisterOps ----------------------------
(***************************************************************************)
(* The ranked register as a value: the metadata record the register keeps  *)
(* under its "state" key, the value stored beside it, and what read(rank)  *)
(* and write(rank, value) make of them inside one transaction.             *)
(* Source: foundationdb/src/recipes/ranked_register/algorithm.rs.          *)
(***************************************************************************)
EXTENDS Naturals

\* The bottom register: an absent metadata key reads as two zero ranks.
EmptyRegister(NoValue) == [maxRead |-> 0, maxWrite |-> 0, value |-> NoValue]

\* read(rank) raises max_read_rank, and only raises it: the fence.
RankedRead(reg, rank) ==
    [reg EXCEPT !.maxRead = IF rank > @ THEN rank ELSE @]

WriteAccepted_IgnoresFence(reg, rank) == rank > reg.maxWrite

\* write(rank, _) commits unless a higher read or an equal-or-higher write
\* came first.
WriteAccepted(reg, rank) == rank >= reg.maxRead /\ rank > reg.maxWrite

RankedWrite(reg, rank, value) ==
    IF WriteAccepted(reg, rank)
    THEN [reg EXCEPT !.maxWrite = rank, !.value = value]
    ELSE reg
=============================================================================
