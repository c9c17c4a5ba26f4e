-------------------------- MODULE MCProfileReader --------------------------
EXTENDS ProfileReader
MCTotal == [id \in Ids |-> id + 1]
=============================================================================
