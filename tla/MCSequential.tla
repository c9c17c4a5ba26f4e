---------------------------- MODULE MCSequential ----------------------------
(***************************************************************************)
(* The parts that run on one thread of one client, for model checking: the *)
(* codecs and readers of MCCodecs, and the programs of the binding tester  *)
(* that drive them.  The directory instructions meet the others only in    *)
(* their arguments and in an active transaction, so a program is taken     *)
(* from one half of the instruction set or from the other.  A behaviour is *)
(* one of any part, chosen initially.                                      *)
(***************************************************************************)
EXTENDS MCCodecs, StackMachine, DirectoryInstructions

programvars == <<machinevars, directoryvars>>
seqvars == <<mcvars, programvars>>

SeqInit ==
    /\ MachineInit /\ DirectoryInit
    /\ \/ MCInit
       \/ part \in {"machine", "directories"} /\ Init /\ NoProfile /\ NoRange

SeqNext ==
    \/ MCNext /\ UNCHANGED programvars
    \/ part = "machine" /\ MachineNext /\ UNCHANGED <<mcvars, directoryvars>>
    \/ part = "directories" /\ DirectoryNext /\ UNCHANGED <<mcvars, machinevars>>

SeqSpec == SeqInit /\ [][SeqNext]_seqvars
=============================================================================
