------------------------- MODULE MCJournaledCommand -------------------------
(* Two operations, one of them possibly from before the index; one command each. *)
EXTENDS JournaledCommand

EveryFault == AllFaults
KillFault  == {"kill"}
=============================================================================
