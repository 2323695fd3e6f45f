--------------------------- MODULE MCGroupServer ---------------------------
(***************************************************************************)
(* Instances of GroupServer for TLC.                                       *)
(***************************************************************************)
EXTENDS GroupServer

CONSTANTS Party   \* a group besides the default one

Names == {Default, Party}

=============================================================================
