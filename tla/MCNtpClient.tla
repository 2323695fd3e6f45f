---------------------------- MODULE MCNtpClient ----------------------------
(***************************************************************************)
(* Instances of NtpClient for TLC.                                         *)
(***************************************************************************)
EXTENDS NtpClient

Slightly == {-1, 0, 1}

Zeros == {0}

=============================================================================
