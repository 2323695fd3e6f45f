---------------------------- MODULE MCSettings ----------------------------
(***************************************************************************)
(* Instances of Settings for TLC: a file of an older and one of a newer    *)
(* version, and one of this version with a few settings only.              *)
(***************************************************************************)
EXTENDS Settings

CONSTANTS OtherText, OtherKey, Red

Texts == {NoText, OtherText}

Keys == {NoKey, OtherKey}

Colors == {Grey, Red}

BossIds == {17154}

Thresholds == {10, 20}

OldFile ==
  [version |-> 10, stored |-> [s \in {"show_history", "save_logs"} |-> s = "show_history"]]

PartialFile == [OldFile EXCEPT !.version = 11]

NewerFile == [version |-> 12, stored |-> Default]

Files == {OldFile, PartialFile, NewerFile}

Maps == {872, 1177, 1062, 36, 1450, 15}

=============================================================================
