------------------------------ MODULE MCBackup ------------------------------
(* BackupFiles with small constants: see the cfg files. *)
EXTENDS BackupFiles

TwoValues == {0, 1}
OneWrite == {[updates |-> 1, stops |-> 0, cuts |-> 0]}
StopsOrCut ==
    {[updates |-> 2, stops |-> 3, cuts |-> 0], [updates |-> 1, stops |-> 0, cuts |-> 1]}
=============================================================================
