------------------------------ MODULE MCSchedule ------------------------------
(* Schedule with small constants: see the cfg file. *)
EXTENDS Schedule

Early == [i \in Index |-> i]
Late == [i \in Index |-> 3 * i]
EarlyAndLate == {Early, Late}
Rising == {[i \in Index |-> i + 1]}
OnePreset == {7}
=============================================================================
