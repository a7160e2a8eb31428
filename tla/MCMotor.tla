------------------------------ MODULE MCMotor ------------------------------
(* Motor with small constants: see the cfg files. *)
EXTENDS Motor

OneFreq == {1}
TwoFreqs == {1, 2}
=============================================================================
