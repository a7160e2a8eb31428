------------------------------ MODULE MCEggTurn ------------------------------
(* EggTurn with small constants: see the cfg file. *)
EXTENDS EggTurn

ShortAndLong == {1, 3}
=============================================================================
