------------------------------ MODULE MCTestMode ------------------------------
(* TestMode with small constants: see the cfg file. *)
EXTENDS TestMode

HeatBlowerValves == {"main_heat", "blower", "valve3", "valve4"}
ShortAndLong == {0, 1}
=============================================================================
