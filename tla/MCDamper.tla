------------------------------ MODULE MCDamper ------------------------------
(* Damper with small constants: see Damper.cfg. *)
EXTENDS Damper

OneOpening == {1}
FanRunsOrMayStop == {{FALSE}, {TRUE, FALSE}}
=============================================================================
