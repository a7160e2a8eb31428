------------------------------ MODULE MCReflux ------------------------------
(* Reflux with small constants: see the cfg file. *)
EXTENDS Reflux

FirstAndLast == {1, 4}
OneOrTwoCycles == {1, 2}
OnePeriod == {2}
ShortAndLong == {1, 3}
Usual == [cycles |-> 2, period |-> 2, work |-> 1]
=============================================================================
