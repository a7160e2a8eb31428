------------------------------ MODULE MCRunMode ------------------------------
(* RunMode with small constants: see the cfg files. *)
EXTENDS RunMode

StartTimes == {2}
StopTimes == {1, 2, 3}
Never == {}
SoonOrNot == {2, 9}
EndsNot == {9}
Pauses == {"calset", "idle"}

(* Which display writes come together, and with how many restarts. *)
Budget(n, k, r) == [writes |-> n, kinds |-> k, restarts |-> r]
Every == Kinds \ {"PRE_SEND"}
WordsOrRestart ==
    {Budget(3, Every, 0), Budget(2, {"START_SEND", "STOP_SEND"}, 1),
     Budget(2, {"START_SEND", "CHECK_SEND"}, 1), Budget(2, {"window"}, 1),
     Budget(1, {"settings"}, 1)}
OneCheck == {Budget(1, {"CHECK_SEND"}, 0)}
=============================================================================
