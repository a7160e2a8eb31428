------------------------------ MODULE MCAlarm ------------------------------
(* Alarm with small constants: see the cfg files. *)
EXTENDS Alarm

TwoChannels == {"r1", "r3"}

(* Delays that are tested against a start at every pass last two seconds.   *)
Delays == [t \in Timers |-> IF t \in {"fan", "egg", "noEgg"} THEN 2 ELSE 1]

Quiet == {"power", "running", "door", "egg"}
Normal == [on |-> Quiet, varying |-> {}, sync |-> FALSE, races |-> TRUE,
           changes |-> 3, presses |-> 0, restarts |-> 0]

Heat == [Normal EXCEPT !.varying = {"temp", "aux"}, !.changes = 2, !.presses = 2,
                       !.restarts = 1]
Humidity == [Heat EXCEPT !.varying = {"humid"}, !.races = FALSE]
FanSwitches == {"power", "stopped", "fault", "running", "door", "stopMode"}
Fan == [Normal EXCEPT !.varying = FanSwitches]
SyncFan == [Fan EXCEPT !.sync = TRUE]
Reflux == [Normal EXCEPT !.varying = {"r1", "r3", "channels", "sensors"}]
Egg == [Normal EXCEPT !.varying = {"egg", "eggBell", "co2"}, !.changes = 2,
                      !.presses = 1, !.restarts = 1, !.on = Quiet \cup {"eggBell", "carbon"}]

Heard == {Heat, Humidity, Fan, SyncFan, Reflux, Egg}
StoppingFan == {[Normal EXCEPT !.varying = {"stopped", "stopMode"}]}
=============================================================================
