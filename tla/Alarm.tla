------------------------------- MODULE Alarm -------------------------------
(***************************************************************************)
(* The alarm thread: once a second it compares the measured values with     *)
(* their alarm points, times the alarms that may ring only after a delay,   *)
(* and sets the alarm lamp and the bell.  The main loop runs the silence    *)
(* command, the timer counts the delays down, and the collectors, the motor *)
(* drive and the display change the words the thread reads at any time,     *)
(* also between the two halves of a pass: finding the alarms and ringing.   *)
(***************************************************************************)
EXTENDS Integers, FiniteSets

CONSTANTS
    Channels,   \* reflux channels in use, of {"r1", "r2", "r3", "r4"}
    Delay,      \* seconds: [humid: P_HH11, refHigh: P_HH5, refLow: P_HH0,
                \* egg: P_HH1, noEgg: P_HH8, fan: P_HH7, quiet: R_CLOSE_ALA_TIME]
    Scenarios   \* bound: the surroundings, [on: switches that are ON at first, varying:
                \* what changes, sync: the fan has a synchronous motor,
                \* races: other threads run while the timer counts down,
                \* changes, presses, restarts: how often]

Timers == {"humid", "refHigh", "refLow", "egg", "noEgg", "fan", "quiet"}
Gauges == {"temp", "humid", "co2"} \cup Channels
Switches == {"aux", "egg", "power", "stopped", "fault", "running", "door", "stopMode",
             "eggBell", "carbon"} \* P_FAN_TIME, P_CO2_STATUS
Sensors == {"sensor"} \cup Channels

(* A measured value is under or over an alarm point by the hysteresis,      *)
(* inside the band next to it, or normal.                                   *)
Levels == {"under", "underBand", "normal", "overBand", "over"}

ASSUME AlarmAssumption ==
    /\ Channels \subseteq {"r1", "r2", "r3", "r4"}
    /\ Delay \in [Timers -> Nat]
    /\ \A s \in Scenarios :
         /\ s.on \subseteq Switches /\ s.sync \in BOOLEAN /\ s.races \in BOOLEAN
         /\ s.changes \in Nat /\ s.presses \in Nat /\ s.restarts \in Nat

VARIABLES
    level,    \* the measured values
    on,       \* the switches that are ON, see Switches
    scenario, \* what the surroundings do, .sync is g_fan_status
    enabled,  \* REFLUX_TEMPERATURE
    abnormal, \* the sensors with an ABNORMAL word ON
    lit,      \* alarms <<gauge, side>> that are ON
    humidDelay, \* HIGH_HUMIDITY_ALARM_DELAY_STATUS
    timed,    \* ref_temp_mode_high_old and _low_old
    eggFresh, noEggFresh, eggLamp, \* the RINGING_STATUS words, OUT_ST_EGG_ALARM
    fanFresh, fanFault, fanLamp, doorAlarm, \* status_fan_mode, di_fan_mode, ...
    sensorLamp, \* OUT_ST_SENSOR_ABNORMAL_ALARM
    time,     \* the countdowns
    counting, \* ALARM_SUPPRESSION_TIME as the timer has read it, or 0
    signal,   \* lamp and bell: "off", "steady", "ring", "reset" (no pass yet)
    pass,     \* the half of the pass that comes next: "find", "ring"
    send, recv, \* R_CLOSE_ALA_SEND, R_CLOSE_ALA_RECV
    block,    \* the silence block of the main loop that comes next
    changes, presses, restarts \* what the surroundings may still do

inputs == <<level, on, scenario, abnormal>>
eggs == <<eggFresh, noEggFresh, eggLamp>>
fan == <<fanFresh, fanFault, fanLamp, doorAlarm>>
found == <<enabled, lit, humidDelay, timed, eggs, fan, sensorLamp>>
silence == <<send, recv, block>>
budget == <<changes, presses, restarts>>
vars == <<inputs, found, time, counting, signal, pass, silence, budget>>

Init ==
    /\ level = [g \in Gauges |-> "normal"]
    /\ scenario \in Scenarios /\ on = scenario.on
    /\ enabled = Channels /\ abnormal = {}
    /\ send = FALSE /\ recv = FALSE
    /\ changes = scenario.changes /\ presses = scenario.presses
    /\ restarts = scenario.restarts
    /\ lit = {} /\ humidDelay = FALSE /\ timed = {}
    /\ eggFresh = TRUE /\ noEggFresh = TRUE /\ eggLamp = FALSE
    /\ fanFresh = TRUE /\ fanFault = TRUE /\ fanLamp = FALSE /\ doorAlarm = FALSE
    /\ sensorLamp = FALSE /\ time = [t \in Timers |-> 0] /\ counting = 0
    /\ signal = "reset" /\ pass = "find" /\ block = "start"

-----------------------------------------------------------------------------
(* Finding the alarms. *)

Beyond(a) == level[a[1]] = IF a[2] = "high" THEN "over" ELSE "under"
Within(a) == level[a[1]] \notin IF a[2] = "high" THEN {"overBand", "over"}
                                                 ELSE {"underBand", "under"}

(* ON beyond the alarm point, OFF within it, kept in the band between.      *)
Latched(a) == Beyond(a) \/ (a \in lit /\ ~Within(a))

(* The auxiliary detector raises the high alarm and freezes the low one.    *)
TempAlarm(a) ==
    IF "aux" \in on THEN a[2] = "high" \/ a \in lit ELSE Latched(a)

HumidHigh == <<"humid", "high">>

(* Faulty variant: a high humidity alarm does not wait. *)
HumidAtOnce(a) == Latched(a)

HumidAlarm(a) ==
    IF a = HumidHigh /\ Beyond(a)
    THEN IF humidDelay THEN time["humid"] = 0 ELSE a \in lit
    ELSE Latched(a)

Sides == {"high", "low"}
Refluxes == Channels \X Sides

(* Faulty variant: a channel that is switched off keeps its alarms. *)
RefluxKept(a) == Latched(a) /\ (a[1] \in enabled \/ a \in lit)

RefluxAlarm(a) == a[1] \in enabled /\ Latched(a)

Alarms == {a \in {"temp"} \X Sides : TempAlarm(a)}
    \cup {a \in {"humid"} \X Sides : HumidAlarm(a)}
    \cup {a \in Refluxes : RefluxAlarm(a)}
    \cup {a \in {<<"co2", "high">>} : "carbon" \in on /\ Latched(a)}

RefluxIn(alarms, side) == {a \in alarms \cap Refluxes : a[2] = side}

(* Faulty variant: the delay starts at each pass. *)
RefluxTimeAnew(t, side) == IF Alarms \cap Refluxes = {} THEN 0 ELSE Delay[t]

(* A delay starts when the set of channels in alarm changes and all delays  *)
(* are dropped when it is empty.                                            *)
RefluxTime(t, side) ==
    IF Alarms \cap Refluxes = {} THEN 0
    ELSE IF RefluxIn(Alarms, side) # RefluxIn(timed, side) THEN Delay[t] ELSE time[t]

Timed == Alarms \cap Refluxes

(* With a synchronous motor there is no reflux water. *)
Enabled == IF scenario.sync THEN {} ELSE enabled

(* A sensor that is not in use reports nothing.  The third channel is       *)
(* masked with 0x03, which is channels 1 and 2.                             *)
Masked(c) == IF c = "r3" THEN Enabled \cap {"r1", "r2"} # {} ELSE c \in Enabled
Abnormal == abnormal \ (Channels \ enabled)
SensorShown == "sensor" \in abnormal \/ (\E c \in Abnormal \cap Channels : Masked(c))
    \/ <<"co2", "high">> \in Alarms

(* The egg signal: a lamp while it is missing, a bell when it does not      *)
(* change for too long.                                                     *)
EggSignal ==
    /\ eggFresh' = ("egg" \notin on) /\ noEggFresh' = ("egg" \in on)
    /\ eggLamp' = IF "egg" \notin on THEN TRUE
                  ELSE IF eggFresh THEN eggLamp ELSE time["egg"] = 0

EggTime == IF "egg" \in on /\ eggFresh THEN Delay["egg"] ELSE time["egg"]
NoEggTime == IF "egg" \notin on /\ noEggFresh THEN Delay["noEgg"] ELSE time["noEgg"]

-----------------------------------------------------------------------------
(* The fan. *)

Turning == ~scenario.sync \/ "running" \in on
StopSignal == "stopped" \in on \/ (scenario.sync /\ "fault" \in on)

(* Powered, and the drive says it turns (or it has no drive to ask).        *)
FanTurns ==
    /\ "power" \in on /\ ~StopSignal
    /\ fanFresh' = TRUE /\ fanFault' = ~Turning /\ fanLamp' = ~Turning
    /\ doorAlarm' = (scenario.sync /\ Turning /\ "door" \notin on)

FanStops ==
    /\ "power" \in on /\ StopSignal
    /\ fanFault' = TRUE /\ fanFresh' = ("stopMode" \notin on)
    /\ fanLamp' = ("stopMode" \notin on \/ ~Turning)
    /\ doorAlarm' = (scenario.sync /\ Turning /\ "door" \notin on)

FanUnpowered ==
    /\ "power" \notin on
    /\ fanLamp' = TRUE /\ doorAlarm' = FALSE
    /\ fanFresh' = ("stopMode" \notin on)
    /\ fanFault' = (fanFault \/ fanFresh \/ "stopMode" \notin on)

FanTime ==
    IF "power" \in on
    THEN IF StopSignal THEN IF "stopMode" \in on THEN Delay["fan"] ELSE 0
         ELSE IF Turning THEN 0 ELSE time["fan"]
    ELSE IF "stopMode" \notin on THEN 0
         ELSE IF fanFresh THEN Delay["fan"] ELSE time["fan"]

Find ==
    /\ pass = "find" /\ pass' = "ring"
    /\ lit' = Alarms /\ timed' = Timed /\ enabled' = Enabled
    /\ humidDelay' = (Beyond(HumidHigh) \/ (humidDelay /\ ~Within(HumidHigh)))
    /\ abnormal' = Abnormal /\ sensorLamp' = SensorShown
    /\ EggSignal
    /\ FanTurns \/ FanStops \/ FanUnpowered
    /\ time' = [time EXCEPT
         !["humid"] = IF Beyond(HumidHigh) /\ ~humidDelay THEN Delay["humid"] ELSE @,
         !["refHigh"] = RefluxTime("refHigh", "high"),
         !["refLow"] = RefluxTime("refLow", "low"),
         !["egg"] = EggTime, !["noEgg"] = NoEggTime, !["fan"] = FanTime]
    /\ UNCHANGED <<level, on, scenario, counting, signal, silence, budget>>

-----------------------------------------------------------------------------
(* Ringing. *)

RefluxRings(side, t) == RefluxIn(lit, side) # {} /\ time[t] = 0

Rings ==
    \/ <<"temp", "high">> \in lit
    \/ time["fan"] = 0 /\ fanFault
    \/ sensorLamp \/ doorAlarm
    \/ RefluxRings("high", "refHigh") \/ RefluxRings("low", "refLow")
    \/ "eggBell" \in on /\ ~eggFresh /\ time["egg"] = 0
    \/ "eggBell" \in on /\ ~noEggFresh /\ time["noEgg"] = 0

Lamps == lit # {} \/ eggLamp \/ fanLamp \/ sensorLamp \/ doorAlarm

Steady ==
    \/ lit \cap ({<<"temp", "low">>, HumidHigh, <<"humid", "low">>} \cup Refluxes) # {}
    \/ eggLamp \/ fanLamp

(* Faulty variant: the steady light comes before the bell. *)
SteadyFirst ==
    IF Steady THEN "steady"
    ELSE IF Lamps /\ Rings /\ time["quiet"] = 0 THEN "ring" ELSE "off"

Signal ==
    IF Lamps /\ Rings THEN IF time["quiet"] = 0 THEN "ring" ELSE "steady"
    ELSE IF Steady THEN "steady" ELSE "off"

Ring ==
    /\ pass = "ring" /\ pass' = "find"
    /\ signal' = Signal
    /\ UNCHANGED <<inputs, found, time, counting, silence, budget>>

-----------------------------------------------------------------------------
(* The silence command in the main loop: started, ended by its time, ended  *)
(* by a second press.                                                       *)

StartSilence ==
    /\ block = "start" /\ block' = "timed"
    /\ recv' = (recv \/ send)
    /\ time' = IF send /\ ~recv THEN [time EXCEPT !["quiet"] = Delay["quiet"]] ELSE time
    /\ send' = send

TimedSilence ==
    /\ block = "timed" /\ block' = "click" /\ time' = time
    /\ LET over == send /\ recv /\ time["quiet"] = 0
       IN  send' = (send /\ ~over) /\ recv' = (recv /\ ~over)

(* Faulty variants: the second press does not end the silence; it leaves     *)
(* the time.                                                                *)
ClickSilenceKept ==
    /\ block = "click" /\ block' = "start"
    /\ UNCHANGED <<send, recv, time>>

ClickSilenceTime ==
    /\ block = "click" /\ block' = "start"
    /\ send' = send /\ recv' = (recv /\ send) /\ time' = time

ClickSilence ==
    /\ block = "click" /\ block' = "start"
    /\ send' = send /\ recv' = (recv /\ send)
    /\ time' = IF recv /\ ~send THEN [time EXCEPT !["quiet"] = 0] ELSE time

Silence ==
    /\ StartSilence \/ TimedSilence \/ ClickSilence
    /\ UNCHANGED <<inputs, found, counting, signal, pass, budget>>

-----------------------------------------------------------------------------
(* The surroundings. *)

Less(n) == IF n > 0 THEN n - 1 ELSE 0

(* set_uval(T, get_uval(T) - 1): another thread may write the word between   *)
(* the two, which matters for the one word that is also cleared.            *)
TickRead ==
    /\ scenario.races /\ counting = 0 /\ time["quiet"] > 0
    /\ counting' = time["quiet"]
    /\ UNCHANGED <<inputs, found, time, signal, pass, silence, budget>>

Tick ==
    /\ counting > 0 \/ \E t \in Timers : time[t] > 0
    /\ time' = [t \in Timers |->
                  Less(IF t = "quiet" /\ counting > 0 THEN counting ELSE time[t])]
    /\ counting' = 0
    /\ UNCHANGED <<inputs, found, signal, pass, silence, budget>>

Toggled(set, x) == IF x \in set THEN set \ {x} ELSE set \cup {x}

Change ==
    /\ changes > 0 /\ changes' = changes - 1
    /\ \/ /\ \E g \in Gauges \cap scenario.varying, l \in Levels : level' = [level EXCEPT ![g] = l]
          /\ UNCHANGED <<on, abnormal, enabled>>
       \/ /\ \E s \in Switches \cap scenario.varying : on' = Toggled(on, s)
          /\ UNCHANGED <<level, abnormal, enabled>>
       \/ /\ "sensors" \in scenario.varying
          /\ \E s \in {"sensor"} \cup enabled \cup abnormal : abnormal' = Toggled(abnormal, s)
          /\ UNCHANGED <<level, on, enabled>>
       \/ /\ "channels" \in scenario.varying /\ \E c \in Channels : enabled' = Toggled(enabled, c)
          /\ UNCHANGED <<level, on, abnormal>>
    /\ UNCHANGED <<scenario, lit, humidDelay, timed, eggs, fan, sensorLamp, time,
                   counting, signal, pass, silence, presses, restarts>>

Press ==
    /\ presses > 0 /\ presses' = presses - 1
    /\ send' = ~send
    /\ UNCHANGED <<inputs, found, time, counting, signal, pass, recv, block, changes,
                   restarts>>

(* init_para clears the alarm words; the silence words come from a backup    *)
(* and may be those of an earlier moment.                                   *)
Restart ==
    /\ restarts > 0 /\ restarts' = restarts - 1
    /\ abnormal' = {} /\ lit' = {} /\ humidDelay' = FALSE /\ timed' = {}
    /\ eggFresh' = TRUE /\ noEggFresh' = TRUE /\ eggLamp' = FALSE
    /\ fanFresh' = TRUE /\ fanFault' = TRUE /\ fanLamp' = FALSE /\ doorAlarm' = FALSE
    /\ sensorLamp' = FALSE /\ time' = [t \in Timers |-> 0] /\ counting' = 0
    /\ signal' = "reset" /\ pass' = "find" /\ block' = "start"
    /\ on' = on \cup {"eggBell"}
    /\ send' \in BOOLEAN /\ recv' \in BOOLEAN
    /\ UNCHANGED <<level, scenario, enabled, changes, presses>>

Next == Find \/ Ring \/ Silence \/ TickRead \/ Tick \/ Change \/ Press \/ Restart

(* The threads and the timer run for ever; nothing obliges the rest.        *)
Spec == Init /\ [][Next]_vars
        /\ WF_vars(Find) /\ WF_vars(Ring) /\ WF_vars(Silence) /\ WF_vars(Tick)

-----------------------------------------------------------------------------
(* Every word of the alarm thread keeps its type and every delay its range. *)
TypeOK ==
    /\ level \in [Gauges -> Levels] /\ on \subseteq Switches /\ scenario \in Scenarios
    /\ enabled \subseteq Channels /\ abnormal \subseteq Sensors
    /\ lit \subseteq Gauges \X Sides /\ timed \subseteq Refluxes
    /\ humidDelay \in BOOLEAN /\ eggFresh \in BOOLEAN /\ noEggFresh \in BOOLEAN
    /\ eggLamp \in BOOLEAN /\ fanFresh \in BOOLEAN /\ fanFault \in BOOLEAN
    /\ fanLamp \in BOOLEAN /\ doorAlarm \in BOOLEAN /\ sensorLamp \in BOOLEAN
    /\ send \in BOOLEAN /\ recv \in BOOLEAN
    /\ time \in [Timers -> Nat] /\ \A t \in Timers : time[t] <= Delay[t]
    /\ counting \in 0 .. Delay["quiet"] /\ (counting > 0 => scenario.races)
    /\ signal \in {"off", "steady", "ring", "reset"} /\ pass \in {"find", "ring"}
    /\ block \in {"start", "timed", "click"}
    /\ changes \in Nat /\ presses \in Nat /\ restarts \in Nat

(* The high humidity lamp only comes on when its delay is over, and no delay *)
(* starts while it is on: HIGH_HUMIDITY_ALARM_DELAY_STATUS and _TIME agree   *)
(* with the alarm at any moment between the two halves of a pass.            *)
HumidWaited == HumidHigh \in lit => humidDelay /\ time["humid"] = 0

(* What each delay waits for, as the thread has last seen it. *)
Cause == [humid |-> {a \in {HumidHigh} : humidDelay},
          egg |-> {s \in {"egg"} : ~eggFresh}, noEgg |-> {s \in {"egg"} : ~noEggFresh},
          refHigh |-> RefluxIn(timed, "high"), refLow |-> RefluxIn(timed, "low")]

(* A delay that runs is neither started again nor cut short while its cause  *)
(* stays the same, whatever the other alarms, the silence command and the     *)
(* timer do; and a new cause waits the whole of it.  (The delay of the fan is *)
(* started again, see StoppedFanRings.)                                      *)
DelaysRun ==
    [][\A t \in DOMAIN Cause :
         \/ Cause'[t] = {}
         \/ Cause'[t] = Cause[t] /\ time'[t] \in {time[t], Less(time[t])}
         \/ Cause'[t] # Cause[t] /\ time'[t] = Delay[t]]_vars

(* The bell is never silenced behind the operator's back: while             *)
(* ALARM_SUPPRESSION_TIME runs, R_CLOSE_ALA_RECV says so, also after presses *)
(* between the three silence blocks and after a restart.  The timer counts   *)
(* down in one step here: if the second press clears the time between its    *)
(* read and its write, the bell is silent and recv is OFF.                   *)
QuietIsShown == ~scenario.races /\ time["quiet"] > 0 => recv

Rung == <>[](signal = "ring")

(* Every silence ends, by its time, by a press, or after a restart.         *)
SilenceEnds == recv ~> ~recv

(* An alarm that lasts rings in the end and does not stop ringing, whatever  *)
(* others come and go and whoever silenced the bell before: an overheated    *)
(* incubator; a fan without power, at once or in stop mode after P_HH7       *)
(* minutes, and one that stops outside stop mode; an egg turning signal that *)
(* stays ON or stays OFF; a value of a reflux channel in use, although every  *)
(* change of the set of alarms starts the delay again.                       *)
LastingAlarmsRing ==
    /\ <>[]("aux" \in on \/ level["temp"] = "over") => Rung
    /\ <>[]("power" \notin on) => Rung
    /\ <>[](StopSignal /\ "stopMode" \notin on) => Rung
    /\ <>[]({"egg", "eggBell"} \subseteq on) => Rung
    /\ <>[]("egg" \notin on /\ "eggBell" \in on) => Rung
    /\ \A a \in Refluxes : <>[](Beyond(a) /\ a[1] \in enabled) => Rung

(* "如果是停止模式则10分钟后报警": a fan that stops in stop mode rings too, *)
(* after the delay.                                                          *)
StoppedFanRings == <>[](StopSignal /\ "stopMode" \in on) => Rung

Healthy ==
    /\ \A a \in Gauges \X Sides : Within(a) \/ a[1] \in Channels \ enabled
    /\ on \cap {"aux", "stopped", "fault", "stopMode", "eggBell"} = {} /\ abnormal = {}
    /\ {"power", "running", "door"} \subseteq on

(* The bell stops when nothing is wrong, whatever alarms were raised, timed, *)
(* latched or cut off before.                                                *)
BellStops == <>[]Healthy => <>[](signal \notin {"ring", "reset"})
=============================================================================
