---------------------------- MODULE AlarmProofs ----------------------------
(***************************************************************************)
(* Proofs about the alarm thread and the silence command, for every delay,  *)
(* every choice of reflux channels and any number of changes, presses and   *)
(* restarts.  The three conjuncts of the invariant are inductive together:  *)
(* the words of a delay are read in one half of a pass and written in the   *)
(* other, and the silence time is written by one block and its flag by the  *)
(* next.  QuietIsShown needs a timer that counts down in one step.          *)
(***************************************************************************)
EXTENDS Alarm, TLAPS

IInv == TypeOK /\ HumidWaited /\ QuietIsShown

(* The delays the thread starts are in the range of their words. *)
LEMMA DelaysInRange ==
    ASSUME TypeOK
    PROVE  /\ RefluxTime("refHigh", "high") \in 0 .. Delay["refHigh"]
           /\ RefluxTime("refLow", "low") \in 0 .. Delay["refLow"]
           /\ EggTime \in 0 .. Delay["egg"] /\ NoEggTime \in 0 .. Delay["noEgg"]
           /\ FanTime \in 0 .. Delay["fan"]
<1> USE AlarmAssumption DEF TypeOK, Timers
<1>1. RefluxTime("refHigh", "high") \in 0 .. Delay["refHigh"] BY DEF RefluxTime
<1>2. RefluxTime("refLow", "low") \in 0 .. Delay["refLow"] BY DEF RefluxTime
<1>3. EggTime \in 0 .. Delay["egg"] /\ NoEggTime \in 0 .. Delay["noEgg"]
  BY DEF EggTime, NoEggTime
<1>4. FanTime \in 0 .. Delay["fan"] BY DEF FanTime
<1> QED BY <1>1, <1>2, <1>3, <1>4

(* The alarms the thread finds belong to its gauges. *)
LEMMA AlarmsTyped == Alarms \subseteq Gauges \X Sides
BY DEF Alarms, Gauges, Sides, Refluxes

(* Finding the alarms keeps the types. *)
LEMMA FindTyped == TypeOK /\ Find => TypeOK'
<1> SUFFICES ASSUME TypeOK, Find PROVE TypeOK'
    OBVIOUS
<1> USE DEF TypeOK, Find, silence, budget, inputs
<1>1. lit' \subseteq Gauges \X Sides BY AlarmsTyped
<1>2. timed' \subseteq Refluxes BY DEF Timed
<1>3. enabled' \subseteq Channels BY DEF Enabled
<1>4. abnormal' \subseteq Sensors BY DEF Abnormal
<1>5. eggFresh' \in BOOLEAN /\ noEggFresh' \in BOOLEAN BY DEF EggSignal
<1>6. eggLamp' \in BOOLEAN BY DEF EggSignal
<1>7. fanFresh' \in BOOLEAN /\ fanLamp' \in BOOLEAN
  BY DEF FanTurns, FanStops, FanUnpowered, Turning
<1>8. fanFault' \in BOOLEAN
  BY DEF FanTurns, FanStops, FanUnpowered, Turning
<1>9. doorAlarm' \in BOOLEAN
  BY AlarmAssumption DEF FanTurns, FanStops, FanUnpowered, Turning
<1>10. sensorLamp' \in BOOLEAN BY DEF SensorShown
<1>11. humidDelay' \in BOOLEAN BY DEF Beyond, Within
<1>12. time' \in [Timers -> Nat] /\ \A t \in Timers : time'[t] <= Delay[t]
  BY DelaysInRange, AlarmAssumption DEF Timers
<1> QED BY <1>1, <1>2, <1>3, <1>4, <1>5, <1>6, <1>7, <1>8, <1>9, <1>10, <1>11, <1>12

(* Every step of the thread, the main loop, the timer and their             *)
(* surroundings keeps the types.                                            *)
LEMMA TypeInvariance == TypeOK /\ [Next]_vars => TypeOK'
<1> SUFFICES ASSUME TypeOK, [Next]_vars PROVE TypeOK'
    OBVIOUS
<1> USE AlarmAssumption
<1>0. 0 \in 0 .. Delay["quiet"] BY DEF Timers
<1>1. CASE Find BY <1>1, FindTyped
<1>2. CASE Ring
  BY <1>2 DEF TypeOK, Ring, Signal, inputs, found, eggs, fan, silence, budget
<1>3. CASE Silence
  <2>1. /\ UNCHANGED <<inputs, found, counting, signal, pass, budget>>
        /\ send' \in BOOLEAN /\ recv' \in BOOLEAN /\ block' \in {"start", "timed", "click"}
    BY <1>3 DEF TypeOK, Silence, StartSilence, TimedSilence, ClickSilence
  <2>2. time' \in [Timers -> Nat] /\ \A t \in Timers : time'[t] <= Delay[t]
    BY <1>3 DEF TypeOK, Silence, StartSilence, TimedSilence, ClickSilence, Timers
  <2> QED BY <2>1, <2>2 DEF TypeOK, inputs, found, eggs, fan, budget
<1>4. CASE Tick
  <2>1. time' \in [Timers -> Nat] /\ \A t \in Timers : time'[t] <= Delay[t]
    <3>1. counting \in 0 .. Delay["quiet"] BY DEF TypeOK
    <3>2. ASSUME NEW t \in Timers PROVE time'[t] \in 0 .. Delay[t]
      <4>1. CASE t = "quiet" /\ counting > 0
        BY <1>4, <3>1, <4>1 DEF Tick, Less
      <4>2. CASE ~(t = "quiet" /\ counting > 0)
        BY <1>4, <4>2 DEF TypeOK, Tick, Less
      <4> QED BY <4>1, <4>2
    <3>3. time' = [t \in Timers |-> time'[t]] BY <1>4 DEF Tick
    <3> QED BY <3>2, <3>3
  <2>2. counting' = 0 BY <1>4 DEF Tick
  <2>3. UNCHANGED <<inputs, found, signal, pass, silence, budget>> BY <1>4 DEF Tick
  <2> QED BY <1>0, <2>1, <2>2, <2>3 DEF TypeOK, inputs, found, eggs, fan, silence, budget
<1>5. CASE Change
  <2>1. level' \in [Gauges -> Levels] BY <1>5 DEF TypeOK, Change
  <2>2. on' \subseteq Switches BY <1>5 DEF TypeOK, Change, Toggled
  <2>3. abnormal' \subseteq Sensors
    <3>1. CASE UNCHANGED abnormal BY <3>1 DEF TypeOK
    <3>2. CASE \E s \in {"sensor"} \cup enabled \cup abnormal :
                 abnormal' = Toggled(abnormal, s)
      <4>1. PICK s \in {"sensor"} \cup enabled \cup abnormal :
                 abnormal' = Toggled(abnormal, s)
        BY <3>2
      <4>2. s \in Sensors BY DEF TypeOK, Sensors
      <4> QED BY <4>1, <4>2 DEF TypeOK, Toggled
    <3> QED BY <1>5, <3>1, <3>2 DEF Change
  <2>4. enabled' \subseteq Channels BY <1>5 DEF TypeOK, Change, Toggled
  <2>5. changes' \in Nat BY <1>5 DEF TypeOK, Change
  <2>6. UNCHANGED <<scenario, lit, humidDelay, timed, eggs, fan, sensorLamp, time, counting,
                    signal, pass, silence, presses, restarts>>
    BY <1>5 DEF Change
  <2>7. UNCHANGED <<scenario, lit, humidDelay, timed, eggFresh, noEggFresh, eggLamp>>
    BY <2>6 DEF eggs
  <2>8. UNCHANGED <<fanFresh, fanFault, fanLamp, doorAlarm, sensorLamp, time, counting, signal>>
    BY <2>6 DEF fan
  <2>9. UNCHANGED <<pass, send, recv, block, presses, restarts>>
    BY <2>6 DEF silence
  <2> QED BY <2>1, <2>2, <2>3, <2>4, <2>5, <2>7, <2>8, <2>9 DEF TypeOK
<1>6. CASE Press
  BY <1>6 DEF TypeOK, Press, inputs, found, eggs, fan
<1>7. CASE Restart
  <2>1. time' \in [Timers -> Nat] /\ \A t \in Timers : time'[t] <= Delay[t]
    BY <1>7 DEF Restart
  <2>2. restarts' \in Nat /\ on' \subseteq Switches BY <1>7 DEF Restart, TypeOK, Switches
  <2>3. /\ send' \in BOOLEAN /\ recv' \in BOOLEAN
        /\ UNCHANGED <<level, scenario, enabled, changes, presses>>
    BY <1>7 DEF Restart
  <2>4. /\ abnormal' = {} /\ lit' = {} /\ humidDelay' = FALSE /\ timed' = {}
        /\ eggFresh' = TRUE /\ noEggFresh' = TRUE /\ eggLamp' = FALSE
        /\ fanFresh' = TRUE /\ fanFault' = TRUE /\ fanLamp' = FALSE
        /\ doorAlarm' = FALSE /\ sensorLamp' = FALSE
        /\ counting' = 0 /\ signal' = "reset" /\ pass' = "find" /\ block' = "start"
    BY <1>7 DEF Restart
  <2>5. /\ level' \in [Gauges -> Levels] /\ scenario' \in Scenarios
        /\ enabled' \subseteq Channels /\ send' \in BOOLEAN /\ recv' \in BOOLEAN
        /\ changes' \in Nat /\ presses' \in Nat
    BY <2>3 DEF TypeOK
  <2>6. counting' \in 0 .. Delay["quiet"] /\ (counting' > 0 => scenario'.races)
    BY <1>0, <2>4
  <2> QED BY <2>1, <2>2, <2>4, <2>5, <2>6 DEF TypeOK
<1>8. CASE TickRead
  <2>1. counting' \in 0 .. Delay["quiet"] /\ (counting' > 0 => scenario'.races)
    BY <1>8 DEF TypeOK, TickRead, Timers, inputs
  <2> QED
    BY <1>8, <2>1 DEF TypeOK, TickRead, inputs, found, eggs, fan, silence, budget
<1>9. CASE UNCHANGED vars
  BY <1>9 DEF TypeOK, vars, inputs, found, eggs, fan, silence, budget
<1> QED BY <1>1, <1>2, <1>3, <1>4, <1>5, <1>6, <1>7, <1>8, <1>9 DEF Next

-----------------------------------------------------------------------------
(* The first state satisfies the invariant. *)
LEMMA InitIInv == Init => IInv
<1> SUFFICES ASSUME Init PROVE IInv
    OBVIOUS
<1> USE AlarmAssumption DEF Init
<1>1. level \in [Gauges -> Levels] BY DEF Levels
<1>2. on \subseteq Switches BY DEF Switches
<1>3. time \in [Timers -> Nat] /\ \A t \in Timers : time[t] <= Delay[t]
  OBVIOUS
<1>4. /\ scenario \in Scenarios /\ enabled \subseteq Channels /\ abnormal \subseteq Sensors
      /\ lit \subseteq Gauges \X Sides /\ timed \subseteq Refluxes
      /\ changes \in Nat /\ presses \in Nat /\ restarts \in Nat
      /\ counting \in 0 .. Delay["quiet"] /\ (counting > 0 => scenario.races)
  BY DEF Timers
<1>5. TypeOK BY <1>1, <1>2, <1>3, <1>4 DEF TypeOK
<1>6. HumidWaited /\ QuietIsShown BY DEF HumidWaited, QuietIsShown, Timers
<1> QED BY <1>5, <1>6 DEF IInv

(* No step lets the high humidity alarm overtake its delay. *)
LEMMA HumidInductive == TypeOK /\ HumidWaited /\ [Next]_vars => HumidWaited'
<1> SUFFICES ASSUME TypeOK, HumidWaited, [Next]_vars PROVE HumidWaited'
    OBVIOUS
<1> USE DEF HumidWaited
<1>1. CASE Find
  <2>1. HumidHigh \in lit' <=> HumidAlarm(HumidHigh)
    BY <1>1, AlarmAssumption DEF Find, Alarms, HumidHigh, Sides, Refluxes
  <2>2. time'["humid"] =
          IF Beyond(HumidHigh) /\ ~humidDelay THEN Delay["humid"] ELSE time["humid"]
    BY <1>1 DEF Find, TypeOK, Timers
  <2>3. humidDelay' = (Beyond(HumidHigh) \/ (humidDelay /\ ~Within(HumidHigh)))
    BY <1>1 DEF Find
  <2> QED BY <2>1, <2>2, <2>3 DEF HumidAlarm, Latched, TypeOK
<1>2. CASE Tick
  BY <1>2 DEF Tick, Less, TypeOK, found, Timers
<1>3. CASE Silence
  BY <1>3 DEF Silence, StartSilence, TimedSilence, ClickSilence, found, TypeOK, Timers
<1>4. CASE Ring \/ Press \/ Change \/ TickRead
  BY <1>4 DEF Ring, Press, Change, TickRead, found
<1>5. CASE Restart
  BY <1>5 DEF Restart
<1>6. CASE UNCHANGED vars
  BY <1>6 DEF vars, found
<1> QED BY <1>1, <1>2, <1>3, <1>4, <1>5, <1>6 DEF Next

(* No step leaves time on the silence without showing it. *)
LEMMA QuietInductive ==
    TypeOK /\ QuietIsShown /\ [Next]_vars => QuietIsShown'
<1> SUFFICES ASSUME TypeOK, QuietIsShown, [Next]_vars PROVE QuietIsShown'
    OBVIOUS
<1> USE DEF QuietIsShown
<1>1. CASE Find
  BY <1>1 DEF Find, TypeOK, Timers, silence, inputs
<1>2. CASE Tick
  <2>1. ~scenario.races => counting = 0 BY DEF TypeOK
  <2> QED BY <1>2, <2>1 DEF Tick, Less, TypeOK, Timers, silence, inputs
<1>3. CASE Silence
  <2>0. UNCHANGED scenario BY <1>3 DEF Silence, inputs
  <2>1. CASE StartSilence BY <2>0, <2>1 DEF StartSilence, TypeOK, Timers
  <2>2. CASE TimedSilence BY <2>0, <2>2 DEF TimedSilence, TypeOK
  <2>3. CASE ClickSilence BY <2>0, <2>3 DEF ClickSilence, TypeOK, Timers
  <2> QED BY <1>3, <2>1, <2>2, <2>3 DEF Silence
<1>4. CASE Ring \/ Press \/ Change
  BY <1>4 DEF Ring, Press, Change, silence, inputs
<1>5. CASE Restart
  BY <1>5 DEF Restart, Timers
<1>6. CASE UNCHANGED vars
  BY <1>6 DEF vars, silence, inputs
<1>7. CASE TickRead BY <1>7 DEF TickRead, silence, inputs
<1> QED BY <1>1, <1>2, <1>3, <1>4, <1>5, <1>6, <1>7 DEF Next

(* The invariant holds for ever. *)
LEMMA Invariance == Spec => []IInv
<1>1. IInv /\ [Next]_vars => IInv'
  BY TypeInvariance, HumidInductive, QuietInductive DEF IInv
<1> QED BY InitIInv, <1>1, PTL DEF Spec

-----------------------------------------------------------------------------
(* Every word of the alarm thread keeps its type and every delay its range, *)
(* whatever the surroundings do.                                            *)
THEOREM AlarmTypeCorrect == Spec => []TypeOK
<1>1. IInv => TypeOK BY DEF IInv
<1> QED BY Invariance, <1>1, PTL

(* The high humidity lamp is only ON when its delay is over.                *)
THEOREM HumidAlarmWaits == Spec => []HumidWaited
<1>1. IInv => HumidWaited BY DEF IInv
<1> QED BY Invariance, <1>1, PTL

(* The bell is silenced only while the display says so, if the timer counts  *)
(* down in one step: no other order of presses, blocks and restarts breaks   *)
(* it.                                                                       *)
THEOREM SilenceIsShown == Spec => []QuietIsShown
<1>1. IInv => QuietIsShown BY DEF IInv
<1> QED BY Invariance, <1>1, PTL

-----------------------------------------------------------------------------
(* A delay runs on. *)
RunsOn(t) ==
    \/ Cause'[t] = {}
    \/ Cause'[t] = Cause[t] /\ time'[t] \in {time[t], Less(time[t])}
    \/ Cause'[t] # Cause[t] /\ time'[t] = Delay[t]

Delays == {"humid", "egg", "noEgg", "refHigh", "refLow"}

(* The fields of the record of causes. *)
LEMMA CauseFields ==
    /\ DOMAIN Cause = Delays
    /\ Cause["humid"] = {a \in {HumidHigh} : humidDelay}
    /\ Cause["egg"] = {s \in {"egg"} : ~eggFresh}
    /\ Cause["noEgg"] = {s \in {"egg"} : ~noEggFresh}
    /\ Cause["refHigh"] = RefluxIn(timed, "high")
    /\ Cause["refLow"] = RefluxIn(timed, "low")
    /\ Cause'["humid"] = {a \in {HumidHigh} : humidDelay'}
    /\ Cause'["egg"] = {s \in {"egg"} : ~eggFresh'}
    /\ Cause'["noEgg"] = {s \in {"egg"} : ~noEggFresh'}
    /\ Cause'["refHigh"] = RefluxIn(timed', "high")
    /\ Cause'["refLow"] = RefluxIn(timed', "low")
BY DEF Cause, Delays, RefluxIn

(* A step that leaves the causes alone and starts no delay. *)
LEMMA CausesKept ==
    ASSUME UNCHANGED <<humidDelay, eggFresh, noEggFresh, timed>>,
           \A t \in Delays : time'[t] \in {time[t], Less(time[t])}
    PROVE  \A t \in DOMAIN Cause : RunsOn(t)
<1>1. \A t \in Delays : Cause'[t] = Cause[t] BY CauseFields DEF Delays
<1> QED BY <1>1, CauseFields DEF RunsOn

(* Finding the alarms starts a delay when its cause is new, and only then.   *)
LEMMA FindRuns == TypeOK /\ Find => \A t \in DOMAIN Cause : RunsOn(t)
<1> SUFFICES ASSUME TypeOK, Find PROVE \A t \in Delays : RunsOn(t)
  BY CauseFields
<1> USE DEF RunsOn
<1>0. /\ time'["humid"] = IF Beyond(HumidHigh) /\ ~humidDelay THEN Delay["humid"] ELSE time["humid"]
      /\ time'["refHigh"] = RefluxTime("refHigh", "high")
      /\ time'["refLow"] = RefluxTime("refLow", "low")
      /\ time'["egg"] = EggTime /\ time'["noEgg"] = NoEggTime
  BY DEF Find, TypeOK, Timers
<1>1. RunsOn("humid")
  <2>1. humidDelay' = (Beyond(HumidHigh) \/ (humidDelay /\ ~Within(HumidHigh)))
    BY DEF Find
  <2>2. CASE ~humidDelay' BY <2>2, CauseFields
  <2>3. CASE humidDelay' /\ humidDelay BY <1>0, <2>3, CauseFields
  <2>4. CASE humidDelay' /\ ~humidDelay BY <1>0, <2>1, <2>4, CauseFields
  <2> QED BY <2>2, <2>3, <2>4
<1>2. RunsOn("egg")
  <2>1. eggFresh' = ("egg" \notin on) BY DEF Find, EggSignal
  <2>2. CASE "egg" \notin on BY <2>1, <2>2, CauseFields
  <2>3. CASE "egg" \in on /\ eggFresh BY <1>0, <2>1, <2>3, CauseFields DEF EggTime
  <2>4. CASE "egg" \in on /\ ~eggFresh BY <1>0, <2>1, <2>4, CauseFields DEF EggTime
  <2> QED BY <2>2, <2>3, <2>4
<1>3. RunsOn("noEgg")
  <2>1. noEggFresh' = ("egg" \in on) BY DEF Find, EggSignal
  <2>2. CASE "egg" \in on BY <2>1, <2>2, CauseFields
  <2>3. CASE "egg" \notin on /\ noEggFresh BY <1>0, <2>1, <2>3, CauseFields DEF NoEggTime
  <2>4. CASE "egg" \notin on /\ ~noEggFresh BY <1>0, <2>1, <2>4, CauseFields DEF NoEggTime
  <2> QED BY <2>2, <2>3, <2>4
<1>4. ASSUME NEW side PROVE /\ RefluxIn(timed', side) = RefluxIn(Alarms, side)
                            /\ Alarms \cap Refluxes = {} => RefluxIn(timed', side) = {}
  BY DEF Find, Timed, RefluxIn
<1>5. RunsOn("refHigh") BY <1>0, <1>4, CauseFields DEF RefluxTime
<1>6. RunsOn("refLow") BY <1>0, <1>4, CauseFields DEF RefluxTime
<1> QED BY <1>1, <1>2, <1>3, <1>5, <1>6 DEF Delays

(* Every step lets the delays run. *)
LEMMA StepRuns ==
    TypeOK /\ [Next]_vars => [\A t \in DOMAIN Cause : RunsOn(t)]_vars
<1> SUFFICES ASSUME TypeOK, Next PROVE \A t \in DOMAIN Cause : RunsOn(t)
    OBVIOUS
<1> USE CausesKept DEF Delays
<1>1. CASE Find BY <1>1, FindRuns
<1>2. CASE Ring \/ TickRead \/ Press
  BY <1>2 DEF Ring, TickRead, Press, found, eggs
<1>3. CASE Change
  BY <1>3 DEF Change, eggs
<1>4. CASE Silence
  <2>1. UNCHANGED <<humidDelay, eggFresh, noEggFresh, timed>>
    BY <1>4 DEF Silence, found, eggs
  <2>2. \A t \in Delays : time'[t] = time[t]
    BY <1>4 DEF Silence, StartSilence, TimedSilence, ClickSilence, TypeOK, Timers
  <2> QED BY <2>1, <2>2
<1>5. CASE Tick
  BY <1>5 DEF Tick, found, eggs, Timers
<1>6. CASE Restart
  <2>1. ~humidDelay' /\ eggFresh' /\ noEggFresh' /\ timed' = {} BY <1>6 DEF Restart
  <2>2. \A t \in Delays : Cause'[t] = {} BY <2>1, CauseFields DEF RefluxIn
  <2> QED BY <2>2, CauseFields DEF RunsOn
<1> QED BY <1>1, <1>2, <1>3, <1>4, <1>5, <1>6 DEF Next

(* No other alarm, no silence and no order of threads starts a delay again    *)
(* or cuts it short while its cause lasts, and a new cause waits all of it.   *)
THEOREM DelaysRunOn == Spec => DelaysRun
<1>1. [\A t \in DOMAIN Cause : RunsOn(t)]_vars
        => [\A t \in DOMAIN Cause :
              \/ Cause'[t] = {}
              \/ Cause'[t] = Cause[t] /\ time'[t] \in {time[t], Less(time[t])}
              \/ Cause'[t] # Cause[t] /\ time'[t] = Delay[t]]_vars
  BY DEF RunsOn
<1>2. IInv => TypeOK BY DEF IInv
<1> QED BY <1>1, <1>2, StepRuns, Invariance, PTL DEF Spec, DelaysRun
=============================================================================
