-------------------------------- MODULE Reflux --------------------------------
(***************************************************************************)
(* The reflux water: up to four channels, each with a valve that a duty     *)
(* cycle opens and closes, and one common valve between cold and hot water. *)
(*                                                                         *)
(* normal_logic_process_retempN_func and pre_logic_process_retempN_func are *)
(* the same function eight times; a pass of the main loop calls four of     *)
(* them, "turn" is the channel whose call is next (0: the blocks before).   *)
(* Both kinds of water use the same work time, stop time and cycle words.   *)
(* The timer counts and the inputs change between any two calls.            *)
(***************************************************************************)
EXTENDS Integers

CONSTANTS
    Channels,    \* the channels there are, of 1 .. 4
    Cycles,      \* the values of P_RTEMP_ZQC
    Periods,     \* ... of P_RTEMP_ZQS
    Works,       \* ... of P_RTEMP_GZS
    First,       \* the values the three of them begin with
    Delay,       \* 30, the seconds a mode begins with
    WordMod,     \* 2^16: the times are unsigned words
    MaxEvents    \* bound: number of changes, commands, tests and restarts

ASSUME RefluxAssumption ==
    /\ Channels \subseteq 1 .. 4 /\ Channels # {}
    /\ WordMod \in Nat \ {0} /\ Delay \in 0 .. WordMod - 1
    /\ Cycles \subseteq 0 .. WordMod - 1 /\ Cycles # {}
    /\ Periods \subseteq 0 .. WordMod - 1 /\ Periods # {}
    /\ Works \subseteq 0 .. WordMod - 1 /\ Works # {}
    /\ First \in [cycles : Cycles, period : Periods, work : Works]
    /\ MaxEvents \in Nat

VARIABLES
    turn,     \* the call the main loop makes next
    mode,     \* "start" and "enter": the command is still to be carried out
    saved,    \* the mode calibration goes back to
    preInit,  \* R_PRE_STATUS
    open,     \* the valves that are ON: CONTROL_COOL2_1 .. _4
    hot,      \* CONTROL_COLD_HOT_WATER
    phase,    \* .._COLD_WATER_OPERAT_INIT, .._HOT_WATER_OPERAT_INIT
    work, stop, delay, cycle, \* the times and the count of each channel
    enabled,  \* REFLUX_TEMPERATURE
    temp,     \* R_AI_TP_RFn against P_AO_TP_RFn
    late,     \* R_RUN_DAY >= P_PRE_TP_RF1_DAY
    preCold,  \* the channels with P_PRE_TP_RFn > 0
    faulty,   \* SENSOR_3 .. SENSOR_6_ABNORMAL_ALARM
    standing, \* the drive of the fan reports a motor that does not run
    tested,   \* the valve test_control_mode holds open, 0: none
    params,   \* P_RTEMP_ZQC, P_RTEMP_ZQS and P_RTEMP_GZS
    events    \* what the surroundings may still do

control == <<mode, saved, preInit>>
times == <<work, stop, delay, cycle>>
inputs == <<enabled, temp, late, preCold, faulty, standing, params>>
vars == <<turn, control, open, hot, phase, times, inputs, tested, events>>

Waters == {"cold", "hot"}
OtherWater(w) == IF w = "cold" THEN "hot" ELSE "cold"
NoPhase == [w \in Waters |-> 0]
NoTime == [c \in Channels |-> 0]
Driving == {"run", "preheat"}
Params == [cycles : Cycles, period : Periods, work : Works]

Init ==
    /\ turn = 0 /\ mode \in {"stop", "run"} /\ saved = "stop" /\ preInit = TRUE
    /\ open = {} /\ hot = FALSE /\ phase = [c \in Channels |-> NoPhase]
    /\ work = NoTime /\ stop = NoTime /\ delay = NoTime /\ cycle = NoTime
    /\ enabled = Channels /\ temp = [c \in Channels |-> "high"]
    /\ late \in BOOLEAN /\ preCold \in SUBSET Channels
    /\ faulty = {} /\ standing = FALSE /\ tested = 0
    /\ params = First /\ events = MaxEvents

-----------------------------------------------------------------------------
(* The gates control_cool2_1 .. control_cool2_4.  A test and a faulty       *)
(* sensor keep the valve as it is, a standing motor closes it; channels 3    *)
(* and 4 share their test word, and channel 4 goes on after the motor's      *)
(* test.                                                                     *)
TestWord(c) == IF c = 4 THEN 3 ELSE c
Blocked(c) == c \in faulty \/ (tested # 0 /\ TestWord(tested) = TestWord(c))

Close(c) == open' = IF Blocked(c) THEN open ELSE open \ {c}
CloseAll == open' = {c \in open : Blocked(c)}
Open(c) == open' = IF Blocked(c) THEN open
                   ELSE IF standing /\ c # 4 THEN open \ {c} ELSE open \cup {c}

(* the wrong valve in the functions of channel 4 *)
Pulsed(c, w) == IF c = 4 /\ w = "cold" THEN 1 ELSE c

-----------------------------------------------------------------------------
(* One call for channel c. *)
Water(c) == IF (mode = "run" /\ late) \/ (mode = "preheat" /\ c \in preCold)
            THEN "cold" ELSE "hot"
Beyond(c) == temp[c] = IF Water(c) = "cold" THEN "high" ELSE "low"

(* Faulty variant: the other water keeps its phase. *)
BothSides(c) == phase[c]

(* the other water begins anew *)
OneSide(c) == [phase[c] EXCEPT ![OtherWater(Water(c))] = 0]

SetPhase(c, p) ==
    phase' = [phase EXCEPT ![c] = [OneSide(c) EXCEPT ![Water(c)] = p]]

(* the words once the duty cycle has begun *)
Fresh(c) == phase[c][Water(c)] = 0
Phase(c) == IF Fresh(c) THEN 1 ELSE phase[c][Water(c)]
Work(c) == IF Fresh(c) THEN params.work ELSE work[c]
Cycle(c) == IF Fresh(c) THEN 0 ELSE cycle[c]
Stop(c) == IF Phase(c) = 1 THEN (params.period - params.work) % WordMod ELSE stop[c]

SwitchedOff(c) ==
    /\ c \notin enabled
    /\ Close(c) /\ UNCHANGED <<hot, phase, work, stop, cycle>>

Delayed(c) ==
    /\ c \in enabled /\ delay[c] > 0
    /\ hot' = (Water(c) = "hot") /\ phase' = [phase EXCEPT ![c] = OneSide(c)]
    /\ UNCHANGED <<open, work, stop, cycle>>

Controlled(c) ==
    c \in enabled /\ delay[c] = 0 /\ hot' = (Water(c) = "hot")

Reached(c) ==
    /\ Controlled(c) /\ ~Beyond(c)
    /\ Close(c) /\ SetPhase(c, 0)
    /\ UNCHANGED <<work, stop, cycle>>

Cycling(c) == Controlled(c) /\ Beyond(c) /\ Cycle(c) < params.cycles

(* Faulty variant: the working time is not looked at. *)
WorkingAlways(c) ==
    /\ Cycling(c)
    /\ Open(Pulsed(c, Water(c))) /\ SetPhase(c, Phase(c))
    /\ work' = [work EXCEPT ![c] = Work(c)]
    /\ cycle' = [cycle EXCEPT ![c] = Cycle(c)]
    /\ UNCHANGED stop

Working(c) ==
    /\ Cycling(c) /\ Work(c) > 0
    /\ Open(Pulsed(c, Water(c))) /\ SetPhase(c, Phase(c))
    /\ work' = [work EXCEPT ![c] = Work(c)]
    /\ cycle' = [cycle EXCEPT ![c] = Cycle(c)]
    /\ UNCHANGED stop

Pausing(c) ==
    /\ Cycling(c) /\ Work(c) = 0 /\ Stop(c) > 0
    /\ Close(c) /\ SetPhase(c, 2)
    /\ stop' = [stop EXCEPT ![c] = Stop(c)]
    /\ work' = [work EXCEPT ![c] = 0]
    /\ cycle' = [cycle EXCEPT ![c] = Cycle(c)]

(* Faulty variant: the cycle is not counted. *)
ResumingUncounted(c) ==
    /\ Cycling(c) /\ Work(c) = 0 /\ Stop(c) = 0
    /\ SetPhase(c, 1)
    /\ work' = [work EXCEPT ![c] = params.work]
    /\ stop' = [stop EXCEPT ![c] = 0]
    /\ cycle' = [cycle EXCEPT ![c] = Cycle(c)]
    /\ UNCHANGED open

(* the pause is over; the valve is opened by the next call *)
Resuming(c) ==
    /\ Cycling(c) /\ Work(c) = 0 /\ Stop(c) = 0
    /\ SetPhase(c, 1)
    /\ work' = [work EXCEPT ![c] = params.work]
    /\ stop' = [stop EXCEPT ![c] = 0]
    /\ cycle' = [cycle EXCEPT ![c] = Cycle(c) + 1]
    /\ UNCHANGED open

(* all cycles are made: open until the set value is reached *)
Flowing(c) ==
    /\ Controlled(c) /\ Beyond(c) /\ Cycle(c) >= params.cycles
    /\ Open(c) /\ SetPhase(c, Phase(c))
    /\ work' = [work EXCEPT ![c] = Work(c)]
    /\ cycle' = [cycle EXCEPT ![c] = Cycle(c)]
    /\ UNCHANGED stop

After(c) == {d \in Channels \cup {0} : d > c /\ \A e \in Channels : e > c => d <= e}
Following(c) == IF After(c) = {} THEN 0 ELSE CHOOSE d \in After(c) : TRUE

Call(c) ==
    /\ turn = c /\ turn' = Following(c)
    /\ \/ SwitchedOff(c) \/ Delayed(c) \/ Reached(c) \/ Working(c) \/ Pausing(c)
       \/ Resuming(c) \/ Flowing(c)
    /\ UNCHANGED <<control, delay, inputs, tested, events>>

-----------------------------------------------------------------------------
(* The blocks of thread_main_func, as far as they concern the reflux water. *)

(* what START and PREHEAT begin with *)
Begin ==
    /\ phase' = [c \in Channels |-> NoPhase]
    /\ delay' = [c \in Channels |-> Delay]
    /\ CloseAll

StartBlock ==
    /\ mode = "start" /\ mode' = "run" /\ turn' = Following(0)
    /\ Begin /\ preInit' = TRUE /\ UNCHANGED hot

RunBlock ==
    /\ mode = "run" /\ turn' = Following(0) /\ preInit' = TRUE
    /\ UNCHANGED <<mode, open, hot, phase, delay>>

StopBlock ==
    /\ mode = "stop" /\ turn' = 0 /\ preInit' = TRUE
    /\ CloseAll /\ hot' = FALSE
    /\ UNCHANGED <<mode, phase, delay>>

PreheatBlock ==
    /\ mode = "preheat" /\ turn' = Following(0) /\ preInit' = FALSE
    /\ IF preInit THEN Begin ELSE UNCHANGED <<phase, delay, open>>
    /\ UNCHANGED <<mode, hot>>

CalibrationBlock ==
    /\ mode = "enter" /\ mode' = "calib" /\ turn' = 0
    /\ CloseAll /\ hot' = FALSE
    /\ UNCHANGED <<preInit, phase, delay>>

Block ==
    /\ turn = 0
    /\ StartBlock \/ RunBlock \/ StopBlock \/ PreheatBlock \/ CalibrationBlock
    /\ UNCHANGED <<saved, work, stop, cycle, inputs, tested, events>>

Main == Block \/ \E c \in Channels : Call(c)

-----------------------------------------------------------------------------
Down(t) == [c \in Channels |-> IF t[c] > 0 THEN t[c] - 1 ELSE 0]

(* One second of timer_callback_func. *)
Tick ==
    /\ work' = Down(work) /\ stop' = Down(stop) /\ delay' = Down(delay)
    /\ UNCHANGED <<turn, control, open, hot, phase, cycle, inputs, tested, events>>

-----------------------------------------------------------------------------
(* The surroundings. *)
Toggled(set, x) == IF x \in set THEN set \ {x} ELSE set \cup {x}

(* the sensors, the incubation clock, the drive, and the values of the panel *)
Change ==
    /\ events > 0 /\ events' = events - 1
    /\ \/ /\ \E c \in Channels, t \in {"low", "reached", "high"} :
               temp' = [temp EXCEPT ![c] = t]
          /\ UNCHANGED <<enabled, late, preCold, faulty, standing, params>>
       \/ /\ \E c \in Channels :
               \/ enabled' = Toggled(enabled, c) /\ UNCHANGED <<faulty, preCold>>
               \/ faulty' = Toggled(faulty, c) /\ UNCHANGED <<enabled, preCold>>
               \/ preCold' = Toggled(preCold, c) /\ UNCHANGED <<enabled, faulty>>
          /\ UNCHANGED <<temp, late, standing, params>>
       \/ /\ late' = ~late
          /\ UNCHANGED <<enabled, temp, preCold, faulty, standing, params>>
       \/ /\ standing' = ~standing
          /\ UNCHANGED <<enabled, temp, late, preCold, faulty, params>>
       \/ /\ \/ \E n \in Cycles : params' = [params EXCEPT !.cycles = n]
             \/ \E t \in Periods : params' = [params EXCEPT !.period = t]
             \/ \E t \in Works : params' = [params EXCEPT !.work = t]
          /\ UNCHANGED <<enabled, temp, late, preCold, faulty, standing>>
    /\ UNCHANGED <<turn, control, open, hot, phase, times, tested>>

(* The mode changes before the blocks of a pass; calibration gives the saved *)
(* one back, or a command or a preheat window ends it.                       *)
SetMode ==
    /\ turn = 0 /\ events > 0 /\ events' = events - 1
    /\ \/ /\ mode \in Driving \cup {"stop"}
          /\ mode' \in {"start", "stop", "preheat", "enter"} \ {mode}
          /\ saved' = IF mode' = "enter" THEN mode ELSE saved
       \/ /\ mode = "calib" /\ mode' \in {saved, "start", "stop", "preheat"}
          /\ saved' = saved
    /\ UNCHANGED <<turn, preInit, open, hot, phase, times, inputs, tested>>

(* test_control_mode writes the valve itself. *)
Test ==
    /\ turn = 0 /\ events > 0 /\ events' = events - 1
    /\ \/ tested = 0 /\ tested' \in Channels /\ open' = open \cup {tested'}
       \/ tested # 0 /\ tested' = 0 /\ open' = open \ {tested}
    /\ UNCHANGED <<turn, control, hot, phase, times, inputs>>

(* init_para restores the words from a backup that may hold an earlier mode, *)
(* and clears the outputs and the words 500 .. 599.  Settings of the panel   *)
(* that the backup missed come back as they were: a Change.                  *)
Restart ==
    /\ events > 0 /\ events' = events - 1
    /\ turn' = 0 /\ preInit' = TRUE /\ saved' = "stop"
    /\ mode' \in {"stop"} \cup Driving
    /\ open' = {} /\ hot' = FALSE /\ phase' = [c \in Channels |-> NoPhase]
    /\ work' = NoTime /\ stop' = NoTime /\ delay' = NoTime /\ cycle' = NoTime
    /\ tested' = 0
    /\ UNCHANGED inputs

Next == Main \/ Tick \/ Change \/ SetMode \/ Test \/ Restart

Spec == Init /\ [][Next]_vars

(* The loop and the timer go on; the surroundings owe nothing. *)
FairSpec == Spec /\ WF_vars(Main) /\ WF_vars(Tick)

-----------------------------------------------------------------------------
(* The variables hold values the words can hold. *)
TypeOK ==
    /\ turn \in Channels \cup {0}
    /\ mode \in Driving \cup {"start", "stop", "enter", "calib"}
    /\ saved \in Driving \cup {"stop"} /\ preInit \in BOOLEAN
    /\ open \in SUBSET (1 .. 4) /\ hot \in BOOLEAN
    /\ phase \in [Channels -> [Waters -> 0 .. 2]]
    /\ work \in [Channels -> 0 .. WordMod - 1]
    /\ stop \in [Channels -> 0 .. WordMod - 1]
    /\ delay \in [Channels -> 0 .. WordMod - 1] /\ cycle \in [Channels -> 0 .. WordMod - 1]
    /\ enabled \in SUBSET Channels /\ temp \in [Channels -> {"low", "reached", "high"}]
    /\ late \in BOOLEAN /\ preCold \in SUBSET Channels /\ faulty \in SUBSET Channels
    /\ standing \in BOOLEAN /\ tested \in Channels \cup {0} /\ params \in Params
    /\ events \in Nat

(* Cold and hot water never run their duty cycles together, although both    *)
(* count in the same words: not when the day of the cold water comes, when   *)
(* preheat follows a run, or when calibration gives a mode back.             *)
OneWater == \A c \in Channels : phase[c]["cold"] = 0 \/ phase[c]["hot"] = 0

(* Valve 1 is the one the cold cycles of channel 4 open. *)
Lent(c) == c = 1 /\ 4 \in Channels /\ Water(4) = "cold"

(* a channel that has to wait: after the beginning of a mode, or in a pause  *)
Waiting(c) ==
    \/ delay[c] > 0
    \/ /\ phase[c][Water(c)] = 2 /\ stop[c] > 0 /\ cycle[c] < params.cycles
       /\ ~Lent(c)

(* While a channel waits, only a test opens its valve: the other channels,   *)
(* a mode that begins anew, calibration, edited times and a sensor that is   *)
(* well again do not.                                                        *)
WaitsShut ==
    [][\A c \in Channels : Waiting(c) /\ c \in open' => c \in open \/ tested' = c]_vars

Wanted(c) == mode \in Driving /\ c \in enabled /\ Beyond(c)
Free(c) == c \notin faulty /\ tested = 0

(* A channel that stays beyond its set value gets water without a break in   *)
(* the end, and one that is not in need, switched off or stopped, none: each *)
(* after any number of interrupted cycles, tests, faults and edits of the    *)
(* cycle's times.  Valve 1 is not promised to stay shut while channel 4      *)
(* regulates with cold water: every new cycle of that channel opens it.      *)
ValvesSettle ==
    \A c \in Channels :
        /\ <>[](Wanted(c) /\ Free(c) /\ ~standing) => <>[](c \in open)
        /\ <>[](/\ ~Wanted(c) /\ Free(c) /\ mode # "calib"
                /\ ~(Lent(c) /\ 4 \in enabled /\ mode \in Driving))
             => <>[](c \notin open)
=============================================================================
