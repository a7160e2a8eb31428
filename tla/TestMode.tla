------------------------------ MODULE TestMode ------------------------------
(***************************************************************************)
(* The test buttons of the display (test_control_mode) and the gates all     *)
(* automatic writes of an output go through (control_main_heat and its       *)
(* siblings).  A test writes its output directly and keeps the automatic     *)
(* control away by a word; the two damper buttons are in Damper, the egg    *)
(* button is in EggTurn, what is here are the buttons of plain outputs.      *)
(*                                                                         *)
(* The main loop makes a pass of control calls, reads the twelve buttons,    *)
(* and then acts on what it read: the display may press in between, and what *)
(* it presses then is lost when the buttons are cleared.                     *)
(***************************************************************************)
EXTENDS Integers, FiniteSets

CONSTANTS
    Outputs,     \* the outputs with a test button
    HasDrive,    \* g_fan_status = 1: the fan is driven by the synchronous motor
    TestTimes,   \* the values of P_HH3 * 60
    MaxPresses,  \* bound: writes of the display
    MaxModes,    \* bound: mode changes and restarts
    MaxFaults    \* bound: changes of the alarms and of the motor

Valves == {"valve1", "valve2", "valve3", "valve4"}

ASSUME TestAssumption ==
    /\ Outputs \subseteq {"main_heat", "aux_heat", "spray", "cool", "blower"} \cup Valves
    /\ HasDrive \in BOOLEAN /\ TestTimes \subseteq Nat /\ TestTimes # {}
    /\ MaxPresses \in Nat /\ MaxModes \in Nat /\ MaxFaults \in Nat

VARIABLES
    pc,       \* "control", "read" or "act"
    state,    \* "run", "stop", "enter" and "calib" for calibration
    seen,     \* the buttons that were read
    buttons,  \* R_BTN_TP_MAIN ..: the buttons that are ON
    on,       \* the outputs that are ON
    words,    \* the TEST_.._MODE words that are ON
    test,     \* TEST_CONTROL_MODE, NoTest when no test runs
    testTime, \* TEST_BTN_TIME
    length,   \* P_HH3 * 60
    faulty,   \* the outputs whose sensor is in fault
    hot,      \* OUT_ST_TP_HIGH_ALARM
    still,    \* the drive does not report that the motor runs
    budget    \* what the operator and the sensors may still do

loop == <<pc, state, seen>>
tests == <<buttons, words, test, testTime>>
plant == <<faulty, hot, still>>
vars == <<loop, on, tests, length, plant, budget>>

NoTest == "none"

(* define.h gives the tests of valve 3 and of valve 4 the same word. *)
Word(o) == IF o \in {"valve3", "valve4"} THEN "valve34" ELSE o
Held(o) == Word(o) \in words

Init ==
    /\ pc = "control" /\ state \in {"run", "stop"} /\ seen = {} /\ buttons = {}
    /\ on = {} /\ words = {} /\ test = NoTest /\ testTime = 0 /\ length \in TestTimes
    /\ faulty = {} /\ hot = FALSE /\ still = FALSE
    /\ budget = [presses |-> MaxPresses, modes |-> MaxModes, faults |-> MaxFaults]

Spend(what) == budget[what] > 0 /\ budget' = [budget EXCEPT ![what] = @ - 1]

-----------------------------------------------------------------------------
(* The gates: what a call control_<o>(status) leaves the output at.          *)
Standing == HasDrive /\ still

(* a valve whose sensor is in fault stays as it is *)
Keeps(o) == o \in Valves /\ o \in faulty

(* Switched off whatever was asked for.  control_spray tests the number of   *)
(* its alarm word, so it always does; control_cool2_4 goes on after its OFF. *)
Barred(o) ==
    \/ o = "main_heat" /\ o \in faulty
    \/ o \in {"main_heat", "aux_heat"} /\ hot
    \/ o = "spray"
    \/ o = "blower" /\ HasDrive
    \/ o \notin {"valve4", "blower"} /\ Standing

After(o, status) ==
    IF Held(o) \/ Keeps(o) THEN o \in on ELSE ~Barred(o) /\ status

(* The blocks that run the machine ask for some outputs, ON or OFF.          *)
RunBlock ==
    /\ state = "run" /\ state' = state
    /\ \E asked \in SUBSET Outputs : \E wanted \in SUBSET asked :
         on' = {o \in Outputs : IF o \in asked THEN After(o, o \in wanted) ELSE o \in on}

StopBlock ==
    /\ state = "stop" /\ state' = state
    /\ on' = {o \in Outputs : After(o, FALSE)}

(* calibration switches OFF once, when it is entered, and not the blower *)
EnterBlock ==
    /\ state = "enter" /\ state' = "calib"
    /\ on' = {o \in Outputs : IF o = "blower" THEN o \in on ELSE After(o, FALSE)}

CalibrationBlock ==
    /\ state = "calib" /\ UNCHANGED <<state, on>>

Control ==
    /\ pc = "control" /\ pc' = "read"
    /\ RunBlock \/ StopBlock \/ EnterBlock \/ CalibrationBlock
    /\ UNCHANGED <<seen, tests, length, plant, budget>>

-----------------------------------------------------------------------------
(* test_control_mode *)
Read ==
    /\ pc = "read" /\ pc' = "act" /\ seen' = buttons
    /\ UNCHANGED <<state, on, tests, length, plant, budget>>

(* set_test_mode(0) *)
ClearButtons == buttons' = {}

(* Faulty variant: a test may start while another one runs. *)
TestStartAny(o) ==
    /\ seen = {o}
    /\ on' = IF o = "blower" /\ state # "stop" THEN on \ {o} ELSE on \cup {o}
    /\ words' = words \cup {Word(o)} /\ test' = o /\ testTime' = length
    /\ UNCHANGED buttons

(* One button: its output goes ON (the blower only while the fan is off).    *)
TestStart(o) ==
    /\ seen = {o} /\ test = NoTest
    /\ on' = IF o = "blower" /\ state # "stop" THEN on \ {o} ELSE on \cup {o}
    /\ words' = words \cup {Word(o)} /\ test' = o /\ testTime' = length
    /\ UNCHANGED buttons

(* Several buttons at once are no test. *)
TestUnknown ==
    /\ Cardinality(seen) > 1 /\ test = NoTest
    /\ ClearButtons
    /\ UNCHANGED <<on, words, test, testTime>>

(* Faulty variant: the output is left to the automatic control. *)
TestReleaseOn ==
    /\ test # NoTest /\ (seen = {} \/ (seen = {test} /\ testTime = 0))
    /\ on' = on /\ words' = words \ {Word(test)}
    /\ test' = NoTest /\ testTime' = 0 /\ ClearButtons

(* Faulty variant: the time is not looked at. *)
TestReleaseByButton ==
    /\ test # NoTest /\ seen = {}
    /\ on' = on \ {test} /\ words' = words \ {Word(test)}
    /\ test' = NoTest /\ testTime' = 0 /\ ClearButtons

(* The button is released, or its time is over. *)
TestRelease ==
    /\ test # NoTest /\ (seen = {} \/ (seen = {test} /\ testTime = 0))
    /\ on' = on \ {test} /\ words' = words \ {Word(test)}
    /\ test' = NoTest /\ testTime' = 0 /\ ClearButtons

TestRuns ==
    /\ test # NoTest /\ seen = {test} /\ testTime > 0
    /\ UNCHANGED <<on, tests>>

(* Faulty variant: the words stay until the next pass. *)
TestOtherKeeps ==
    /\ test # NoTest /\ seen \notin {{}, {test}}
    /\ on' = {} /\ words' = words /\ test' = NoTest /\ testTime' = 0 /\ ClearButtons

(* Another button: everything is switched off, tested or not. *)
TestOther ==
    /\ test # NoTest /\ seen \notin {{}, {test}}
    /\ on' = {} /\ words' = {} /\ test' = NoTest /\ testTime' = 0 /\ ClearButtons

TestNone ==
    /\ test = NoTest /\ seen = {}
    /\ words' = {} /\ testTime' = 0
    /\ UNCHANGED <<on, buttons, test>>

Act ==
    /\ pc = "act" /\ pc' = "control" /\ seen' = {}
    /\ \/ \E o \in Outputs : TestStart(o)
       \/ TestUnknown \/ TestRelease \/ TestRuns \/ TestOther \/ TestNone
    /\ UNCHANGED <<state, length, plant, budget>>

Main == Control \/ Read \/ Act

-----------------------------------------------------------------------------
Tick ==
    /\ testTime' = IF testTime > 0 THEN testTime - 1 ELSE 0
    /\ UNCHANGED <<loop, on, buttons, words, test, length, plant, budget>>

(* The display: a button, or P_HH3, which run_sys_time takes over.           *)
Press ==
    /\ Spend("presses")
    /\ \E o \in Outputs : buttons' \in {buttons \cup {o}, buttons \ {o}}
    /\ UNCHANGED <<loop, on, words, test, testTime, length, plant>>

EditLength ==
    /\ pc = "control" /\ Spend("presses")
    /\ length' \in TestTimes \ {length} /\ testTime' = length'
    /\ UNCHANGED <<loop, on, buttons, words, test, plant>>

(* A sensor, the high-temperature alarm or the motor changes.                *)
Plant ==
    /\ Spend("faults")
    /\ \/ \E o \in Outputs \cap ({"main_heat"} \cup Valves) :
            faulty' \in {faulty \cup {o}, faulty \ {o}} /\ UNCHANGED <<hot, still>>
       \/ hot' = ~hot /\ UNCHANGED <<faulty, still>>
       \/ still' = ~still /\ UNCHANGED <<faulty, hot>>
    /\ UNCHANGED <<loop, on, tests, length>>

(* the mode changes before the blocks of a pass *)
SetMode ==
    /\ pc = "control" /\ Spend("modes")
    /\ state' \in {"run", "stop", "enter"} \ {state}
    /\ UNCHANGED <<pc, seen, on, tests, length, plant>>

(* init_para clears the outputs, the buttons and the words of the tests.     *)
Restart ==
    /\ Spend("modes")
    /\ pc' = "control" /\ state' \in {"run", "stop"} /\ seen' = {}
    /\ on' = {} /\ words' = {} /\ test' = NoTest /\ testTime' = 0 /\ ClearButtons
    /\ faulty' = {} /\ hot' = FALSE /\ UNCHANGED <<length, still>>

Next == Main \/ Tick \/ Press \/ EditLength \/ Plant \/ SetMode \/ Restart

Spec == Init /\ [][Next]_vars

(* The loop and the timer go on; the operator and the plant need not. *)
FairSpec == Spec /\ WF_vars(Main) /\ WF_vars(Tick)

-----------------------------------------------------------------------------
(* The variables hold values the words can hold. *)
TypeOK ==
    /\ pc \in {"control", "read", "act"}
    /\ state \in {"run", "stop", "enter", "calib"}
    /\ seen \subseteq Outputs /\ buttons \subseteq Outputs /\ on \subseteq Outputs
    /\ words \subseteq {Word(o) : o \in Outputs}
    /\ test \in Outputs \cup {NoTest} /\ testTime \in Nat /\ length \in TestTimes
    /\ faulty \subseteq Outputs /\ hot \in BOOLEAN /\ still \in BOOLEAN

(* A test keeps the automatic control from its output as long as it runs and *)
(* no longer, however it ends: no output is left out of control.             *)
OneTest == words = IF test = NoTest THEN {} ELSE {Word(test)}

(* After the calls of a pass in stop mode, and as long as calibration lasts,  *)
(* only a test has the heating, the spray or the water on, whatever was       *)
(* driven when the mode was entered and however a test was broken off.  (The  *)
(* blower is not switched off by calibration; a valve is not while its        *)
(* sensor is in fault, nor valve 4 while valve 3 is tested.)                   *)
UntestedRests ==
    pc = "read" /\ state \in {"stop", "calib"} =>
        on \ (Valves \cup {"blower"}) \subseteq {test}

(* Every test ends: by its button, its time or another button. *)
TestEnds == test # NoTest ~> test = NoTest

(* In a stop mode that lasts every output comes to rest, the valves too once  *)
(* their sensors are good: none is forgotten by a test.                      *)
StopRests == <>[](state = "stop" /\ faulty = {}) => <>[](on = {})
=============================================================================
