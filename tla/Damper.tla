------------------------------- MODULE Damper -------------------------------
(***************************************************************************)
(* The air damper: one motor with an OPEN and a CLOSE relay, a limit switch *)
(* at either end, and the opening R_AI_AD that the software only estimates  *)
(* from the time a relay is ON.                                             *)
(*                                                                         *)
(* Four actors share these words: the main loop (damper_control_func and    *)
(* the two test buttons of test_control_mode), the 100 ms timer, the        *)
(* display, and the motor itself.  A control call writes the two relays one *)
(* after the other, so every write is a step and the timer may run between  *)
(* them.  "calls" are the control calls the running block still has to make *)
(* and "after" is what it does when they are made.                          *)
(***************************************************************************)
EXTENDS Integers, Sequences

CONSTANTS
    Travel,      \* positions of the motor between the limit switches
    MaxLen,      \* DAMPER_MAX_LEN (DAMPER_MIN_LEN is 0)
    TimeOpen,    \* DAMPER_TIME_OPEN, timer ticks for one unit of R_AI_AD
    TimeClose,   \* DAMPER_TIME_CLOSE
    TestTime,    \* P_HH3 * 60, in timer ticks
    WordMod,     \* 2^16: the countdowns are unsigned words
    HumidOpening,\* P_HUM_DBO
    Setpoints,   \* the values of P_AO_AD
    FanCases,    \* which states the motor drive may report in a behaviour
    MaxCommands, \* bound: number of display writes
    MaxChecks,   \* bound: number of calibration commands
    MaxModes     \* bound: number of mode changes

ASSUME DamperAssumption ==
    /\ Travel \in Nat \ {0} /\ MaxLen \in Nat \ {0}
    /\ TimeOpen \in Nat \ {0} /\ TimeClose \in Nat \ {0}
    /\ TestTime \in Nat /\ WordMod \in Nat \ {0}
    /\ HumidOpening \in Nat /\ Setpoints \subseteq Nat /\ Setpoints # {}
    /\ FanCases \subseteq SUBSET BOOLEAN /\ FanCases # {}
    /\ MaxCommands \in Nat /\ MaxChecks \in Nat /\ MaxModes \in Nat

VARIABLES
    pc,        \* the step the main loop takes next
    calls,     \* control calls to make
    after,     \* what the block does when they are made
    state,     \* "run": START or PREHEAT, "stop", "enter" and "calib": CHECK
    setpoint,  \* P_AO_AD
    fan,       \* what the drive may report of the motor: TRUE, it stands
    on,        \* the relays that are ON: CONTROL_DAMPER_OPEN, _CLOSE
    pos,       \* where the damper is
    ad,        \* R_AI_AD: where the software believes it is
    openTime, closeTime, \* AIR_DOOR_OPEN_RUNNING_TIME, _CLOSING_
    openOn, closeOn,     \* AIR_DOOR_OPEN_RUNNING_STATUS, _CLOSING_
    check,     \* STATUS_DAMPER_CHECK
    calOpen,   \* CONTROL_DB_OPEN_CALIBRATION_STATUS
    calDone,   \* CONTROL_DB_CLISE_CALIBRATION_STATUS
    buttons,   \* the test buttons that are ON: R_BTN_DR_ON, R_BTN_DR_OFF
    testing,   \* TEST_DAMPER_OPEN_MODE, TEST_DAMPER_CLOSE_MODE
    test,      \* TEST_CONTROL_MODE, {} when no test runs
    testTime,  \* TEST_BTN_TIME
    commands, checks, modes \* what the operator may still do

loop == <<pc, calls, after>>
clock == <<openTime, closeTime, openOn, closeOn>>
calibration == <<check, calOpen, calDone>>
tests == <<buttons, testing, test, testTime>>
budget == <<commands, checks, modes>>
vars == <<loop, state, setpoint, fan, on, pos, ad, clock, calibration, tests, budget>>

Relays == {"open", "close"}
Other(r) == IF r = "open" THEN "close" ELSE "open"
AtLimit(r) == IF r = "open" THEN pos = Travel ELSE pos = 0

(* One call of control_open_damper or control_close_damper: the relay, its  *)
(* status, "schedule" (do not close below the set value), and whether it    *)
(* comes through control_damper.                                            *)
Call == [relay : Relays, status : BOOLEAN, schedule : BOOLEAN, auto : BOOLEAN]
Automatic(r, s) == [relay |-> r, status |-> s, schedule |-> FALSE, auto |-> TRUE]
Direct(r, s) == [relay |-> r, status |-> s, schedule |-> FALSE, auto |-> FALSE]
Scheduled(r) == [relay |-> r, status |-> TRUE, schedule |-> TRUE, auto |-> TRUE]

(* Faulty variant: one call for both relays. *)
OpenOff == <<Automatic("open", FALSE)>>

AllOff == <<Automatic("open", FALSE), Automatic("close", FALSE)>>

Afters == {"test", "open", "close", "release", "abort"}

Init ==
    /\ pc = "control" /\ calls = <<>> /\ after = "test"
    /\ state \in {"run", "stop"} /\ setpoint \in Setpoints /\ fan \in FanCases
    /\ on = {} /\ pos \in 0 .. Travel /\ ad \in 0 .. MaxLen
    /\ openTime = 0 /\ closeTime = 0 /\ openOn = FALSE /\ closeOn = FALSE
    /\ check = FALSE /\ calOpen = FALSE /\ calDone = FALSE
    /\ buttons = {} /\ testing = {} /\ test = {} /\ testTime = 0
    /\ commands = MaxCommands /\ checks = MaxChecks /\ modes = MaxModes

-----------------------------------------------------------------------------
(* The control call at the head of "calls". *)

(* control_damper: a test has priority; without the fan the damper stays.   *)
CallRefused ==
    /\ Head(calls).auto /\ testing # {}
    /\ calls' = Tail(calls)
    /\ UNCHANGED <<pc, on>>

CallWithoutFan ==
    /\ Head(calls).auto /\ testing = {} /\ TRUE \in fan
    /\ calls' = <<Direct("open", FALSE)>> \o Tail(calls)
    /\ UNCHANGED <<pc, on>>

CallAtLimit ==
    /\ AtLimit(Head(calls).relay)
    /\ on' = on \ {Head(calls).relay} /\ calls' = Tail(calls) /\ pc' = pc

(* Faulty variant: the opposite relay is left for the second write. *)
CallWithoutInterlock ==
    /\ ~AtLimit(Head(calls).relay)
    /\ on' = on /\ pc' = "set" /\ calls' = calls

CallElsewhere ==
    /\ ~AtLimit(Head(calls).relay)
    /\ on' = on \ {Other(Head(calls).relay)} /\ pc' = "set" /\ calls' = calls

MakeCall ==
    /\ pc = "call" /\ calls # <<>>
    /\ \/ CallRefused
       \/ CallWithoutFan
       \/ /\ ~Head(calls).auto \/ (testing = {} /\ FALSE \in fan)
          /\ CallAtLimit \/ CallElsewhere
    /\ UNCHANGED <<after, state, setpoint, fan, pos, ad, clock, calibration, tests, budget>>

SetRelay ==
    /\ pc = "set" /\ pc' = "call" /\ calls' = Tail(calls)
    /\ LET c == Head(calls)
       IN  on' = IF c.status /\ (c.schedule => ad > setpoint)
                 THEN on \cup {c.relay} ELSE on \ {c.relay}
    /\ UNCHANGED <<after, state, setpoint, fan, pos, ad, clock, calibration, tests, budget>>

-----------------------------------------------------------------------------
(* damper_control_func and the other blocks that move the damper. *)

(* The humid damper goes to P_HUM_DBO and waits there. *)
HumidCall ==
    IF ad < HumidOpening THEN <<Automatic("open", TRUE)>>
    ELSE IF setpoint = 0 /\ ad > HumidOpening THEN <<Automatic("close", TRUE)>>
    ELSE <<Automatic("open", FALSE)>>

(* With too much CO2 it opens in periods: at a change of period a pass may  *)
(* make no call, or both.                                                   *)
CarbonCalls == {<<>>, <<Automatic("open", TRUE)>>, <<Automatic("open", FALSE)>>,
                <<Automatic("open", TRUE), Automatic("open", FALSE)>>}

(* Temperature: below the proportional band close down to the set value, in *)
(* it follow the PID pulses, above it open.                                 *)
TemperatureCalls == {<<Automatic("open", TRUE)>>, <<Scheduled("close")>>,
                     <<Automatic("open", FALSE)>>}

(* the calls one pass may make, depending on the sensors *)
Decisions ==
    IF setpoint > ad THEN {<<Automatic("open", TRUE)>>}
    ELSE {<<Automatic("open", TRUE)>>, HumidCall} \cup CarbonCalls \cup
         (IF setpoint = 0 THEN {<<Automatic("close", TRUE)>>} ELSE TemperatureCalls)

(* Faulty variant: that the switch was reached is not recorded. *)
CheckCloseForgets ==
    /\ check /\ ~calOpen /\ ~calDone
    /\ calls' = <<IF pos = 0 THEN Automatic("open", FALSE) ELSE Automatic("close", TRUE)>>
    /\ UNCHANGED calibration

(* STATUS_DAMPER_CHECK: close to the switch, then open to the set value *)
CheckClose ==
    /\ check /\ ~calOpen /\ ~calDone
    /\ calls' = <<IF pos = 0 THEN Automatic("open", FALSE) ELSE Automatic("close", TRUE)>>
    /\ calOpen' = (pos = 0)
    /\ UNCHANGED <<check, calDone>>

CheckOpen ==
    /\ check /\ calOpen /\ ~calDone
    /\ LET there == ad >= setpoint \/ pos = Travel
       IN  /\ calls' = <<Automatic("open", ~there)>>
           /\ check' = ~there /\ calDone' = there
    /\ UNCHANGED calOpen

CheckNothing ==
    /\ check /\ calDone
    /\ calls' = <<>>
    /\ UNCHANGED calibration

ControlDamper ==
    /\ ~check
    /\ calls' \in Decisions
    /\ calOpen' = FALSE /\ calDone' = FALSE /\ UNCHANGED check

RunBlock ==
    /\ state = "run" /\ state' = state
    /\ CheckClose \/ CheckOpen \/ CheckNothing \/ ControlDamper

StopBlock ==
    /\ state \in {"stop", "enter"} /\ calls' = AllOff
    /\ state' = IF state = "enter" THEN "calib" ELSE state
    /\ UNCHANGED calibration

CalibrationBlock ==
    /\ state = "calib" /\ calls' = <<>>
    /\ UNCHANGED <<state, calibration>>

Control ==
    /\ pc = "control" /\ pc' = "call" /\ after' = "test"
    /\ RunBlock \/ StopBlock \/ CalibrationBlock
    /\ UNCHANGED <<setpoint, fan, on, pos, ad, clock, tests, budget>>

-----------------------------------------------------------------------------
(* test_control_mode, as far as it concerns the damper. *)

(* a button is pressed and no test runs *)
TestPress(r) ==
    /\ buttons = {r} /\ test = {}
    /\ IF AtLimit(r)
       THEN pc' = "control" /\ UNCHANGED <<calls, after, testing>>
       ELSE /\ testing' = testing \cup {r} /\ pc' = "call"
            /\ calls' = <<Direct(r, TRUE)>> /\ after' = r
    /\ UNCHANGED <<buttons, test, testTime>>

(* both at once: no such test *)
TestUnknown ==
    /\ buttons = Relays /\ test = {}
    /\ buttons' = {} /\ pc' = "control"
    /\ UNCHANGED <<calls, after, testing, test, testTime>>

(* the button is released, or its time is over *)
TestRelease(r) ==
    /\ test = {r} /\ (buttons = {} \/ (buttons = test /\ testTime = 0))
    /\ calls' = <<Direct(r, FALSE)>> /\ after' = "release" /\ pc' = "call"
    /\ testTime' = 0
    /\ UNCHANGED <<buttons, testing, test>>

TestRuns ==
    /\ test # {} /\ buttons = test /\ testTime > 0
    /\ pc' = "control"
    /\ UNCHANGED <<calls, after, tests>>

(* another button while a test runs ends the test *)
TestOther ==
    /\ test # {} /\ buttons # {} /\ buttons # test
    /\ calls' = <<Direct("open", FALSE), Direct("close", FALSE)>>
    /\ after' = "abort" /\ pc' = "call" /\ testTime' = 0
    /\ UNCHANGED <<buttons, testing, test>>

TestNone ==
    /\ buttons = {} /\ test = {}
    /\ testTime' = 0 /\ testing' = {} /\ pc' = "control"
    /\ UNCHANGED <<calls, after, buttons, test>>

TestControlMode ==
    /\ pc = "test"
    /\ \/ \E r \in Relays : TestPress(r) \/ TestRelease(r)
       \/ TestUnknown \/ TestRuns \/ TestOther \/ TestNone
    /\ UNCHANGED <<state, setpoint, fan, on, pos, ad, clock, calibration, budget>>

(* all calls are made *)
PassDone == after = "test" /\ pc' = "test" /\ UNCHANGED tests

PressDone ==
    /\ after \in Relays /\ pc' = "control"
    /\ test' = {after} /\ testTime' = TestTime
    /\ UNCHANGED <<buttons, testing>>

TestDone ==
    /\ after \in {"release", "abort"} /\ pc' = "control"
    /\ testing' = IF after = "release" THEN testing \ test ELSE {}
    /\ buttons' = {} /\ test' = {} /\ UNCHANGED testTime

BlockDone ==
    /\ pc = "call" /\ calls = <<>>
    /\ PassDone \/ PressDone \/ TestDone
    /\ UNCHANGED <<calls, after, state, setpoint, fan, on, pos, ad, clock, calibration,
                   budget>>

Main == Control \/ MakeCall \/ SetRelay \/ TestControlMode \/ BlockDone

-----------------------------------------------------------------------------
(* timer_callback_func.  At a limit switch it stops the relay, corrects the *)
(* estimate and ends the test; elsewhere a relay that is ON counts down to  *)
(* the next unit of the estimate.  A reversal adds the time that was left.  *)

(* Faulty variant: not stopped at zero. *)
DownUnguarded(t) == t - 1

Down(t) == IF t > 0 THEN t - 1 ELSE 0
Opening == "open" \in on /\ pos # Travel
Closing == "close" \in on /\ pos # 0
OpenLeft == IF openOn THEN openTime ELSE (TimeOpen + closeTime) % WordMod
CloseLeft == IF closeOn THEN closeTime ELSE (TimeClose + openTime) % WordMod
Corrected == IF pos = Travel THEN MaxLen ELSE IF pos = 0 THEN 0 ELSE ad

OpenUnit == OpenLeft = 0 /\ ad < MaxLen
CloseUnit == CloseLeft = 0 /\ Corrected > 0

(* Faulty variant: the other countdown is added but not cleared. *)
CountOpenKeeps ==
    /\ openTime' = Down(OpenLeft) /\ openOn' = ~OpenUnit
    /\ closeTime' = closeTime /\ closeOn' = FALSE
    /\ ad' = IF pos = 0 THEN 0 ELSE IF OpenUnit THEN ad + 1 ELSE ad

CountOpen ==
    /\ openTime' = Down(OpenLeft) /\ openOn' = ~OpenUnit
    /\ closeTime' = (IF openOn THEN closeTime ELSE 0) /\ closeOn' = FALSE
    /\ ad' = IF pos = 0 THEN 0 ELSE IF OpenUnit THEN ad + 1 ELSE ad

CountClose ==
    /\ closeTime' = Down(CloseLeft) /\ closeOn' = ~CloseUnit
    /\ openTime' = (IF closeOn THEN openTime ELSE 0) /\ openOn' = FALSE
    /\ ad' = IF CloseUnit THEN Corrected - 1 ELSE Corrected

(* The open half runs before the close half; the relays are never both ON. *)
Tick ==
    /\ LET ends == {r \in Relays : AtLimit(r)}
       IN  /\ on' = on \ ends
           /\ testing' = testing \ ends /\ buttons' = buttons \ ends
    /\ \/ Opening /\ CountOpen
       \/ ~Opening /\ Closing /\ CountClose
       \/ ~Opening /\ ~Closing /\ ad' = Corrected /\ UNCHANGED clock
    /\ testTime' = Down(testTime)
    /\ UNCHANGED <<loop, state, setpoint, fan, pos, calibration, test, budget>>

-----------------------------------------------------------------------------
(* The motor, and the operator at the display. *)
Move ==
    /\ \/ Opening /\ pos' = pos + 1
       \/ Closing /\ "open" \notin on /\ pos' = pos - 1
    /\ UNCHANGED <<loop, state, setpoint, fan, on, ad, clock, calibration, tests, budget>>

(* the test buttons, the set value, and P_EDIT_AD, which run_sys_time takes *)
(* over at the start of a pass when it is a possible opening                *)
Display ==
    /\ commands > 0 /\ commands' = commands - 1
    /\ \/ /\ \E r \in Relays : buttons' \in {buttons \cup {r}, buttons \ {r}}
          /\ UNCHANGED <<setpoint, ad>>
       \/ setpoint' \in Setpoints /\ UNCHANGED <<buttons, ad>>
       \/ /\ pc = "control" /\ ad' \in 0 .. MaxLen
          /\ UNCHANGED <<buttons, setpoint>>
    /\ UNCHANGED <<loop, state, fan, on, pos, clock, calibration, testing, test, testTime,
                   checks, modes>>

Calibrate ==
    /\ checks > 0 /\ checks' = checks - 1
    /\ check' = TRUE
    /\ UNCHANGED <<loop, state, setpoint, fan, on, pos, ad, clock, calOpen, calDone, tests,
                   commands, modes>>

(* the main loop itself changes the mode, before the blocks of a pass *)
SetMode ==
    /\ pc = "control"
    /\ modes > 0 /\ modes' = modes - 1
    /\ state' \in {"run", "stop", "enter"} \ {state}
    /\ UNCHANGED <<loop, setpoint, fan, on, pos, ad, clock, calibration, tests, commands,
                   checks>>

(* The daemon restarts: init_para restores the words from a backup, with an  *)
(* estimate of some time before, wherever the damper is now, and clears the  *)
(* relays, the countdowns, the calibration and the tests.                    *)
Restart ==
    /\ modes > 0 /\ modes' = modes - 1
    /\ pc' = "control" /\ calls' = <<>> /\ after' = "test"
    /\ state' \in {"run", "stop"} /\ on' = {}
    /\ openTime' = 0 /\ closeTime' = 0 /\ openOn' = FALSE /\ closeOn' = FALSE
    /\ check' = FALSE /\ calOpen' = FALSE /\ calDone' = FALSE
    /\ buttons' = {} /\ testing' = {} /\ test' = {} /\ testTime' = 0
    /\ ad' \in 0 .. MaxLen /\ setpoint' \in Setpoints
    /\ UNCHANGED <<fan, pos, commands, checks>>

Next == Main \/ Tick \/ Move \/ Display \/ Calibrate \/ SetMode \/ Restart

Spec == Init /\ [][Next]_vars

(* The loop, the timer and a motor under power go on; the operator need not. *)
FairSpec == Spec /\ WF_vars(Main) /\ WF_vars(Tick) /\ WF_vars(Move)

-----------------------------------------------------------------------------
(* The variables hold values the words can hold; the estimate stays a        *)
(* possible opening, whatever is edited and wherever the damper really is.  *)
TypeOK ==
    /\ pc \in {"control", "call", "set", "test"}
    /\ calls \in Seq(Call) /\ after \in Afters
    /\ state \in {"run", "stop", "enter", "calib"} /\ setpoint \in Setpoints
    /\ fan \in SUBSET BOOLEAN
    /\ on \in SUBSET Relays /\ pos \in 0 .. Travel /\ ad \in 0 .. MaxLen
    /\ openTime \in 0 .. WordMod - 1 /\ closeTime \in 0 .. WordMod - 1
    /\ openOn \in BOOLEAN /\ closeOn \in BOOLEAN
    /\ check \in BOOLEAN /\ calOpen \in BOOLEAN /\ calDone \in BOOLEAN
    /\ buttons \in SUBSET Relays /\ testing \in SUBSET Relays
    /\ test \in SUBSET Relays /\ testTime \in Nat
    /\ commands \in Nat /\ checks \in Nat /\ modes \in Nat

(* The motor is never driven both ways: automatic control, a test, its end  *)
(* and the timer may follow each other between any two relay writes.        *)
NeverBoth == on # Relays

(* A reversal breaks before it makes: a relay is switched ON only when both   *)
(* are OFF, and never two at once, whatever runs between the two writes of a  *)
(* call, so the motor has stopped being driven before it is driven back.     *)
BreakBeforeMake == [][on' # Relays /\ (on' \subseteq on \/ on = {})]_on

(* A reversal hands its remaining time to the other direction: never do     *)
(* both directions count at the same time.                                  *)
OneCountdown == openTime = 0 \/ closeTime = 0

(* Outside the run modes the relays are OFF once the loop has made its two  *)
(* calls (while the fan drive runs, and except for a test): the first call  *)
(* alone does not do it when the damper is fully open and closing.          *)
StoppedIsStill ==
    fan = {FALSE} /\ state # "run" /\ pc = "test" /\ testing = {} => on = {}

(* jincubator.cpp:4578 "the damper is being corrected ...; when that is done *)
(* the variable shows OFF": while the machine runs, a calibration ends.     *)
CheckEnds == fan = {FALSE} /\ check ~> ~check \/ state # "run"
=============================================================================
