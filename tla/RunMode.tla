------------------------------- MODULE RunMode -------------------------------
(***************************************************************************)
(* The run-mode machine of the incubator: the mode words of the shared     *)
(* memory (SYSTEM_INIT + 0 .. 13), the main loop (thread_main_func) that    *)
(* turns operator commands into modes, the preheat window, calibration      *)
(* with its timer, the maximum incubation time, the copy of these words in  *)
(* the backup files and the restart of the daemon from it (init_para).      *)
(*                                                                         *)
(* A mode word is ON iff its name is in "mode".  The display writes command *)
(* words at any moment, the 100 ms timer counts at any moment, so each      *)
(* block of the loop is an action of its own and "pc" says which one is     *)
(* next.  A block that reads the words and later overwrites them            *)
(* (calibration, the default mode) takes two actions.                       *)
(***************************************************************************)
EXTENDS Integers, FiniteSets

CONSTANTS
    MaxNow,      \* the clock stops here: every preheat window is over by then
    MaxPreheat,  \* TWO_DAY_SECONDS
    MaxRuns,     \* the values of R_RUN_MAX_DAY, in units of R_RUN_SECOND
    MaxSecond,   \* bound: R_RUN_SECOND stops here
    FortyDays,   \* longest incubation a restart accepts
    CalTime,     \* P_HH9 * 60
    Starts,      \* the values the display writes into R_PRE_START_TIME
    Stops,       \* ... and into R_PRE_STOP_TIME
    AutoResume,  \* RUN_MODE_STATUS: a restart keeps START and PRE
    CopyAt,      \* bound: the blocks before which the memory may be copied
    Budgets      \* bounds: how many display writes there may be, of which kinds,
                 \* and how many restarts

(* What the display writes: a command word, a preheat time, or a setting. *)
Pressed == {"START_SEND", "STOP_SEND", "PRE_SEND", "INIT_SEND", "CHECK_SEND"}
Kinds == Pressed \cup {"window", "settings"}

ASSUME BoundsAssumption ==
    /\ MaxNow \in Nat /\ MaxPreheat \in Nat /\ MaxRuns \subseteq Nat \ {0}
    /\ MaxSecond \in Nat /\ FortyDays \in Nat /\ CalTime \in Nat
    /\ Budgets \subseteq [writes : Nat, kinds : SUBSET Kinds, restarts : Nat]

ASSUME WindowAssumption == Starts \subseteq Nat /\ Stops \subseteq Nat

ASSUME ResumeAssumption == AutoResume \in BOOLEAN

VARIABLES
    pc,       \* the block of the main loop that runs next
    mode,     \* the mode words that are ON
    pre,      \* R_PRE_START_TIME and R_PRE_STOP_TIME
    preInit,  \* R_PRE_STATUS: the next preheat begins with its initialisation
    backup,   \* BACKUP_*: what calibration saved
    outputs,  \* who set the heating and humidity outputs last
    now,      \* time(NULL)
    run,      \* R_RUN_SECOND
    maxRun,   \* R_RUN_MAX_DAY
    counting, \* R_RUN_SECOND_STATUS
    calTime,  \* CALIBRATION_RUN_TIME
    ticked,   \* a second began in this pass of the loop
    image,    \* what the backup files hold of these words, see BackupFiles
    display,  \* display writes left, and their kinds
    restarts  \* restarts left

vars == <<pc, mode, pre, preInit, backup, outputs, now, run, maxRun, counting,
          calTime, ticked, image, display, restarts>>

RecvWords == {"START_RECV", "STOP_RECV", "PRE_RECV", "CHECK_RECV"}
Words == RecvWords \cup
         {"START_SEND", "STOP_SEND", "PRE_SEND", "INIT_SEND", "CHECK_SEND"}
Blocks == {"sys", "start", "run", "stop", "halt", "preheat", "init", "calib",
           "calset", "timed", "click", "default", "defset", "idle"}
Outputs == {"off", "normal", "preheat"}

NoWindow == [start |-> 0, stop |-> 0]
NoBackup == [mode |-> {}, preInit |-> FALSE, pre |-> NoWindow]

Least(a, b) == IF a < b THEN a ELSE b

(* get_run_mode(1) leaves the calibration words out, get_run_mode(0) is mode *)
OperationMode == mode \ {"CHECK_SEND", "CHECK_RECV"}

(* Faulty variant: the other words are not switched off. *)
AddRunMode(m) == mode' = mode \cup m

(* set_run_mode writes every mode word except CHECK_SEND *)
SetRunMode(m) == mode' = (mode \cap {"CHECK_SEND"}) \cup (m \ {"CHECK_SEND"})

(* What a copy of the memory holds; "at" is R_SYSTEM_TIME, the clock.       *)
Copy(m, p, r, t) == [mode |-> m, pre |-> p, run |-> r, at |-> t]

Init ==
    /\ pc = "sys" /\ mode = {"STOP_SEND"} /\ pre = NoWindow /\ preInit = TRUE
    /\ backup = NoBackup /\ outputs = "off" /\ now = 1 /\ run = 0
    /\ maxRun \in MaxRuns /\ counting = TRUE /\ calTime = 0 /\ ticked = FALSE
    /\ image = Copy(mode, pre, run, now)
    /\ \E b \in Budgets :
         /\ display = [writes |-> b.writes, kinds |-> b.kinds]
         /\ restarts = b.restarts

-----------------------------------------------------------------------------
(* The main loop.  At(a, b) is the control flow of one block. *)
At(a, b) == pc = a /\ pc' = b
Others == <<ticked, image, display, restarts>>
Clocks == <<now, run, maxRun, calTime>>

(* Faulty variant: the two calls in the other order, STOP_SEND stays. *)
SysTimeSwapped ==
    /\ At("sys", "start")
    /\ IF run >= maxRun THEN SetRunMode({"STOP_SEND"}) ELSE mode' = mode
    /\ UNCHANGED <<pre, preInit, backup, outputs, counting, Clocks, Others>>

(* run_sys_time: the incubation is over.  Two calls of set_run_mode follow  *)
(* each other, so what the second one writes stays.                         *)
SysTime ==
    /\ At("sys", "start")
    /\ IF run >= maxRun THEN SetRunMode({"INIT_SEND"}) ELSE mode' = mode
    /\ UNCHANGED <<pre, preInit, backup, outputs, counting, Clocks, Others>>

StartCommand ==
    /\ At("start", "run")
    /\ IF "START_SEND" \in mode
       THEN /\ SetRunMode({"START_RECV"})
            /\ outputs' = "off" /\ counting' = TRUE
            /\ preInit' = TRUE /\ pre' = NoWindow
       ELSE UNCHANGED <<mode, outputs, counting, preInit, pre>>
    /\ UNCHANGED <<backup, Clocks, Others>>

StartRun ==
    /\ At("run", "stop")
    /\ IF "START_RECV" \in mode
       THEN outputs' = "normal" /\ counting' = TRUE /\ preInit' = TRUE
       ELSE UNCHANGED <<outputs, counting, preInit>>
    /\ UNCHANGED <<mode, pre, backup, Clocks, Others>>

StopCommand ==
    /\ At("stop", "halt")
    /\ IF "STOP_SEND" \in mode
       THEN /\ SetRunMode({"STOP_RECV"})
            /\ counting' = TRUE /\ preInit' = TRUE /\ pre' = NoWindow
       ELSE UNCHANGED <<mode, counting, preInit, pre>>
    /\ UNCHANGED <<backup, outputs, Clocks, Others>>

(* Faulty variant: stop mode leaves the outputs as they are. *)
StopRunLatched ==
    /\ At("halt", "preheat")
    /\ IF "STOP_RECV" \in mode
       THEN counting' = TRUE /\ preInit' = TRUE
       ELSE UNCHANGED <<counting, preInit>>
    /\ UNCHANGED <<mode, pre, backup, outputs, Clocks, Others>>

StopRun ==
    /\ At("halt", "preheat")
    /\ IF "STOP_RECV" \in mode
       THEN outputs' = "off" /\ counting' = TRUE /\ preInit' = TRUE
       ELSE UNCHANGED <<outputs, counting, preInit>>
    /\ UNCHANGED <<mode, pre, backup, Clocks, Others>>

PreheatActive ==
    /\ pre.start # 0 /\ pre.stop # 0 /\ pre.start < pre.stop
    /\ pre.stop - pre.start <= MaxPreheat

PreheatRun ==
    /\ PreheatActive /\ pre.start <= now /\ now <= pre.stop
    /\ IF preInit THEN SetRunMode({"PRE_RECV"}) ELSE mode' = mode
    /\ preInit' = FALSE /\ counting' = FALSE /\ outputs' = "preheat"
    /\ UNCHANGED <<pre, run>>

(* Faulty variant: the window is closed but no mode follows. *)
PreheatOverSilent ==
    /\ PreheatActive /\ now > pre.stop
    /\ run' = 0 /\ counting' = TRUE /\ pre' = NoWindow
    /\ UNCHANGED <<mode, preInit, outputs>>

(* after the window: the incubation starts from second 0 *)
PreheatOver ==
    /\ PreheatActive /\ now > pre.stop
    /\ SetRunMode({"START_SEND"})
    /\ run' = 0 /\ counting' = TRUE /\ pre' = NoWindow
    /\ UNCHANGED <<preInit, outputs>>

PreheatEmpty ==
    /\ pre.start # 0 /\ pre.start = pre.stop
    /\ SetRunMode({"STOP_SEND"})
    /\ counting' = TRUE /\ pre' = NoWindow
    /\ UNCHANGED <<preInit, outputs, run>>

(* no window, one in the future, a reversed or an over-long one: nothing *)
PreheatIgnored ==
    /\ ~(PreheatActive /\ now >= pre.start)
    /\ ~(pre.start # 0 /\ pre.start = pre.stop)
    /\ UNCHANGED <<mode, preInit, counting, outputs, pre, run>>

Preheat ==
    /\ At("preheat", "init")
    /\ PreheatRun \/ PreheatOver \/ PreheatEmpty \/ PreheatIgnored
    /\ UNCHANGED <<backup, now, maxRun, calTime, Others>>

(* Faulty variant: R_RUN_SECOND_STATUS is not switched on again. *)
InitCommandStill ==
    /\ At("init", "calib")
    /\ IF "INIT_SEND" \in mode
       THEN mode' = mode \ {"INIT_SEND"} /\ run' = 0 /\ counting' = FALSE
       ELSE UNCHANGED <<mode, run, counting>>
    /\ UNCHANGED <<pre, preInit, backup, outputs, now, maxRun, calTime, Others>>

InitCommand ==
    /\ At("init", "calib")
    /\ IF "INIT_SEND" \in mode
       THEN mode' = mode \ {"INIT_SEND"} /\ run' = 0 /\ counting' = TRUE
       ELSE UNCHANGED <<mode, run, counting>>
    /\ UNCHANGED <<pre, preInit, backup, outputs, now, maxRun, calTime, Others>>

CalibrationBackup ==
    /\ pc = "calib"
    /\ IF "CHECK_SEND" \in mode /\ "CHECK_RECV" \notin mode
       THEN /\ pc' = "calset"
            /\ backup' = [mode |-> OperationMode, preInit |-> preInit, pre |-> pre]
       ELSE pc' = "timed" /\ backup' = backup
    /\ UNCHANGED <<mode, pre, preInit, outputs, counting, Clocks, Others>>

(* Faulty variant: the outputs are not switched off. *)
CalibrationEnterHot ==
    /\ At("calset", "timed")
    /\ SetRunMode({"CHECK_SEND", "CHECK_RECV"})
    /\ pre' = NoWindow /\ calTime' = CalTime
    /\ UNCHANGED <<outputs, preInit, backup, now, run, maxRun, counting, Others>>

CalibrationEnter ==
    /\ At("calset", "timed")
    /\ SetRunMode({"CHECK_SEND", "CHECK_RECV"})
    /\ outputs' = "off" /\ pre' = NoWindow /\ calTime' = CalTime
    /\ UNCHANGED <<preInit, backup, now, run, maxRun, counting, Others>>

(* Faulty variant: the preheat window is not given back. *)
RestoreModeOnly ==
    /\ SetRunMode(backup.mode)
    /\ preInit' = backup.preInit /\ pre' = pre

Restore ==
    /\ SetRunMode(backup.mode)
    /\ preInit' = backup.preInit /\ pre' = backup.pre

CalibrationTimeout ==
    /\ At("timed", "click")
    /\ IF {"CHECK_SEND", "CHECK_RECV"} \subseteq mode /\ calTime = 0
       THEN Restore
       ELSE UNCHANGED <<mode, preInit, pre>>
    /\ UNCHANGED <<backup, outputs, counting, Clocks, Others>>

(* Faulty variant: the release is tested like the timed one. *)
CalibrationClickOn ==
    /\ At("click", "default")
    /\ IF {"CHECK_SEND", "CHECK_RECV"} \subseteq mode /\ calTime = 0
       THEN Restore /\ calTime' = 0
       ELSE UNCHANGED <<mode, preInit, pre, calTime>>
    /\ UNCHANGED <<backup, outputs, counting, now, run, maxRun, Others>>

CalibrationClick ==
    /\ At("click", "default")
    /\ IF "CHECK_SEND" \notin mode /\ "CHECK_RECV" \in mode
       THEN Restore /\ calTime' = 0
       ELSE UNCHANGED <<mode, preInit, pre, calTime>>
    /\ UNCHANGED <<backup, outputs, counting, now, run, maxRun, Others>>

(* Faulty variant: no mode is taken for a mode. *)
DefaultReadNever ==
    /\ At("default", "idle")
    /\ UNCHANGED <<mode, pre, preInit, backup, outputs, counting, Clocks, Others>>

DefaultRead ==
    /\ pc = "default"
    /\ pc' = IF mode = {} THEN "defset" ELSE "idle"
    /\ UNCHANGED <<mode, pre, preInit, backup, outputs, counting, Clocks, Others>>

DefaultStop ==
    /\ At("defset", "idle")
    /\ SetRunMode({"STOP_SEND"})
    /\ UNCHANGED <<pre, preInit, backup, outputs, counting, Clocks, Others>>

(* wait_ms(250) *)
Wait ==
    /\ At("idle", "sys") /\ ticked' = FALSE
    /\ UNCHANGED <<mode, pre, preInit, backup, outputs, counting, Clocks, image,
                   display, restarts>>

Main ==
    \/ SysTime \/ StartCommand \/ StartRun \/ StopCommand \/ StopRun
    \/ Preheat \/ InitCommand \/ CalibrationBackup \/ CalibrationEnter
    \/ CalibrationTimeout \/ CalibrationClick \/ DefaultRead \/ DefaultStop
    \/ Wait

-----------------------------------------------------------------------------
CountDown == IF calTime > 0 THEN calTime - 1 ELSE 0

(* One second of timer_callback_func, and of the clock.  A pass of the loop *)
(* waits 250 ms and its work is short: at most one second begins in it.     *)
Tick ==
    /\ ~ticked /\ ticked' = TRUE
    /\ now' = Least(now + 1, MaxNow)
    /\ run' = IF counting THEN Least(run + 1, MaxSecond) ELSE run
    /\ calTime' = CountDown
    /\ UNCHANGED <<pc, mode, pre, preInit, backup, outputs, maxRun, counting,
                   image, display, restarts>>

Writes(kind) ==
    /\ display.writes > 0 /\ kind \in display.kinds
    /\ display' = [display EXCEPT !.writes = @ - 1]

(* The display: it switches a command word on, switches calibration off, or *)
(* writes one of the two preheat times.                                     *)
Command(w) ==
    /\ Writes(w)
    /\ mode' = mode \cup {w}
    /\ UNCHANGED <<pc, pre, preInit, backup, outputs, Clocks, counting, ticked,
                   image, restarts>>

EndCheck ==
    /\ Writes("CHECK_SEND")
    /\ mode' = mode \ {"CHECK_SEND"}
    /\ UNCHANGED <<pc, pre, preInit, backup, outputs, Clocks, counting, ticked,
                   image, restarts>>

SetWindow ==
    /\ Writes("window")
    /\ \/ \E t \in Starts : pre' = [pre EXCEPT !.start = t]
       \/ \E t \in Stops : pre' = [pre EXCEPT !.stop = t]
    /\ UNCHANGED <<pc, mode, preInit, backup, outputs, Clocks, counting, ticked,
                   image, restarts>>

(* Two settings that run_sys_time takes over at the start of a pass: the    *)
(* system clock, forwards or back, and a new length of calibration.         *)
Settings ==
    /\ pc = "sys" /\ Writes("settings")
    /\ \/ now' \in 1 .. MaxNow /\ calTime' = calTime
       \/ calTime' = CalTime /\ now' = now
    /\ UNCHANGED <<pc, mode, pre, preInit, backup, outputs, run, maxRun, counting,
                   ticked, image, restarts>>

Display == (\E w \in Pressed : Command(w)) \/ EndCheck \/ SetWindow \/ Settings

(* The backup thread writes the memory into a file, between two blocks (the *)
(* torn copies are the subject of BackupFiles).  Only a restart reads it.   *)
Save ==
    /\ restarts > 0 /\ pc \in CopyAt
    /\ image' = Copy(mode, pre, run, now)
    /\ UNCHANGED <<pc, mode, pre, preInit, backup, outputs, Clocks, counting, ticked,
                   display, restarts>>

(* The unsigned sum of init_para: a clock that went back further than the   *)
(* incubation lasted makes it wrap, far beyond forty days.                  *)
RunAfter(t) ==
    LET sum == image.run + (t - image.at)
    IN  IF sum \in 0 .. FortyDays - 1 THEN Least(sum, MaxSecond) ELSE image.run

Resumes(m) == AutoResume /\ m \cap {"START_RECV", "PRE_RECV"} # {}

(* Faulty variant: the mode words are not restored with the others. *)
ResumedPresent ==
    IF Resumes(mode) THEN mode ELSE (mode \cap {"CHECK_SEND"}) \cup {"STOP_SEND"}

(* start and preheat go on, anything else becomes the stop command *)
Resumed ==
    IF Resumes(image.mode) THEN image.mode
    ELSE (image.mode \cap {"CHECK_SEND"}) \cup {"STOP_SEND"}

(* The daemon dies and init_para restores the words of the last copy: what   *)
(* was commanded or edited after it is lost.  It clears words 400 .. 499,    *)
(* BACKUP_* and CALIBRATION_RUN_TIME among them, and the outputs, and counts *)
(* the time that passed since the copy as incubation.                       *)
Restart ==
    /\ restarts > 0 /\ restarts' = restarts - 1
    /\ pc' = "sys" /\ preInit' = TRUE /\ counting' = TRUE
    /\ backup' = NoBackup /\ calTime' = 0 /\ outputs' = "off"
    /\ ticked' = FALSE
    /\ \E d \in 0 .. MaxNow : now' = Least(now + d, MaxNow) /\ run' = RunAfter(now + d)
    /\ pre' = image.pre
    /\ mode' = Resumed
    /\ UNCHANGED <<image, maxRun, display>>

Next == Main \/ Tick \/ Display \/ Save \/ Restart

Spec == Init /\ [][Next]_vars

(* The main loop never ends and the timer never stops; the operator and the *)
(* power owe nothing.                                                       *)
FairSpec == Spec /\ WF_vars(Main) /\ WF_vars(Tick)

-----------------------------------------------------------------------------
(* The variables hold values the words can hold. *)
TypeOK ==
    /\ pc \in Blocks
    /\ mode \in SUBSET Words
    /\ pre \in [start : Nat, stop : Nat]
    /\ preInit \in BOOLEAN
    /\ backup \in [mode : SUBSET Words, preInit : BOOLEAN,
                   pre : [start : Nat, stop : Nat]]
    /\ outputs \in Outputs
    /\ now \in Nat /\ run \in Nat /\ maxRun \in MaxRuns
    /\ counting \in BOOLEAN /\ calTime \in Nat
    /\ image \in [mode : SUBSET Words, pre : [start : Nat, stop : Nat],
                  run : Nat, at : Nat]
    /\ ticked \in BOOLEAN /\ restarts \in Nat
    /\ display \in [writes : Nat, kinds : SUBSET Kinds]

(* The machine is in one mode at a time: whatever the operator presses and  *)
(* wherever the daemon restarts, two acknowledge words are never ON         *)
(* together, also not after calibration restored the words it saved.        *)
OneMode == \A a, b \in RecvWords \cap mode : a = b

(* Calibration saves a mode to come back to, never calibration itself: a    *)
(* second entry (a command taken while calibrating) does not save itself.   *)
BackupIsNotCalibration == backup.mode \cap {"CHECK_SEND", "CHECK_RECV"} = {}

(* When the loop waits in stop mode the heating and humidity outputs are    *)
(* off, however stop mode was reached: by the button, by default, after a   *)
(* restart, or restored by calibration with a preheat window pending.       *)
StoppedIsOff == pc = "idle" /\ "STOP_RECV" \in mode => outputs = "off"

(* The incubation clock never stands still in start mode. *)
StartedCounts == pc = "idle" /\ "START_RECV" \in mode => counting

(* As long as the display writes no 0 into the window, a machine in preheat  *)
(* mode knows when to leave it, also after calibration took the window away  *)
(* and gave it back.                                                         *)
PreheatHasWindow ==
    "PRE_RECV" \in mode => pre.start # 0 /\ pre.stop # 0

(* Without a preheat window nothing is driven in calibration, whatever mode  *)
(* it was entered from and whatever was pressed meanwhile, as long as the    *)
(* display writes no 0 into a window (then it heats until the mode ends).    *)
CalibrationIsCold ==
    "CHECK_RECV" \in mode /\ pre = NoWindow => outputs = "off"

(* The promise of ModeSwitch: each change of the mode has its cause,         *)
(* calibration gives back mode and window as they were when it was entered,   *)
(* whatever is pressed between its two steps and the blocks of the loop, and *)
(* a restart resumes what the last copy held or nothing.                     *)
DoingIn(m) ==
    IF "CHECK_RECV" \in m THEN "calibration" ELSE IF "START_RECV" \in m THEN "start"
    ELSE IF "STOP_RECV" \in m THEN "stop" ELSE IF "PRE_RECV" \in m THEN "preheat"
    ELSE "none"

(* Calibration begins with what it saves: a window written before its second *)
(* step is lost.                                                             *)
Calibrating == pc = "calset" \/ "CHECK_RECV" \in mode
Doing == IF Calibrating THEN "calibration" ELSE DoingIn(mode)
Window == IF pc = "calset" THEN NoWindow ELSE pre
Held == IF Calibrating
        THEN [doing |-> DoingIn(backup.mode), window |-> backup.pre]
        ELSE [doing |-> "none", window |-> NoWindow]

Kept == [doing |-> DoingIn(image.mode), window |-> image.pre,
         run |-> image.run, at |-> image.at]

Switch == INSTANCE ModeSwitch WITH doing <- Doing, window <- Window, held <- Held,
              kept <- Kept, limit <- maxRun
ModesSpec == Switch!Spec

(* Heating that is left driven without a mode (the end of an incubation,    *)
(* with commands pressed in between) is switched off or owned again.        *)
Driving == "START_RECV" \in mode \/ "PRE_RECV" \in mode
OrphanHeatEnds == outputs # "off" /\ ~Driving ~> outputs = "off" \/ Driving

(* An incubation that reached the allowed maximum is reset to second 0,     *)
(* whatever the operator presses in between.                                *)
OverdueIsReset == run >= maxRun ~> run < maxRun

(* Preheat ends, also with the clock set back, with calibration in between   *)
(* or after a restart, unless the window is edited to a reversed or an       *)
(* over-long one.                                                            *)
Improper == pre.start # 0 /\ pre.stop # 0 /\ ~PreheatActive
PreheatEnds == "PRE_RECV" \in mode ~> "PRE_RECV" \notin mode \/ Improper

(* When the operator switches calibration off, it ends (or he switches it   *)
(* on again).                                                               *)
ClickEndsCalibration ==
    "CHECK_RECV" \in mode /\ "CHECK_SEND" \notin mode
        ~> "CHECK_RECV" \notin mode \/ "CHECK_SEND" \in mode

(* jincubator.cpp:10601 "calibration mode - released by its timer": with    *)
(* finitely many commands the machine leaves calibration for good.          *)
TimerEndsCalibration == <>[]("CHECK_RECV" \notin mode)
=============================================================================
