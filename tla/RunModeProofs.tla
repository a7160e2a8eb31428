---------------------------- MODULE RunModeProofs ----------------------------
(***************************************************************************)
(* Machine-checked proofs about RunMode, for every value of its constants.  *)
(* The safety properties are not inductive: what calibration saved decides  *)
(* what the machine will be, so the invariant speaks about the saved mode   *)
(* too, and about R_PRE_STATUS, which decides whether a preheat window       *)
(* takes the mode away before it drives an output.                          *)
(***************************************************************************)
EXTENDS RunMode, TLAPS

AfterRun == {"stop", "halt", "preheat", "init", "calib", "calset", "timed",
             "click", "default", "defset", "idle"}
AfterHalt == AfterRun \ {"stop", "halt"}

OneSavedMode == \A a, b \in RecvWords \cap backup.mode : a = b

(* A restart resumes one mode at most. *)
OneKeptMode == \A a, b \in RecvWords \cap image.mode : a = b

(* Once the stop block ran, stop mode means: outputs off, and a preheat     *)
(* window would begin with its initialisation (and so leave stop mode).     *)
StopHolds == "STOP_RECV" \in mode /\ pc \in AfterHalt => outputs = "off" /\ preInit

StartHolds == "START_RECV" \in mode /\ pc \in AfterRun => counting /\ preInit

(* The same of a mode that calibration saved and will restore. *)
Saving == "CHECK_RECV" \in mode \/ pc = "calset"
SavedStopHolds ==
    Saving /\ "STOP_RECV" \in backup.mode =>
        backup.preInit /\ preInit /\ outputs = "off"
SavedStartHolds ==
    Saving /\ "START_RECV" \in backup.mode => backup.preInit /\ preInit /\ counting

IInv ==
    /\ TypeOK /\ OneMode /\ OneSavedMode /\ OneKeptMode /\ BackupIsNotCalibration
    /\ StopHolds /\ StartHolds /\ SavedStopHolds /\ SavedStartHolds

-----------------------------------------------------------------------------
(* The first state of the machine satisfies the invariant. *)
LEMMA InitIInv == Init => IInv
<1> SUFFICES ASSUME Init PROVE IInv
    OBVIOUS
<1> USE BoundsAssumption DEF Init, NoBackup, NoWindow, Copy
<1>1. TypeOK
  <2>1. display \in [writes : Nat, kinds : SUBSET Kinds] /\ restarts \in Nat
    OBVIOUS
  <2> QED BY <2>1 DEF TypeOK, Blocks, Words, RecvWords, Outputs
<1>2. OneMode /\ OneSavedMode /\ OneKeptMode /\ BackupIsNotCalibration
  BY DEF OneMode, OneSavedMode, OneKeptMode, BackupIsNotCalibration, RecvWords
<1>3. StopHolds /\ StartHolds
  BY DEF StopHolds, StartHolds, AfterRun, AfterHalt
<1>4. SavedStopHolds /\ SavedStartHolds
  BY DEF SavedStopHolds, SavedStartHolds, Saving
<1> QED
  BY <1>1, <1>2, <1>3, <1>4 DEF IInv

(* The words a block switches on are mode words. *)
LEMMA WordsOn ==
    /\ {} \in SUBSET Words
    /\ {"START_RECV"} \in SUBSET Words /\ {"STOP_RECV"} \in SUBSET Words
    /\ {"PRE_RECV"} \in SUBSET Words /\ {"START_SEND"} \in SUBSET Words
    /\ {"STOP_SEND"} \in SUBSET Words /\ {"INIT_SEND"} \in SUBSET Words
    /\ {"CHECK_SEND", "CHECK_RECV"} \in SUBSET Words
    /\ Pressed \subseteq Words
BY DEF Pressed, Words, RecvWords

(* set_run_mode writes mode words. *)
LEMMA SetRunModeType ==
    ASSUME mode \in SUBSET Words, NEW m \in SUBSET Words, SetRunMode(m)
    PROVE  mode' \in SUBSET Words
BY DEF SetRunMode

(* The cleared preheat window and the cleared backup are well typed. *)
LEMMA NoWindowType ==
    /\ NoWindow \in [start : Nat, stop : Nat]
    /\ NoBackup \in [mode : SUBSET Words, preInit : BOOLEAN,
                     pre : [start : Nat, stop : Nat]]
BY WordsOn DEF NoWindow, NoBackup

(* Every step of the machine keeps the types. *)
LEMMA TypeInvariance == TypeOK /\ [Next]_vars => TypeOK'
<1> SUFFICES ASSUME TypeOK, [Next]_vars PROVE TypeOK'
    OBVIOUS
<1> USE BoundsAssumption, WordsOn, SetRunModeType, NoWindowType
    DEF TypeOK, Blocks, Outputs, At, Others, Clocks
<1>1. CASE SysTime         BY <1>1 DEF SysTime
<1>2. CASE StartCommand    BY <1>2 DEF StartCommand
<1>3. CASE StartRun        BY <1>3 DEF StartRun
<1>4. CASE StopCommand     BY <1>4 DEF StopCommand
<1>5. CASE StopRun         BY <1>5 DEF StopRun
<1>6. CASE Preheat
  <2>1. CASE PreheatRun     BY <1>6, <2>1 DEF Preheat, PreheatRun
  <2>2. CASE PreheatOver    BY <1>6, <2>2 DEF Preheat, PreheatOver
  <2>3. CASE PreheatEmpty   BY <1>6, <2>3 DEF Preheat, PreheatEmpty
  <2>4. CASE PreheatIgnored BY <1>6, <2>4 DEF Preheat, PreheatIgnored
  <2> QED BY <1>6, <2>1, <2>2, <2>3, <2>4 DEF Preheat
<1>7. CASE InitCommand
  <2>1. mode' \in SUBSET Words BY <1>7 DEF InitCommand
  <2>2. run' \in Nat /\ counting' \in BOOLEAN
    <3>1. CASE "INIT_SEND" \in mode
      <4>1. run' = 0 /\ counting' = TRUE BY <1>7, <3>1 DEF InitCommand
      <4> QED BY <4>1
    <3>2. CASE "INIT_SEND" \notin mode
      <4>1. run' = run /\ counting' = counting BY <1>7, <3>2 DEF InitCommand
      <4> QED BY <4>1
    <3> QED BY <3>1, <3>2
  <2>3. pc' = "calib" /\ UNCHANGED <<pre, preInit, backup, outputs, now, maxRun,
                                     calTime, Others>>
    BY <1>7 DEF InitCommand
  <2> QED BY <2>1, <2>2, <2>3
<1>8. CASE CalibrationBackup
  <2>1. OperationMode \in SUBSET Words
    BY DEF OperationMode
  <2> QED BY <1>8, <2>1 DEF CalibrationBackup
<1>9. CASE CalibrationEnter BY <1>9 DEF CalibrationEnter
<1>10. CASE CalibrationTimeout BY <1>10 DEF CalibrationTimeout, Restore
<1>11. CASE CalibrationClick BY <1>11 DEF CalibrationClick, Restore
<1>12. CASE DefaultRead    BY <1>12 DEF DefaultRead
<1>13. CASE DefaultStop    BY <1>13 DEF DefaultStop
<1>14. CASE Wait           BY <1>14 DEF Wait
<1>15. CASE Tick           BY <1>15 DEF Tick, CountDown, Least
<1>16. CASE Display
  <2>1. CASE \E w \in Pressed : Command(w) BY <2>1, WordsOn DEF Command, Writes, Pressed, Words
  <2>2. CASE EndCheck       BY <2>2 DEF EndCheck, Writes
  <2>3. CASE SetWindow      BY <2>3, WindowAssumption DEF SetWindow, Writes
  <2>4. CASE Settings       BY <2>4 DEF Settings, Writes
  <2> QED BY <1>16, <2>1, <2>2, <2>3, <2>4 DEF Display
<1>17. CASE Restart
  <2>1. mode' \in SUBSET Words BY <1>17 DEF Restart, Resumed
  <2>2. PICK d \in 0 .. MaxNow : now' = Least(now + d, MaxNow) /\ run' = RunAfter(now + d)
    BY <1>17 DEF Restart
  <2>3. now' \in Nat BY <2>2 DEF Least
  <2>4. run' \in Nat BY <2>2 DEF RunAfter, Least
  <2>5. restarts' \in Nat BY <1>17 DEF Restart
  <2>6. /\ pc' = "sys" /\ preInit' = TRUE /\ counting' = TRUE
        /\ backup' = NoBackup /\ calTime' = 0 /\ outputs' = "off"
        /\ ticked' = FALSE /\ pre' = image.pre /\ UNCHANGED <<image, maxRun, display>>
    BY <1>17 DEF Restart
  <2> QED BY <2>1, <2>3, <2>4, <2>5, <2>6
<1>18. CASE Save           BY <1>18 DEF Save, Copy
<1>19. CASE UNCHANGED vars BY <1>19 DEF vars
<1> QED
  BY <1>1, <1>2, <1>3, <1>4, <1>5, <1>6, <1>7, <1>8, <1>9, <1>10, <1>11, <1>12,
     <1>13, <1>14, <1>15, <1>16, <1>17, <1>18, <1>19 DEF Next, Main

-----------------------------------------------------------------------------
(* Only Save writes the copy, with the present words. *)
LEMMA ImageOnly == [Next]_vars => image' = image \/ image' = Copy(mode, pre, run, now)
<1> SUFFICES ASSUME [Next]_vars PROVE image' = image \/ image' = Copy(mode, pre, run, now)
    OBVIOUS
<1>1. CASE Main
  BY <1>1 DEF Main, Others, Clocks, SysTime, StartCommand, StartRun, StopCommand, StopRun,
              Preheat, InitCommand, CalibrationBackup, CalibrationEnter,
              CalibrationTimeout, CalibrationClick, DefaultRead, DefaultStop, Wait
<1>2. CASE Tick            BY <1>2 DEF Tick
<1>3. CASE Display         BY <1>3 DEF Display, Command, EndCheck, SetWindow, Settings
<1>4. CASE Save            BY <1>4 DEF Save
<1>5. CASE Restart         BY <1>5 DEF Restart
<1>6. CASE UNCHANGED vars  BY <1>6 DEF vars
<1> QED BY <1>1, <1>2, <1>3, <1>4, <1>5, <1>6 DEF Next

(* A copy holds one mode, as the machine does. *)
LEMMA KeptInvariance == OneMode /\ OneKeptMode /\ [Next]_vars => OneKeptMode'
<1> SUFFICES ASSUME OneMode, OneKeptMode, [Next]_vars PROVE OneKeptMode'
    OBVIOUS
<1>1. image'.mode = image.mode \/ image'.mode = mode BY ImageOnly DEF Copy
<1> QED BY <1>1 DEF OneMode, OneKeptMode

-----------------------------------------------------------------------------
(* A set with one acknowledge word among its words keeps OneMode when        *)
(* set_run_mode writes it.                                                  *)
LEMMA SetRunModeOne ==
    ASSUME NEW m, SetRunMode(m), \A a, b \in RecvWords \cap m : a = b
    PROVE  OneMode'
BY DEF SetRunMode, OneMode, RecvWords

(* Fewer words keep it too. *)
LEMMA FewerWordsOne == ASSUME OneMode, mode' \subseteq mode PROVE OneMode'
BY DEF OneMode

(* The words a block writes contain one acknowledge word at most. *)
LEMMA OneWritten ==
    ASSUME NEW m \in { {"START_RECV"}, {"STOP_RECV"}, {"PRE_RECV"}, {"START_SEND"},
                       {"STOP_SEND"}, {"INIT_SEND"}, {"CHECK_SEND", "CHECK_RECV"} }
    PROVE  \A a, b \in RecvWords \cap m : a = b
BY DEF RecvWords

ModeInv == OneMode /\ OneSavedMode /\ BackupIsNotCalibration

(* Every step keeps one mode and one saved mode, and the saved one is not   *)
(* calibration: only CalibrationBackup writes it, without these words.      *)
LEMMA ModeInvariance == TypeOK /\ ModeInv /\ OneKeptMode /\ [Next]_vars => ModeInv'
<1> SUFFICES ASSUME TypeOK, ModeInv, OneKeptMode, [Next]_vars PROVE ModeInv'
    OBVIOUS
<1> USE SetRunModeOne, FewerWordsOne, OneWritten DEF ModeInv
<1>a. ASSUME backup' = backup PROVE OneSavedMode' /\ BackupIsNotCalibration'
  BY <1>a DEF OneSavedMode, BackupIsNotCalibration
<1>b. ASSUME mode' = mode PROVE OneMode'
  BY <1>b
<1>c. ASSUME Restore PROVE OneMode'
  BY <1>c DEF Restore, OneSavedMode
<1>1. CASE SysTime         BY <1>1, <1>a, <1>b DEF SysTime
<1>2. CASE StartCommand    BY <1>2, <1>a, <1>b DEF StartCommand
<1>3. CASE StartRun        BY <1>3, <1>a, <1>b DEF StartRun
<1>4. CASE StopCommand     BY <1>4, <1>a, <1>b DEF StopCommand
<1>5. CASE StopRun         BY <1>5, <1>a, <1>b DEF StopRun
<1>6. CASE Preheat
  BY <1>6, <1>a, <1>b DEF Preheat, PreheatRun, PreheatOver, PreheatEmpty,
                          PreheatIgnored
<1>7. CASE InitCommand     BY <1>7, <1>a DEF InitCommand
<1>8. CASE CalibrationBackup
  <2>1. OneMode' BY <1>8, <1>b DEF CalibrationBackup
  <2>2. CASE pc' = "timed" /\ backup' = backup BY <2>1, <2>2, <1>a
  <2>3. CASE backup' = [mode |-> OperationMode, preInit |-> preInit, pre |-> pre]
    <3>1. backup'.mode = OperationMode BY <2>3
    <3>2. OneSavedMode' BY <3>1 DEF OneSavedMode, OneMode, OperationMode
    <3>3. BackupIsNotCalibration' BY <3>1 DEF BackupIsNotCalibration, OperationMode
    <3> QED BY <2>1, <3>2, <3>3
  <2> QED BY <1>8, <2>2, <2>3 DEF CalibrationBackup
<1>9. CASE CalibrationEnter BY <1>9, <1>a DEF CalibrationEnter, Clocks, Others
<1>10. CASE CalibrationTimeout BY <1>10, <1>a, <1>b, <1>c DEF CalibrationTimeout
<1>11. CASE CalibrationClick BY <1>11, <1>a, <1>b, <1>c DEF CalibrationClick
<1>12. CASE DefaultRead    BY <1>12, <1>a, <1>b DEF DefaultRead
<1>13. CASE DefaultStop    BY <1>13, <1>a DEF DefaultStop
<1>14. CASE Wait           BY <1>14, <1>a, <1>b DEF Wait
<1>15. CASE Tick           BY <1>15, <1>a, <1>b DEF Tick
<1>16. CASE Display
  <2>1. ASSUME NEW w \in Pressed, Command(w) PROVE ModeInv'
    <3>1. w \notin RecvWords BY DEF Pressed, RecvWords
    <3>2. OneMode' BY <2>1, <3>1 DEF Command, OneMode
    <3> QED BY <2>1, <3>2, <1>a DEF Command
  <2>2. CASE EndCheck BY <2>2, <1>a DEF EndCheck
  <2>3. CASE SetWindow BY <2>3, <1>a, <1>b DEF SetWindow
  <2>4. CASE Settings  BY <2>4, <1>a, <1>b DEF Settings
  <2> QED BY <1>16, <2>1, <2>2, <2>3, <2>4 DEF Display
<1>17. CASE Restart
  <2>1. mode' = image.mode \/ mode' = (image.mode \cap {"CHECK_SEND"}) \cup {"STOP_SEND"}
    BY <1>17 DEF Restart, Resumed
  <2>0. OneMode' BY <2>1 DEF OneMode, OneKeptMode, RecvWords
  <2>2. backup'.mode = {} BY <1>17 DEF Restart, NoBackup
  <2>3. OneSavedMode' /\ BackupIsNotCalibration'
    BY <2>2 DEF OneSavedMode, BackupIsNotCalibration
  <2> QED BY <2>0, <2>3
<1>18. CASE Save           BY <1>18, <1>a, <1>b DEF Save
<1>19. CASE UNCHANGED vars BY <1>19, <1>a, <1>b DEF vars
<1> QED
  BY <1>1, <1>2, <1>3, <1>4, <1>5, <1>6, <1>7, <1>8, <1>9, <1>10, <1>11, <1>12,
     <1>13, <1>14, <1>15, <1>16, <1>17, <1>18, <1>19 DEF Next, Main

-----------------------------------------------------------------------------
Holds == StopHolds /\ StartHolds /\ SavedStopHolds /\ SavedStartHolds

(* What stop mode and start mode promise, now and when calibration restores *)
(* them, survives every step.                                               *)
LEMMA HoldsInvariance == TypeOK /\ ModeInv /\ Holds /\ [Next]_vars => Holds'
<1> SUFFICES ASSUME TypeOK, ModeInv, Holds, [Next]_vars PROVE Holds'
    OBVIOUS
<1> USE DEF ModeInv, OneMode, OneSavedMode, BackupIsNotCalibration, Holds,
            StopHolds, StartHolds, SavedStopHolds, SavedStartHolds, Saving,
            AfterRun, AfterHalt, RecvWords, SetRunMode, At, Clocks, Others
<1>1. CASE SysTime         BY <1>1 DEF SysTime
<1>2. CASE StartCommand    BY <1>2 DEF StartCommand
<1>3. CASE StartRun        BY <1>3 DEF StartRun
<1>4. CASE StopCommand     BY <1>4 DEF StopCommand
<1>5. CASE StopRun         BY <1>5 DEF StopRun
<1>6. CASE Preheat
  <2>1. CASE PreheatRun     BY <1>6, <2>1 DEF Preheat, PreheatRun
  <2>2. CASE PreheatOver    BY <1>6, <2>2 DEF Preheat, PreheatOver
  <2>3. CASE PreheatEmpty   BY <1>6, <2>3 DEF Preheat, PreheatEmpty
  <2>4. CASE PreheatIgnored BY <1>6, <2>4 DEF Preheat, PreheatIgnored
  <2> QED BY <1>6, <2>1, <2>2, <2>3, <2>4 DEF Preheat
<1>7. CASE InitCommand     BY <1>7 DEF InitCommand
<1>8. CASE CalibrationBackup BY <1>8 DEF CalibrationBackup, OperationMode
<1>9. CASE CalibrationEnter BY <1>9 DEF CalibrationEnter
<1>10. CASE CalibrationTimeout BY <1>10 DEF CalibrationTimeout, Restore
<1>11. CASE CalibrationClick BY <1>11 DEF CalibrationClick, Restore
<1>12. CASE DefaultRead    BY <1>12 DEF DefaultRead
<1>13. CASE DefaultStop    BY <1>13 DEF DefaultStop
<1>14. CASE Wait           BY <1>14 DEF Wait
<1>15. CASE Tick           BY <1>15 DEF Tick
<1>16. CASE Display
  <2>1. CASE \E w \in Pressed : Command(w) BY <2>1 DEF Command, Writes, Pressed
  <2>2. CASE EndCheck       BY <2>2 DEF EndCheck
  <2>3. CASE SetWindow      BY <2>3 DEF SetWindow
  <2>4. CASE Settings       BY <2>4 DEF Settings
  <2> QED BY <1>16, <2>1, <2>2, <2>3, <2>4 DEF Display
<1>17. CASE Restart        BY <1>17 DEF Restart, NoBackup
<1>18. CASE Save           BY <1>18 DEF Save
<1>19. CASE UNCHANGED vars BY <1>19 DEF vars
<1> QED
  BY <1>1, <1>2, <1>3, <1>4, <1>5, <1>6, <1>7, <1>8, <1>9, <1>10, <1>11, <1>12,
     <1>13, <1>14, <1>15, <1>16, <1>17, <1>18, <1>19 DEF Next, Main

-----------------------------------------------------------------------------
(* The inductive invariant holds in every reachable state. *)
LEMMA Invariance == Spec => []IInv
<1>1. IInv /\ [Next]_vars => IInv'
  BY TypeInvariance, ModeInvariance, KeptInvariance, HoldsInvariance
     DEF IInv, ModeInv, Holds
<1> QED
  BY <1>1, InitIInv, PTL DEF Spec

(* Type correctness of the mode machine. *)
THEOREM TypeCorrect == Spec => []TypeOK
<1>1. IInv => TypeOK
  BY DEF IInv
<1> QED
  BY <1>1, Invariance, PTL

(* Whatever is pressed, counted or restarted, one mode at a time. *)
THEOREM ModesExclusive == Spec => []OneMode
<1>1. IInv => OneMode
  BY DEF IInv
<1> QED
  BY <1>1, Invariance, PTL

(* Calibration never saves itself as the mode to return to. *)
THEOREM BackupSound == Spec => []BackupIsNotCalibration
<1>1. IInv => BackupIsNotCalibration
  BY DEF IInv
<1> QED
  BY <1>1, Invariance, PTL

(* In stop mode, a loop that waits has switched the outputs off. *)
THEOREM StopSafe == Spec => []StoppedIsOff
<1>1. IInv => StoppedIsOff
  BY DEF IInv, StopHolds, StoppedIsOff, AfterHalt, AfterRun
<1> QED
  BY <1>1, Invariance, PTL

(* In start mode, a loop that waits counts the incubation. *)
THEOREM StartCounts == Spec => []StartedCounts
<1>1. IInv => StartedCounts
  BY DEF IInv, StartHolds, StartedCounts, AfterRun
<1> QED
  BY <1>1, Invariance, PTL

-----------------------------------------------------------------------------
(* In preheat mode the window is set, and so is the one that calibration    *)
(* gives back with it; calibration without a window drives nothing.          *)
SavedWindow ==
    "PRE_RECV" \in backup.mode => backup.pre.start # 0 /\ backup.pre.stop # 0
WindowHolds == PreheatHasWindow /\ SavedWindow /\ CalibrationIsCold

(* A copy taken in preheat mode holds its window too. *)
KeptWindow ==
    "PRE_RECV" \in image.mode => image.pre.start # 0 /\ image.pre.stop # 0

LEMMA KeptWindowInvariance ==
    PreheatHasWindow /\ KeptWindow /\ [Next]_vars => KeptWindow'
<1> SUFFICES ASSUME PreheatHasWindow, KeptWindow, [Next]_vars PROVE KeptWindow'
    OBVIOUS
<1>1. \/ image'.mode = image.mode /\ image'.pre = image.pre
      \/ image'.mode = mode /\ image'.pre = pre
  BY ImageOnly DEF Copy
<1> QED BY <1>1 DEF KeptWindow, PreheatHasWindow

(* Windows are cleared with the mode only, as long as the display writes no *)
(* 0 into them.                                                             *)
LEMMA WindowInvariance ==
    ASSUME 0 \notin Starts, 0 \notin Stops
    PROVE  TypeOK /\ ModeInv /\ WindowHolds /\ KeptWindow /\ [Next]_vars => WindowHolds'
<1> SUFFICES ASSUME TypeOK, ModeInv, WindowHolds, KeptWindow, [Next]_vars
             PROVE  WindowHolds'
    OBVIOUS
<1> USE DEF ModeInv, OneMode, BackupIsNotCalibration, WindowHolds, PreheatHasWindow,
            SavedWindow, CalibrationIsCold, RecvWords, SetRunMode
<1>1. CASE SysTime         BY <1>1 DEF SysTime
<1>2. CASE StartCommand    BY <1>2 DEF StartCommand
<1>3. CASE StartRun        BY <1>3 DEF StartRun
<1>4. CASE StopCommand     BY <1>4 DEF StopCommand
<1>5. CASE StopRun         BY <1>5 DEF StopRun
<1>6. CASE Preheat
  <2>1. CASE PreheatRun
    <3>1. pre.start # 0 /\ pre.stop # 0 /\ pre # NoWindow
      BY <2>1 DEF PreheatRun, PreheatActive, NoWindow
    <3>2. mode' = mode \/ mode' = (mode \cap {"CHECK_SEND"}) \cup {"PRE_RECV"}
      BY <2>1 DEF PreheatRun
    <3>3. UNCHANGED <<pre, backup>> BY <1>6, <2>1 DEF Preheat, PreheatRun
    <3> QED BY <3>1, <3>2, <3>3
  <2>2. CASE PreheatOver    BY <1>6, <2>2 DEF Preheat, PreheatOver
  <2>3. CASE PreheatEmpty   BY <1>6, <2>3 DEF Preheat, PreheatEmpty
  <2>4. CASE PreheatIgnored BY <1>6, <2>4 DEF Preheat, PreheatIgnored
  <2> QED BY <1>6, <2>1, <2>2, <2>3, <2>4 DEF Preheat
<1>7. CASE InitCommand
  <2>1. mode' \subseteq mode /\ UNCHANGED <<pre, backup, outputs>>
    BY <1>7 DEF InitCommand
  <2> QED BY <2>1
<1>8. CASE CalibrationBackup
  <2>1. UNCHANGED <<mode, pre, outputs>> BY <1>8 DEF CalibrationBackup
  <2>2. CASE backup' = backup BY <2>1, <2>2
  <2>3. CASE backup' = [mode |-> OperationMode, preInit |-> preInit, pre |-> pre]
    <3>1. backup'.mode \subseteq mode /\ backup'.pre = pre
      BY <2>3 DEF OperationMode
    <3> QED BY <2>1, <3>1
  <2> QED BY <1>8, <2>2, <2>3 DEF CalibrationBackup
<1>9. CASE CalibrationEnter BY <1>9 DEF CalibrationEnter
<1>10. CASE CalibrationTimeout BY <1>10 DEF CalibrationTimeout, Restore
<1>11. CASE CalibrationClick BY <1>11 DEF CalibrationClick, Restore
<1>12. CASE DefaultRead    BY <1>12 DEF DefaultRead
<1>13. CASE DefaultStop    BY <1>13 DEF DefaultStop
<1>14. CASE Wait           BY <1>14 DEF Wait
<1>15. CASE Tick           BY <1>15 DEF Tick
<1>16. CASE Display
  <2>1. CASE \E w \in Pressed : Command(w) BY <2>1 DEF Command, Writes, Pressed
  <2>2. CASE EndCheck       BY <2>2 DEF EndCheck
  <2>3. CASE SetWindow
    <3>1. UNCHANGED <<mode, backup, outputs>> BY <2>3 DEF SetWindow
    <3>2. CASE \E t \in Starts : pre' = [pre EXCEPT !.start = t]
      <4>1. pre'.start # 0 /\ pre'.stop = pre.stop BY <3>2 DEF TypeOK
      <4> QED BY <3>1, <4>1 DEF NoWindow
    <3>3. CASE \E t \in Stops : pre' = [pre EXCEPT !.stop = t]
      <4>1. pre'.stop # 0 /\ pre'.start = pre.start BY <3>3 DEF TypeOK
      <4> QED BY <3>1, <4>1 DEF NoWindow
    <3> QED BY <2>3, <3>2, <3>3 DEF SetWindow
  <2>4. CASE Settings       BY <2>4 DEF Settings
  <2> QED BY <1>16, <2>1, <2>2, <2>3, <2>4 DEF Display
<1>17. CASE Restart
  <2>1. mode' = image.mode \/ mode' = (image.mode \cap {"CHECK_SEND"}) \cup {"STOP_SEND"}
    BY <1>17 DEF Restart, Resumed
  <2>2. pre' = image.pre /\ backup'.mode = {} /\ outputs' = "off"
    BY <1>17 DEF Restart, NoBackup
  <2> QED BY <2>1, <2>2 DEF KeptWindow
<1>18. CASE Save           BY <1>18 DEF Save
<1>19. CASE UNCHANGED vars BY <1>19 DEF vars
<1> QED
  BY <1>1, <1>2, <1>3, <1>4, <1>5, <1>6, <1>7, <1>8, <1>9, <1>10, <1>11, <1>12,
     <1>13, <1>14, <1>15, <1>16, <1>17, <1>18, <1>19 DEF Next, Main

(* At the start there is no window and no mode that needs one. *)
LEMMA InitWindow == Init => WindowHolds /\ KeptWindow
BY DEF Init, WindowHolds, PreheatHasWindow, SavedWindow, CalibrationIsCold, NoBackup,
       KeptWindow, Copy

(* With windows free of 0, every reachable state keeps what they promise. *)
LEMMA WindowsHold ==
    ASSUME 0 \notin Starts, 0 \notin Stops
    PROVE  Spec => [](WindowHolds /\ KeptWindow)
<1>1. IInv => TypeOK /\ ModeInv BY DEF IInv, ModeInv
<1>2. TypeOK /\ ModeInv /\ WindowHolds /\ KeptWindow /\ [Next]_vars
        => WindowHolds' /\ KeptWindow'
  BY WindowInvariance, KeptWindowInvariance DEF WindowHolds
<1> QED BY <1>1, <1>2, InitWindow, Invariance, PTL DEF Spec

(* Preheat, reached by its window, given back by calibration or resumed by   *)
(* a restart, always has both ends of the window.                           *)
THEOREM PreheatKeepsWindow ==
    ASSUME 0 \notin Starts, 0 \notin Stops
    PROVE  Spec => []PreheatHasWindow
<1>1. WindowHolds => PreheatHasWindow BY DEF WindowHolds
<1> QED BY <1>1, WindowsHold, PTL

(* Calibration without a preheat window drives no output. *)
THEOREM CalibrationCold ==
    ASSUME 0 \notin Starts, 0 \notin Stops
    PROVE  Spec => []CalibrationIsCold
<1>1. WindowHolds => CalibrationIsCold BY DEF WindowHolds
<1> QED BY <1>1, WindowsHold, PTL
-----------------------------------------------------------------------------
(* The refinement of ModeSwitch.  Between the two steps of entering          *)
(* calibration the saved mode is still the mode, and between the two of the   *)
(* default mode no acknowledgement comes; time stops at its bound.           *)
EnteringHolds ==
    pc = "calset" => /\ "CHECK_RECV" \notin mode
                     /\ backup.mode \cap RecvWords = mode \cap RecvWords
DefaultHolds == pc = "defset" => mode \cap RecvWords = {}
SwitchInv == EnteringHolds /\ DefaultHolds /\ run <= MaxSecond
KeptRun == image.run <= MaxSecond

LEMMA KeptRunInvariance == SwitchInv /\ KeptRun /\ [Next]_vars => KeptRun'
<1> SUFFICES ASSUME SwitchInv, KeptRun, [Next]_vars PROVE KeptRun'
    OBVIOUS
<1>1. image'.run = image.run \/ image'.run = run BY ImageOnly DEF Copy
<1> QED BY <1>1 DEF KeptRun, SwitchInv

(* No step but the main loop writes an acknowledgement, except a restart,    *)
(* which begins a new pass.                                                  *)
LEMMA SwitchInvariance == TypeOK /\ SwitchInv /\ KeptRun /\ [Next]_vars => SwitchInv'
<1> SUFFICES ASSUME TypeOK, SwitchInv, KeptRun, [Next]_vars PROVE SwitchInv'
    OBVIOUS
<1> USE BoundsAssumption DEF SwitchInv, EnteringHolds, DefaultHolds, RecvWords, At, Clocks, Others
<1>1. CASE SysTime         BY <1>1 DEF SysTime
<1>2. CASE StartCommand    BY <1>2 DEF StartCommand
<1>3. CASE StartRun        BY <1>3 DEF StartRun
<1>4. CASE StopCommand     BY <1>4 DEF StopCommand
<1>5. CASE StopRun         BY <1>5 DEF StopRun
<1>6. CASE Preheat
  BY <1>6 DEF Preheat, PreheatRun, PreheatOver, PreheatEmpty, PreheatIgnored
<1>7. CASE InitCommand
  <2>1. pc' = "calib" /\ (run' = run \/ run' = 0) BY <1>7 DEF InitCommand
  <2> QED BY <2>1 DEF TypeOK
<1>8. CASE CalibrationBackup
  <2>1. CASE pc' = "timed" BY <1>8, <2>1 DEF CalibrationBackup
  <2>2. CASE pc' = "calset"
    <3>1. /\ "CHECK_RECV" \notin mode /\ UNCHANGED <<mode, run>>
          /\ backup' = [mode |-> OperationMode, preInit |-> preInit, pre |-> pre]
      BY <1>8, <2>2 DEF CalibrationBackup
    <3>2. backup'.mode \cap RecvWords = mode \cap RecvWords
      BY <3>1 DEF OperationMode
    <3> QED BY <2>2, <3>1, <3>2
  <2> QED BY <1>8, <2>1, <2>2 DEF CalibrationBackup
<1>9. CASE CalibrationEnter BY <1>9 DEF CalibrationEnter
<1>10. CASE CalibrationTimeout BY <1>10 DEF CalibrationTimeout
<1>11. CASE CalibrationClick BY <1>11 DEF CalibrationClick
<1>12. CASE DefaultRead    BY <1>12 DEF DefaultRead
<1>13. CASE DefaultStop    BY <1>13 DEF DefaultStop
<1>14. CASE Wait           BY <1>14 DEF Wait
<1>15. CASE Tick
  <2>1. run' <= MaxSecond BY <1>15 DEF Tick, Least, TypeOK
  <2> QED BY <1>15, <2>1 DEF Tick
<1>16. CASE Display
  <2>1. CASE \E w \in Pressed : Command(w) BY <2>1 DEF Command, Writes, Pressed
  <2>2. CASE EndCheck       BY <2>2 DEF EndCheck
  <2>3. CASE SetWindow      BY <2>3 DEF SetWindow
  <2>4. CASE Settings       BY <2>4 DEF Settings
  <2> QED BY <1>16, <2>1, <2>2, <2>3, <2>4 DEF Display
<1>17. CASE Restart
  <2>1. run' <= MaxSecond BY <1>17 DEF Restart, RunAfter, Least, KeptRun, TypeOK
  <2> QED BY <1>17, <2>1 DEF Restart
<1>18. CASE Save           BY <1>18 DEF Save
<1>19. CASE UNCHANGED vars BY <1>19 DEF vars
<1> QED
  BY <1>1, <1>2, <1>3, <1>4, <1>5, <1>6, <1>7, <1>8, <1>9, <1>10, <1>11, <1>12,
     <1>13, <1>14, <1>15, <1>16, <1>17, <1>18, <1>19 DEF Next, Main

(* Only the acknowledgements tell what the machine does. *)
LEMMA DoingInRecv ==
    ASSUME NEW m, NEW n, m \cap RecvWords = n \cap RecvWords
    PROVE  DoingIn(m) = DoingIn(n)
<1>1. \A w \in RecvWords : w \in m <=> w \in n OBVIOUS
<1> QED BY <1>1 DEF DoingIn, RecvWords

(* What the words that set_run_mode is given make the machine do. *)
LEMMA DoingValues ==
    /\ DoingIn({"START_RECV"}) = "start" /\ DoingIn({"STOP_RECV"}) = "stop"
    /\ DoingIn({"PRE_RECV"}) = "preheat"
    /\ \A w \in {"START_SEND", "STOP_SEND", "INIT_SEND"} : DoingIn({w}) = "none"
    /\ DoingIn({}) = "none"
BY DEF DoingIn

(* set_run_mode makes the machine do what the words say, if they are not     *)
(* those of calibration.                                                     *)
LEMMA SetRunModeDoes ==
    ASSUME NEW m, SetRunMode(m), pc' # "calset", "CHECK_RECV" \notin m
    PROVE  /\ Doing' = DoingIn(m) /\ Window' = pre'
           /\ Held' = [doing |-> "none", window |-> NoWindow]
<1>1. mode' \cap RecvWords = m \cap RecvWords BY DEF SetRunMode, RecvWords
<1>2. "CHECK_RECV" \notin mode' BY DEF SetRunMode
<1>3. DoingIn(mode') = DoingIn(m) BY <1>1, DoingInRecv
<1>4. ~Calibrating' BY <1>2 DEF Calibrating
<1> QED BY <1>3, <1>4 DEF Doing, Window, Held

(* A step that leaves the acknowledgements, what is saved and the window.    *)
LEMMA SameDoing ==
    ASSUME mode' \cap RecvWords = mode \cap RecvWords, backup' = backup,
           pc' = "calset" <=> pc = "calset"
    PROVE  Doing' = Doing /\ Held' = Held /\ (pre' = pre => Window' = Window)
<1>1. DoingIn(mode') = DoingIn(mode) BY DoingInRecv
<1>2. Calibrating' = Calibrating BY DEF Calibrating, RecvWords
<1> QED BY <1>1, <1>2 DEF Doing, Held, Window

(* A step that leaves modes and window alone is a step of the promise or     *)
(* none, if it leaves the clocks too or resets the incubation.               *)
Still == /\ Doing' = Doing /\ Held' = Held /\ Window' = Window
         /\ now' = now /\ maxRun' = maxRun /\ Kept' = Kept /\ run' \in {run, 0}

LEMMA StillSwitches == Still => [Switch!Next]_(Switch!vars)
BY DEF Still, Switch!Next, Switch!Reset, Switch!vars

(* Every step of the main loop, the timer, the display and a restart is a    *)
(* step that ModeSwitch allows, or none.                                     *)
LEMMA StepSwitches ==
    IInv /\ SwitchInv /\ KeptRun /\ [Next]_vars => [Switch!Next]_(Switch!vars)
<1> SUFFICES ASSUME IInv, SwitchInv, KeptRun, [Next]_vars
             PROVE  [Switch!Next]_(Switch!vars)
    OBVIOUS
<1>k. image' = image => Kept' = Kept BY DEF Kept
<1> USE <1>k DEF At, Clocks, Others
<1>a. "CHECK_RECV" \notin backup.mode /\ mode \in SUBSET Words /\ pc \in Blocks
  BY DEF IInv, BackupIsNotCalibration, TypeOK
<1>b. ASSUME mode' = mode, backup' = backup, pre' = pre,
             pc' = "calset" <=> pc = "calset",
             now' = now, maxRun' = maxRun, image' = image, run' \in {run, 0}
      PROVE  [Switch!Next]_(Switch!vars)
  BY <1>b, SameDoing, StillSwitches DEF Still
<1>c. ASSUME Restore, pc \in {"timed", "click"}, pc' # "calset", "CHECK_RECV" \in mode,
             UNCHANGED <<now, run, maxRun, image>>
      PROVE  [Switch!Next]_(Switch!vars)
  <2>1. /\ Doing' = DoingIn(backup.mode) /\ Window' = backup.pre
        /\ Held' = [doing |-> "none", window |-> NoWindow]
    BY <1>a, <1>c, SetRunModeDoes DEF Restore
  <2>2. Doing = "calibration" /\ Held = [doing |-> DoingIn(backup.mode), window |-> backup.pre]
    BY <1>c DEF Doing, Held, Calibrating
  <2>3. Switch!Release
    BY <1>c, <2>1, <2>2 DEF Switch!Release, Switch!Become, Switch!Nothing, Switch!NoWindow, NoWindow
  <2> QED BY <2>3 DEF Switch!Next
<1>1. CASE SysTime
  <2>1. CASE run >= maxRun
    <3>1. SetRunMode({"INIT_SEND"}) /\ pc' = "start" /\ pc = "sys"
      BY <1>1, <2>1 DEF SysTime
    <3>2. /\ Doing' = "none" /\ Window' = pre' /\ Window = pre
          /\ Held' = [doing |-> "none", window |-> NoWindow]
      BY <3>1, SetRunModeDoes, DoingValues DEF Window
    <3>3. Switch!Limit
      BY <1>1, <2>1, <3>2 DEF SysTime, Switch!Limit, Switch!Become, Switch!Nothing,
                              Switch!NoWindow, NoWindow
    <3> QED BY <3>3 DEF Switch!Next
  <2>2. CASE ~(run >= maxRun) BY <1>1, <2>2, <1>b DEF SysTime
  <2> QED BY <2>1, <2>2
<1>2. CASE StartCommand
  <2>1. CASE "START_SEND" \in mode
    <3>1. SetRunMode({"START_RECV"}) /\ pc' = "run" /\ pre' = NoWindow
      BY <1>2, <2>1 DEF StartCommand
    <3>2. /\ Doing' = "start" /\ Window' = NoWindow
          /\ Held' = [doing |-> "none", window |-> NoWindow]
      BY <3>1, SetRunModeDoes, DoingValues
    <3>3. Switch!Take("start")
      BY <1>2, <3>2 DEF StartCommand, Switch!Take, Switch!Become, Switch!Nothing,
                        Switch!NoWindow, NoWindow
    <3> QED BY <3>3 DEF Switch!Next
  <2>2. CASE "START_SEND" \notin mode BY <1>2, <2>2, <1>b DEF StartCommand
  <2> QED BY <2>1, <2>2
<1>3. CASE StartRun        BY <1>3, <1>b DEF StartRun
<1>4. CASE StopCommand
  <2>1. CASE "STOP_SEND" \in mode
    <3>1. SetRunMode({"STOP_RECV"}) /\ pc' = "halt" /\ pre' = NoWindow
      BY <1>4, <2>1 DEF StopCommand
    <3>2. /\ Doing' = "stop" /\ Window' = NoWindow
          /\ Held' = [doing |-> "none", window |-> NoWindow]
      BY <3>1, SetRunModeDoes, DoingValues
    <3>3. Switch!Take("stop")
      BY <1>4, <3>2 DEF StopCommand, Switch!Take, Switch!Become, Switch!Nothing,
                        Switch!NoWindow, NoWindow
    <3> QED BY <3>3 DEF Switch!Next
  <2>2. CASE "STOP_SEND" \notin mode BY <1>4, <2>2, <1>b DEF StopCommand
  <2> QED BY <2>1, <2>2
<1>5. CASE StopRun         BY <1>5, <1>b DEF StopRun
<1>6. CASE Preheat
  <2> USE DEF Switch!Become, Switch!Nothing, Switch!NoWindow, NoWindow
  <2>1. pc = "preheat" /\ pc' = "init" /\ Window = pre /\ UNCHANGED <<backup, now, maxRun, image>>
    BY <1>6 DEF Preheat, Window
  <2>2. CASE PreheatRun
    <3>1. CASE ~preInit BY <2>1, <2>2, <3>1, <1>b DEF PreheatRun
    <3>2. CASE preInit
      <4>1. SetRunMode({"PRE_RECV"}) /\ pre' = pre /\ run' = run
        BY <2>2, <3>2 DEF PreheatRun
      <4>2. /\ Doing' = "preheat" /\ Window' = Window
            /\ Held' = [doing |-> "none", window |-> NoWindow]
        BY <2>1, <4>1, SetRunModeDoes, DoingValues
      <4>3. Switch!Warm
        BY <2>1, <2>2, <4>1, <4>2 DEF PreheatRun, PreheatActive, Switch!Warm, Switch!Proper
      <4> QED BY <4>3 DEF Switch!Next
    <3> QED BY <3>1, <3>2
  <2>3. CASE PreheatOver
    <3>1. SetRunMode({"START_SEND"}) /\ pre' = NoWindow /\ run' = 0
      BY <2>3 DEF PreheatOver
    <3>2. /\ Doing' = "none" /\ Window' = NoWindow
          /\ Held' = [doing |-> "none", window |-> NoWindow]
      BY <2>1, <3>1, SetRunModeDoes, DoingValues
    <3>3. Switch!WarmOver
      BY <2>1, <2>3, <3>1, <3>2 DEF PreheatOver, PreheatActive, Switch!WarmOver, Switch!Proper
    <3> QED BY <3>3 DEF Switch!Next
  <2>4. CASE PreheatEmpty
    <3>1. SetRunMode({"STOP_SEND"}) /\ pre' = NoWindow /\ run' = run
      BY <2>4 DEF PreheatEmpty
    <3>2. /\ Doing' = "none" /\ Window' = NoWindow
          /\ Held' = [doing |-> "none", window |-> NoWindow]
      BY <2>1, <3>1, SetRunModeDoes, DoingValues
    <3>3. Switch!WindowEmpty
      BY <2>1, <2>4, <3>1, <3>2 DEF PreheatEmpty, Switch!WindowEmpty
    <3> QED BY <3>3 DEF Switch!Next
  <2>5. CASE PreheatIgnored BY <2>1, <2>5, <1>b DEF PreheatIgnored
  <2> QED BY <1>6, <2>2, <2>3, <2>4, <2>5 DEF Preheat
<1>7. CASE InitCommand
  <2>1. /\ mode' \cap RecvWords = mode \cap RecvWords
        /\ run' = run \/ run' = 0
        /\ pc = "init" /\ pc' = "calib" /\ UNCHANGED <<pre, backup, now, maxRun, image>>
    BY <1>7 DEF InitCommand, RecvWords
  <2>2. Still BY <2>1, SameDoing DEF Still
  <2> QED BY <2>2, StillSwitches
<1>8. CASE CalibrationBackup
  <2>1. CASE pc' = "timed"
    <3>1. backup' = backup BY <1>8, <2>1 DEF CalibrationBackup
    <3> QED BY <1>8, <2>1, <3>1, <1>b DEF CalibrationBackup
  <2>2. CASE pc' = "calset"
    <3>1. /\ "CHECK_RECV" \notin mode /\ pc = "calib"
          /\ backup' = [mode |-> OperationMode, preInit |-> preInit, pre |-> pre]
          /\ UNCHANGED <<mode, pre, now, run, maxRun, image>>
      BY <1>8, <2>2 DEF CalibrationBackup
    <3>2. DoingIn(backup'.mode) = DoingIn(mode)
      <4>1. OperationMode \cap RecvWords = mode \cap RecvWords
        BY <3>1 DEF OperationMode, RecvWords
      <4>2. DoingIn(OperationMode) = DoingIn(mode) BY <4>1, DoingInRecv
      <4> QED BY <3>1, <4>2
    <3>3. Doing = DoingIn(mode) /\ Doing # "calibration" /\ Window = pre
      BY <3>1 DEF Doing, Calibrating, DoingIn, Window
    <3>4. /\ Doing' = "calibration" /\ Window' = NoWindow
          /\ Held' = [doing |-> DoingIn(backup'.mode), window |-> pre]
      BY <2>2, <3>1 DEF Doing, Held, Window, Calibrating
    <3>5. Switch!Calibrate
      BY <3>1, <3>2, <3>3, <3>4 DEF Switch!Calibrate, Switch!NoWindow, NoWindow
    <3> QED BY <3>5 DEF Switch!Next
  <2> QED BY <1>8, <2>1, <2>2 DEF CalibrationBackup
<1>9. CASE CalibrationEnter
  <2>1. /\ pc = "calset" /\ pc' = "timed" /\ "CHECK_RECV" \in mode' /\ pre' = NoWindow
        /\ UNCHANGED <<backup, now, run, maxRun, image>>
    BY <1>9 DEF CalibrationEnter, SetRunMode
  <2>2. Still BY <2>1 DEF Still, Doing, Held, Window, Calibrating
  <2> QED BY <2>2, StillSwitches
<1>10. CASE CalibrationTimeout BY <1>10, <1>b, <1>c DEF CalibrationTimeout
<1>11. CASE CalibrationClick BY <1>11, <1>b, <1>c DEF CalibrationClick
<1>12. CASE DefaultRead    BY <1>12, <1>b DEF DefaultRead
<1>13. CASE DefaultStop
  <2>1. pc = "defset" /\ pc' = "idle" /\ mode \cap RecvWords = {}
        /\ UNCHANGED <<pre, backup, now, run, maxRun, image>>
    BY <1>13 DEF DefaultStop, SwitchInv, DefaultHolds
  <2>2. mode' \cap RecvWords = {}
    BY <1>13, <2>1 DEF DefaultStop, SetRunMode, RecvWords
  <2>3. Still BY <2>1, <2>2, SameDoing DEF Still
  <2> QED BY <2>3, StillSwitches
<1>14. CASE Wait           BY <1>14, <1>b DEF Wait
<1>15. CASE Tick
  <2>1. Doing' = Doing /\ Held' = Held /\ Window' = Window BY <1>15, SameDoing DEF Tick
  <2>2. now' \in Nat /\ run' \in Nat /\ run' >= run /\ UNCHANGED <<maxRun, image>>
    BY <1>15, BoundsAssumption DEF Tick, Least, IInv, TypeOK, SwitchInv
  <2>3. Switch!Pass BY <2>1, <2>2 DEF Switch!Pass
  <2> QED BY <2>3 DEF Switch!Next
<1>16. CASE Display
  <2>1. ASSUME NEW w \in Pressed, Command(w) PROVE [Switch!Next]_(Switch!vars)
    <3>1. mode' \cap RecvWords = mode \cap RecvWords
      BY <2>1 DEF Command, Writes, Pressed, RecvWords
    <3>2. Still BY <2>1, <3>1, SameDoing DEF Command, Still
    <3> QED BY <3>2, StillSwitches
  <2>2. CASE EndCheck
    <3>1. mode' \cap RecvWords = mode \cap RecvWords BY <2>2 DEF EndCheck, RecvWords
    <3>2. Still BY <2>2, <3>1, SameDoing DEF EndCheck, Still
    <3> QED BY <3>2, StillSwitches
  <2>3. CASE SetWindow
    <3>1. UNCHANGED <<pc, mode, backup, now, run, maxRun, image>> BY <2>3 DEF SetWindow
    <3>2. Doing' = Doing /\ Held' = Held BY <3>1, SameDoing
    <3>3. CASE pc = "calset"
      <4>1. Still BY <3>1, <3>2, <3>3 DEF Still, Window
      <4> QED BY <4>1, StillSwitches
    <3>4. CASE pc # "calset"
      <4>1. pre' \in [start : Nat, stop : Nat] BY TypeInvariance DEF IInv, TypeOK
      <4>2. Switch!Edit
        BY <3>1, <3>2, <3>4, <4>1 DEF Switch!Edit, Switch!Windows, Window
      <4> QED BY <4>2 DEF Switch!Next
    <3> QED BY <3>3, <3>4
  <2>4. CASE Settings
    <3>1. Doing' = Doing /\ Held' = Held /\ Window' = Window
      BY <2>4, SameDoing DEF Settings
    <3>2. now' \in Nat BY TypeInvariance DEF IInv, TypeOK
    <3>3. run \in Nat /\ UNCHANGED <<run, maxRun, image>>
      BY <2>4 DEF Settings, IInv, TypeOK
    <3>4. Switch!Pass BY <3>1, <3>2, <3>3 DEF Switch!Pass
    <3> QED BY <3>4 DEF Switch!Next
  <2> QED BY <1>16, <2>1, <2>2, <2>3, <2>4 DEF Display
<1>17. CASE Restart
  <2>1. /\ pc' = "sys" /\ pre' = image.pre /\ maxRun' = maxRun /\ image' = image
        /\ mode' = Resumed
    BY <1>17 DEF Restart
  <2>2. PICK d \in 0 .. MaxNow : now' = Least(now + d, MaxNow) /\ run' = RunAfter(now + d)
    BY <1>17 DEF Restart
  <2>3. image.run \in Nat /\ image.at \in Nat /\ now \in Nat /\ image.pre \in Switch!Windows
    BY DEF IInv, TypeOK, Switch!Windows
  <2>4. now' \in Nat /\ run' \in Nat BY TypeInvariance DEF IInv, TypeOK
  <2>5. run' >= image.run \/ now' < image.at
    <3>1. CASE now + d >= image.at
      BY <2>2, <2>3, <3>1, BoundsAssumption DEF RunAfter, Least, KeptRun
    <3>2. CASE now + d < image.at
      BY <2>2, <2>3, <3>2, BoundsAssumption DEF Least
    <3> QED BY <2>3, <3>1, <3>2
  <2>6. /\ Held' = [doing |-> "none", window |-> NoWindow] /\ Window' = image.pre
        /\ Doing' \in {"none"} \cup ({"start", "preheat"} \cap {DoingIn(image.mode)})
    <3>1. CASE Resumes(image.mode)
      <4>1. mode' = image.mode BY <2>1, <3>1 DEF Resumed
      <4>2. \/ image.mode \cap RecvWords = {"START_RECV"}
            \/ image.mode \cap RecvWords = {"PRE_RECV"}
        BY <3>1 DEF Resumes, IInv, OneKeptMode, RecvWords
      <4>3. DoingIn(image.mode) \in {"start", "preheat"} /\ "CHECK_RECV" \notin image.mode
        BY <4>2 DEF DoingIn, RecvWords
      <4> QED BY <2>1, <4>1, <4>3 DEF Doing, Held, Window, Calibrating
    <3>2. CASE ~Resumes(image.mode)
      <4>1. mode' \cap RecvWords = {} BY <2>1, <3>2 DEF Resumed, RecvWords
      <4>2. DoingIn(mode') = "none" BY <4>1 DEF DoingIn, RecvWords
      <4>3. "CHECK_RECV" \notin mode' BY <4>1 DEF RecvWords
      <4> QED BY <2>1, <4>2, <4>3 DEF Doing, Held, Window, Calibrating
    <3> QED BY <3>1, <3>2
  <2>7. Switch!PowerCut
    BY <2>1, <2>3, <2>4, <2>5, <2>6 DEF Switch!PowerCut, Switch!Nothing,
       Switch!NoWindow, Kept, NoWindow
  <2> QED BY <2>7 DEF Switch!Next
<1>18. CASE Save
  <2>1. /\ UNCHANGED <<pc, mode, pre, backup, now, run, maxRun>>
        /\ image' = Copy(mode, pre, run, now)
    BY <1>18 DEF Save, Clocks
  <2>2. Doing' = Doing /\ Held' = Held /\ Window' = Window
    BY <2>1 DEF Doing, Held, Window, Calibrating
  <2>3. Kept' = [doing |-> DoingIn(mode), window |-> pre, run |-> run, at |-> now]
    BY <2>1 DEF Kept, Copy
  <2>4. \/ DoingIn(mode) = Doing /\ pre = Window
        \/ /\ Doing = "calibration" /\ DoingIn(mode) = Held.doing
           /\ pre \in Switch!Windows
    <3>1. CASE pc = "calset"
      <4>1. DoingIn(backup.mode) = DoingIn(mode)
        BY <3>1, DoingInRecv DEF SwitchInv, EnteringHolds
      <4>2. pre \in Switch!Windows BY DEF IInv, TypeOK, Switch!Windows
      <4> QED BY <3>1, <4>1, <4>2 DEF Doing, Held, Calibrating
    <3>2. CASE pc # "calset"
      BY <3>2 DEF Doing, Window, Calibrating, DoingIn
    <3> QED BY <3>1, <3>2
  <2>5. Switch!Keep BY <2>1, <2>2, <2>3, <2>4 DEF Switch!Keep
  <2> QED BY <2>5 DEF Switch!Next
<1>19. CASE UNCHANGED vars BY <1>19, <1>b DEF vars
<1> QED
  BY <1>1, <1>2, <1>3, <1>4, <1>5, <1>6, <1>7, <1>8, <1>9, <1>10, <1>11, <1>12,
     <1>13, <1>14, <1>15, <1>16, <1>17, <1>18, <1>19 DEF Next, Main

(* The blocks of the main loop keep the promise of ModeSwitch.               *)
THEOREM RunModeImplementsSwitch == Spec => ModesSpec
<1>1. Init => SwitchInv /\ KeptRun
  BY BoundsAssumption DEF Init, SwitchInv, EnteringHolds, DefaultHolds, KeptRun, Copy
<1>2. Init => Switch!Init
  <2> SUFFICES ASSUME Init PROVE Switch!Init
      OBVIOUS
  <2>1. mode = {"STOP_SEND"} /\ pc = "sys" /\ pre = NoWindow /\ run = 0 BY DEF Init
  <2>2. ~Calibrating BY <2>1 DEF Calibrating
  <2>3. Doing = "none" BY <2>1, <2>2, DoingValues DEF Doing
  <2>4. Kept = [doing |-> "none", window |-> NoWindow, run |-> 0, at |-> now]
    BY <2>1, DoingValues DEF Init, Copy, Kept
  <2> QED
    BY <2>1, <2>2, <2>3, <2>4 DEF Held, Window, Switch!Init, Switch!Nothing,
                                  Switch!NoWindow, NoWindow
<1>3. IInv /\ SwitchInv /\ KeptRun /\ [Next]_vars => SwitchInv' /\ KeptRun'
  BY SwitchInvariance, KeptRunInvariance DEF IInv
<1> QED
  BY <1>1, <1>2, <1>3, StepSwitches, Invariance, PTL DEF Spec, ModesSpec, Switch!Spec
=============================================================================
