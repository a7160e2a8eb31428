------------------------------- MODULE Motor -------------------------------
(***************************************************************************)
(* The synchronous fan motor: the main loop writes a command word           *)
(* (S_SYNC_MOTOR_CONTROL_CMD) from the mode, the door switch and the status  *)
(* the drive reported, and the motor thread (synchronous_motor_func) sends   *)
(* it over a serial line until a valid answer comes, reads the status back   *)
(* and passes the running frequency on.  Requests and answers are lost,      *)
(* damaged or delayed; an answer that comes after the buffer was flushed     *)
(* for the next request is taken for the answer to that one.                 *)
(*                                                                         *)
(* An exchange over the line is one step: while a command is on its way the  *)
(* main loop does not touch the word, and the status is read by it only.     *)
(***************************************************************************)
EXTENDS Integers

CONSTANTS
    Alarmed,    \* failures in a row that show the line as lost: 10
    Wrap,       \* failures at which the count starts again at Alarmed: 65535
    Freqs,      \* frequencies the temperature control may ask for
    MaxChanges, \* bound: changes of mode, door and line, and trips of the drive
    MaxDelays,  \* bound: answers that come too late
    MaxRestarts \* bound: restarts of the daemon

ASSUME MotorAssumption ==
    /\ Alarmed \in Nat \ {0} /\ Wrap \in Nat /\ Alarmed < Wrap
    /\ Freqs \subseteq Nat \ {0}
    /\ MaxChanges \in Nat /\ MaxDelays \in Nat /\ MaxRestarts \in Nat

VARIABLES
    mode,    \* "run" (start or preheat), "stop", "enter" and "check" (calibration)
    door,    \* DETECT_DOOR_SWITCH
    asked,   \* the frequency that fits the temperature
    cmd,     \* S_SYNC_MOTOR_CONTROL_CMD: "none", "start" (1), "stop" (2)
    para,    \* R_SYNC_MOTOR_CONTROL_PARA: "zero", "turning" (1, 2), "still" (3), "other"
    freq,    \* S_SYNC_MOTOR_CONTROLRUN_FREQ
    oldFreq, \* shm_old of it: the frequency sent last
    faults,  \* the bits of R_SYNC_MOTOR_CONNECT_STATUS that are ON
    fails,   \* i_alarm_status: failed status reads in a row
    pc,      \* the part of the motor thread that comes next
    turning, speed, \* the drive
    line,    \* whether the serial line works
    late,    \* an answer that is still on its way
    changes, delays, restarts \* what may still happen

surroundings == <<mode, door, asked, line, changes, restarts>>
vars == <<mode, door, asked, cmd, para, freq, oldFreq, faults, fails, pc, turning, speed, line,
          late, changes, delays, restarts>>

NoAnswer == [func |-> 0, value |-> "zero"]
Written == [func |-> 6, value |-> "zero"]
Read(v) == [func |-> 3, value |-> v]
Statuses == {"zero", "turning", "still", "other"}
Answers == {NoAnswer, Written} \cup {Read(v) : v \in Statuses}
Bits == {"start", "stop", "para", "freq", "current"}

Init ==
    /\ mode \in {"run", "stop"} /\ door \in BOOLEAN /\ line \in BOOLEAN
    /\ asked \in Freqs /\ turning \in BOOLEAN /\ speed = 0
    /\ cmd = "none" /\ para = "zero" /\ freq = 0 /\ oldFreq = 0 /\ faults = {}
    /\ fails = 0 /\ pc = "start" /\ late = NoAnswer
    /\ changes = MaxChanges /\ delays = MaxDelays /\ restarts = MaxRestarts

-----------------------------------------------------------------------------
(* The main loop. *)

(* Faulty variant: the command is written over one that was not sent yet. *)
CommandAnyway(c) == cmd' = c

(* set_val(S_SYNC_MOTOR_CONTROL_CMD, c), only when the last one is done.  The *)
(* fault bits of R_SYNC_MOTOR_CONTROL_FAULT are never read from the drive.    *)
Give(c) == cmd' = IF cmd = "none" THEN c ELSE cmd

StopMotor == IF para # "still" THEN Give("stop") ELSE cmd' = cmd

(* The door switch is ON while the door is closed. *)
RunMotor ==
    IF door
    THEN IF para = "still" THEN Give("start") ELSE cmd' = cmd
    ELSE StopMotor

RunPass == mode = "run" /\ RunMotor /\ freq' = asked /\ UNCHANGED mode

StopPass == mode = "stop" /\ StopMotor /\ UNCHANGED <<freq, mode>>

(* Calibration looks at motor and door once, when it is entered. *)
EnterCheck == mode = "enter" /\ RunMotor /\ mode' = "check" /\ UNCHANGED freq

Main ==
    /\ RunPass \/ StopPass \/ EnterCheck
    /\ UNCHANGED <<door, asked, para, oldFreq, faults, fails, pc, turning, speed, line, late,
                   changes, delays, restarts>>

-----------------------------------------------------------------------------
(* The motor thread.  An exchange ends with what the thread reads as the     *)
(* answer, whether the drive got the request, and what is left on the line.  *)
Exchange(got, answer, left) == [got |-> got, answer |-> answer, left |-> left]

OnTime(own) == IF line THEN {Exchange(TRUE, own, NoAnswer)} ELSE {}
Broken == IF line THEN {} ELSE {Exchange(g, NoAnswer, NoAnswer) : g \in BOOLEAN}
Delayed(own) == IF ~line /\ delays > 0 THEN {Exchange(TRUE, NoAnswer, own)} ELSE {}
Overtaken ==
    IF late # NoAnswer THEN {Exchange(g, late, NoAnswer) : g \in {TRUE, line}} ELSE {}
(* ... and its own answer comes too late in turn. *)
Shifted(own) ==
    IF late # NoAnswer /\ delays > 0 THEN {Exchange(TRUE, late, own)} ELSE {}
Exchanges(own) ==
    OnTime(own) \cup Broken \cup Delayed(own) \cup Overtaken \cup Shifted(own)

Step(a, b) == pc = a /\ pc' = b

Transfer(x) ==
    late' = x.left /\ delays' = IF x.left # NoAnswer THEN delays - 1 ELSE delays

Flag(bit, ok) == faults' = IF ok THEN faults \ {bit} ELSE faults \cup {bit}

(* Faulty variant: the word is not cleared when the command went through. *)
SendKept(c, on) ==
    IF cmd = c
    THEN \E x \in Exchanges(Written) :
           /\ turning' = IF x.got THEN on ELSE turning
           /\ Flag(c, x.answer.func = 6) /\ cmd' = cmd /\ Transfer(x)
    ELSE UNCHANGED <<turning, faults, cmd, late, delays>>

(* Faulty variant: the word is cleared whatever was read. *)
SendUnanswered(c, on) ==
    IF cmd = c
    THEN \E x \in Exchanges(Written) :
           /\ turning' = IF x.got THEN on ELSE turning
           /\ Flag(c, x.answer.func = 6) /\ cmd' = "none" /\ Transfer(x)
    ELSE UNCHANGED <<turning, faults, cmd, late, delays>>

(* Sending the command c: the word is cleared by an answer with the number   *)
(* and function of the request and a correct checksum, else it stays.        *)
Send(c, on) ==
    IF cmd = c
    THEN \E x \in Exchanges(Written) :
           /\ turning' = IF x.got THEN on ELSE turning
           /\ Flag(c, x.answer.func = 6)
           /\ cmd' = IF x.answer.func = 6 THEN "none" ELSE cmd
           /\ Transfer(x)
    ELSE UNCHANGED <<turning, faults, cmd, late, delays>>

SendStart ==
    /\ Step("start", "stop") /\ Send("start", TRUE)
    /\ UNCHANGED <<para, freq, oldFreq, fails, speed, surroundings>>

SendStop ==
    /\ Step("stop", "para") /\ Send("stop", FALSE)
    /\ UNCHANGED <<para, freq, oldFreq, fails, speed, surroundings>>

(* Faulty variant: the count starts again at 0. *)
MoreFailsFromZero == IF fails + 1 >= Wrap THEN 0 ELSE fails + 1

MoreFails == IF fails + 1 >= Wrap THEN Alarmed ELSE fails + 1

(* Faulty variant: a good answer does not reset the count. *)
ReadParaCounting ==
    /\ Step("para", "freq")
    /\ \E x \in Exchanges(Read(IF turning THEN "turning" ELSE "still")) :
         /\ Transfer(x)
         /\ IF x.answer.func = 3
            THEN para' = x.answer.value /\ fails' = fails /\ Flag("para", TRUE)
            ELSE para' = para /\ fails' = MoreFails /\ Flag("para", MoreFails < Alarmed)
    /\ UNCHANGED <<cmd, freq, oldFreq, turning, speed, surroundings>>

ReadPara ==
    /\ Step("para", "freq")
    /\ \E x \in Exchanges(Read(IF turning THEN "turning" ELSE "still")) :
         /\ Transfer(x)
         /\ IF x.answer.func = 3
            THEN para' = x.answer.value /\ fails' = 0 /\ Flag("para", TRUE)
            ELSE para' = para /\ fails' = MoreFails /\ Flag("para", MoreFails < Alarmed)
    /\ UNCHANGED <<cmd, freq, oldFreq, turning, speed, surroundings>>

(* The frequency is remembered as sent, then taken a second time and sent.   *)
RememberFreq ==
    /\ pc = "freq"
    /\ IF freq # oldFreq /\ freq # 0
       THEN oldFreq' = freq /\ pc' = "send"
       ELSE oldFreq' = oldFreq /\ pc' = "current"
    /\ UNCHANGED <<cmd, para, freq, faults, fails, turning, speed, late, delays,
                   surroundings>>

SendFreq ==
    /\ Step("send", "current")
    /\ \E x \in Exchanges(Written) :
         /\ speed' = IF x.got THEN freq ELSE speed
         /\ Flag("freq", x.answer.func = 6)
         /\ Transfer(x)
    /\ UNCHANGED <<cmd, para, freq, oldFreq, fails, turning, surroundings>>

(* Only the display uses the value of R_SYNC_MOTOR_CURRENT_FREQ. *)
ReadCurrent ==
    /\ Step("current", "start")
    /\ \E x \in Exchanges(Read("other")) :
         Flag("current", x.answer.func = 3) /\ Transfer(x)
    /\ UNCHANGED <<cmd, para, freq, oldFreq, fails, turning, speed, surroundings>>

Thread ==
    SendStart \/ SendStop \/ ReadPara \/ RememberFreq \/ SendFreq \/ ReadCurrent

-----------------------------------------------------------------------------
(* The surroundings: mode changes (see RunMode), the door, the line and a    *)
(* drive that stops by itself.  The temperature asks for another frequency.  *)
Change ==
    /\ changes > 0 /\ changes' = changes - 1
    /\ \/ mode' \in {"run", "stop", "enter"} \ {mode} /\ UNCHANGED <<door, asked, line, turning>>
       \/ door' = ~door /\ UNCHANGED <<mode, asked, line, turning>>
       \/ line' = ~line /\ UNCHANGED <<mode, door, asked, turning>>
       \/ turning /\ turning' = FALSE /\ UNCHANGED <<mode, door, asked, line>>
       \/ asked' \in Freqs \ {asked} /\ UNCHANGED <<mode, door, line, turning>>
    /\ UNCHANGED <<cmd, para, freq, oldFreq, faults, fails, pc, speed, late, delays,
                   restarts>>

(* init_para clears words 240 to 246 and shm_old and restores the mode of a  *)
(* backup, which may be an earlier one; the drive keeps turning.             *)
Restart ==
    /\ restarts > 0 /\ restarts' = restarts - 1
    /\ cmd' = "none" /\ para' = "zero" /\ freq' = 0 /\ oldFreq' = 0 /\ faults' = {}
    /\ fails' = 0 /\ pc' = "start"
    /\ mode' \in {"run", "stop"}
    /\ UNCHANGED <<door, asked, turning, speed, line, late, changes, delays>>

Next == Main \/ Thread \/ Change \/ Restart

(* Both threads run for ever; line, door, drive and operator owe nothing.    *)
Spec == Init /\ [][Next]_vars /\ WF_vars(Main) /\ WF_vars(Thread)

-----------------------------------------------------------------------------
(* Every word keeps its type and the count of failures its range. *)
TypeOK ==
    /\ mode \in {"run", "stop", "enter", "check"} /\ door \in BOOLEAN
    /\ asked \in Freqs /\ cmd \in {"none", "start", "stop"} /\ para \in Statuses
    /\ freq \in Freqs \cup {0} /\ oldFreq \in Freqs \cup {0} /\ speed \in Freqs \cup {0}
    /\ faults \subseteq Bits /\ fails \in 0 .. Wrap - 1
    /\ pc \in {"start", "stop", "para", "freq", "send", "current"}
    /\ turning \in BOOLEAN /\ line \in BOOLEAN /\ late \in Answers
    /\ changes \in Nat /\ delays \in Nat /\ restarts \in Nat

(* The two command bits of R_SYNC_MOTOR_CONNECT_STATUS tell the truth: a bit *)
(* that is ON belongs to the command that is still waiting to go through, so *)
(* a failure never stays shown after its command was obeyed or replaced.     *)
FaultIsPending == /\ "start" \in faults => cmd = "start"
                  /\ "stop" \in faults => cmd = "stop"

(* The line is shown as lost exactly after Alarmed failed reads in a row,    *)
(* also when the count of failures wraps.                                    *)
LostAfterFails == "para" \in faults <=> fails >= Alarmed

Off == mode = "stop" \/ (mode = "run" /\ ~door)

(* With a line that works again, a motor that must not turn is stopped for   *)
(* good: in stop mode or with the door open, also when a start command was   *)
(* still waiting, a late answer acknowledged the wrong command, the drive    *)
(* was never read since a restart, or the daemon was started meanwhile.  And *)
(* one that must turn does, also after the drive tripped.                    *)
MotorObeys ==
    /\ <>[](Off /\ line) => <>[]~turning
    /\ <>[](mode = "run" /\ door /\ line) => <>[]turning

(* The promise of MotorDrive: a command is given up only when the drive has  *)
(* taken it, against a late answer, one for one, or by a restart; and the    *)
(* drive turns only because a start command was waiting.                     *)
Strays == delays + IF late = NoAnswer THEN 0 ELSE 1
Drive == INSTANCE MotorDrive WITH wanted <- cmd, strays <- Strays, MaxStrays <- MaxDelays
DriveSpec == Drive!Spec

(* A line that stays dead is shown and stays shown, one that works is not.   *)
LossIsShown == /\ <>[]~line => <>[]("para" \in faults)
               /\ <>[]line => <>[](faults \subseteq {"freq"})
=============================================================================
