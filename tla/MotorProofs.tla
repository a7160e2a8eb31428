---------------------------- MODULE MotorProofs ----------------------------
(***************************************************************************)
(* Proofs about the motor thread and the main loop that commands it, for    *)
(* every number of failures, set of frequencies and number of changes,      *)
(* delayed answers and restarts.  The three conjuncts are inductive          *)
(* together: a command bit is only written while its command waits, and the *)
(* main loop only gives a command when none waits.                           *)
(***************************************************************************)
EXTENDS Motor, TLAPS

IInv == TypeOK /\ FaultIsPending /\ LostAfterFails

(* What may be read as the answer to a request, and what stays on the line.  *)
LEMMA ExchangesTyped ==
    ASSUME TypeOK, NEW own \in Answers, NEW x \in Exchanges(own)
    PROVE  /\ x.got \in BOOLEAN /\ x.answer \in Answers /\ x.left \in Answers
           /\ x.left # NoAnswer => delays > 0
<1>1. NoAnswer \in Answers BY DEF Answers
<1>2. CASE x \in OnTime(own)
  <2>1. x = Exchange(TRUE, own, NoAnswer) BY <1>2 DEF OnTime
  <2> QED BY <1>1, <2>1 DEF Exchange
<1>3. CASE x \in Broken
  <2>1. PICK g \in BOOLEAN : x = Exchange(g, NoAnswer, NoAnswer) BY <1>3 DEF Broken
  <2> QED BY <1>1, <2>1 DEF Exchange
<1>4. CASE x \in Delayed(own)
  <2>1. x = Exchange(TRUE, NoAnswer, own) /\ delays > 0 BY <1>4 DEF Delayed
  <2> QED BY <1>1, <2>1 DEF Exchange
<1>5. CASE x \in Overtaken
  <2>1. PICK g \in {TRUE, line} : x = Exchange(g, late, NoAnswer) BY <1>5 DEF Overtaken
  <2>2. g \in BOOLEAN /\ late \in Answers BY DEF TypeOK
  <2> QED BY <1>1, <2>1, <2>2 DEF Exchange
<1>6. CASE x \in Shifted(own)
  <2>1. x = Exchange(TRUE, late, own) /\ delays > 0 BY <1>6 DEF Shifted
  <2>2. late \in Answers BY DEF TypeOK
  <2> QED BY <1>1, <2>1, <2>2 DEF Exchange
<1> QED BY <1>2, <1>3, <1>4, <1>5, <1>6 DEF Exchanges

(* The answer to a status read carries a status. *)
LEMMA ReadValue == \A a \in Answers : a.value \in Statuses
BY DEF Answers, NoAnswer, Written, Read, Statuses

(* Taking an answer from the line keeps the line's types. *)
LEMMA TransferTyped ==
    ASSUME TypeOK, NEW own \in Answers, NEW x \in Exchanges(own), Transfer(x)
    PROVE  late' \in Answers /\ delays' \in Nat
BY ExchangesTyped DEF Transfer, TypeOK

(* The count of failures stays in its range and shows the line as lost once  *)
(* Alarmed is reached, also when it wraps.                                    *)
LEMMA CountInRange ==
    ASSUME TypeOK
    PROVE  /\ MoreFails \in 0 .. Wrap - 1 /\ MoreFails > 0
BY MotorAssumption DEF TypeOK, MoreFails

-----------------------------------------------------------------------------
(* A command step keeps the three conjuncts. *)
LEMMA SendKeeps ==
    ASSUME IInv, NEW c \in {"start", "stop"}, NEW on \in BOOLEAN, Send(c, on)
    PROVE  /\ turning' \in BOOLEAN /\ faults' \subseteq Bits
           /\ cmd' \in {"none", "start", "stop"} /\ late' \in Answers /\ delays' \in Nat
           /\ FaultIsPending' /\ ("para" \in faults' <=> "para" \in faults)
<1> USE DEF IInv
<1>1. CASE cmd = c
  <2>1. PICK x \in Exchanges(Written) :
           /\ turning' = IF x.got THEN on ELSE turning
           /\ Flag(c, x.answer.func = 6)
           /\ cmd' = IF x.answer.func = 6 THEN "none" ELSE cmd
           /\ Transfer(x)
    BY <1>1 DEF Send
  <2>2. Written \in Answers BY DEF Answers
  <2>3. x.got \in BOOLEAN BY <2>2, ExchangesTyped
  <2>4. late' \in Answers /\ delays' \in Nat BY <2>1, <2>2, TransferTyped
  <2>5. turning' \in BOOLEAN BY <2>1, <2>3 DEF TypeOK
  <2>6. CASE x.answer.func = 6
    <3>1. faults' = faults \ {c} /\ cmd' = "none" BY <2>1, <2>6 DEF Flag
    <3> QED BY <1>1, <2>4, <2>5, <3>1 DEF TypeOK, FaultIsPending
  <2>7. CASE x.answer.func # 6
    <3>1. faults' = faults \cup {c} /\ cmd' = cmd BY <2>1, <2>7 DEF Flag
    <3> QED BY <1>1, <2>4, <2>5, <3>1 DEF TypeOK, FaultIsPending, Bits
  <2> QED BY <2>6, <2>7
<1>2. CASE cmd # c
  BY <1>2 DEF Send, TypeOK, FaultIsPending
<1> QED BY <1>1, <1>2

(* A pass of the main loop gives a command only when none waits. *)
LEMMA MainKeeps == IInv /\ Main => IInv'
<1> SUFFICES ASSUME IInv, Main PROVE IInv'
    OBVIOUS
<1> USE DEF IInv
<1>1. UNCHANGED <<door, asked, para, oldFreq, faults, fails, pc, turning, speed, line, late,
                  changes, delays, restarts>>
  BY DEF Main
<1>2. mode' \in {"run", "stop", "enter", "check"} /\ freq' \in Freqs \cup {0}
  BY DEF Main, RunPass, StopPass, EnterCheck, TypeOK
<1>3. cmd' = cmd \/ (cmd = "none" /\ cmd' \in {"start", "stop"})
  BY DEF Main, RunPass, StopPass, EnterCheck, RunMotor, StopMotor, Give
<1>4. TypeOK' BY <1>1, <1>2, <1>3 DEF TypeOK
<1>5. FaultIsPending' BY <1>1, <1>3 DEF FaultIsPending
<1>6. LostAfterFails' BY <1>1 DEF LostAfterFails
<1> QED BY <1>4, <1>5, <1>6

(* Each step of the motor thread keeps the invariant. *)
LEMMA ThreadKeeps == IInv /\ Thread => IInv'
<1> SUFFICES ASSUME IInv, Thread PROVE IInv'
    OBVIOUS
<1> USE DEF IInv
<1>1. CASE SendStart
  <2>1. UNCHANGED <<para, freq, oldFreq, fails, speed, mode, door, asked, line, changes,
                    restarts>> /\ pc' = "stop" /\ Send("start", TRUE)
    BY <1>1 DEF SendStart, surroundings, Step
  <2> QED BY <2>1, SendKeeps DEF TypeOK, LostAfterFails
<1>2. CASE SendStop
  <2>1. UNCHANGED <<para, freq, oldFreq, fails, speed, mode, door, asked, line, changes,
                    restarts>> /\ pc' = "para" /\ Send("stop", FALSE)
    BY <1>2 DEF SendStop, surroundings, Step
  <2> QED BY <2>1, SendKeeps DEF TypeOK, LostAfterFails
<1>3. CASE ReadPara
  <2> DEFINE own == Read(IF turning THEN "turning" ELSE "still")
  <2>1. PICK x \in Exchanges(own) :
          /\ Transfer(x)
          /\ IF x.answer.func = 3
             THEN para' = x.answer.value /\ fails' = 0 /\ Flag("para", TRUE)
             ELSE para' = para /\ fails' = MoreFails /\ Flag("para", MoreFails < Alarmed)
    BY <1>3 DEF ReadPara
  <2>2. UNCHANGED <<cmd, freq, oldFreq, turning, speed, mode, door, asked, line, changes,
                    restarts>> /\ pc' = "freq"
    BY <1>3 DEF ReadPara, surroundings, Step
  <2>3. own \in Answers BY DEF Answers, Statuses
  <2>4. x.answer \in Answers BY <2>3, ExchangesTyped
  <2>5. late' \in Answers /\ delays' \in Nat BY <2>1, <2>3, TransferTyped
  <2>6. CASE x.answer.func = 3
    <3>1. para' \in Statuses BY <2>1, <2>4, <2>6, ReadValue
    <3>2. fails' = 0 /\ faults' = faults \ {"para"} BY <2>1, <2>6 DEF Flag
    <3>3. TypeOK' BY <2>2, <2>5, <3>1, <3>2, MotorAssumption DEF TypeOK
    <3>4. LostAfterFails' BY <3>2, MotorAssumption DEF LostAfterFails
    <3> QED BY <2>2, <3>2, <3>3, <3>4 DEF FaultIsPending
  <2>7. CASE x.answer.func # 3
    <3>1. para' = para /\ fails' = MoreFails BY <2>1, <2>7
    <3>2. faults' = IF MoreFails < Alarmed THEN faults \ {"para"} ELSE faults \cup {"para"}
      BY <2>1, <2>7 DEF Flag
    <3>3. TypeOK' BY <2>2, <2>5, <3>1, <3>2, CountInRange DEF TypeOK, Bits
    <3>4. LostAfterFails'
      BY <3>1, <3>2, CountInRange, MotorAssumption DEF LostAfterFails
    <3> QED BY <2>2, <3>2, <3>3, <3>4 DEF FaultIsPending
  <2> QED BY <2>6, <2>7
<1>4. CASE RememberFreq
  BY <1>4 DEF RememberFreq, surroundings, TypeOK, FaultIsPending, LostAfterFails
<1>5. CASE SendFreq
  <2>1. PICK x \in Exchanges(Written) :
          /\ speed' = IF x.got THEN freq ELSE speed
          /\ Flag("freq", x.answer.func = 6)
          /\ Transfer(x)
    BY <1>5 DEF SendFreq
  <2>2. UNCHANGED <<cmd, para, freq, oldFreq, fails, turning, mode, door, asked, line,
                    changes, restarts>> /\ pc' = "current"
    BY <1>5 DEF SendFreq, surroundings, Step
  <2>3. late' \in Answers /\ delays' \in Nat
    BY <2>1, TransferTyped DEF Answers
  <2>4. faults' = faults \cup {"freq"} \/ faults' = faults \ {"freq"} BY <2>1 DEF Flag
  <2>5. speed' \in Freqs \cup {0} BY <2>1 DEF TypeOK
  <2> QED BY <2>2, <2>3, <2>4, <2>5 DEF TypeOK, Bits, FaultIsPending, LostAfterFails
<1>6. CASE ReadCurrent
  <2>1. PICK x \in Exchanges(Read("other")) :
          Flag("current", x.answer.func = 3) /\ Transfer(x)
    BY <1>6 DEF ReadCurrent
  <2>2. UNCHANGED <<cmd, para, freq, oldFreq, fails, turning, speed, mode, door, asked,
                    line, changes, restarts>> /\ pc' = "start"
    BY <1>6 DEF ReadCurrent, surroundings, Step
  <2>3. Read("other") \in Answers BY DEF Answers, Statuses
  <2>4. late' \in Answers /\ delays' \in Nat BY <2>1, <2>3, TransferTyped
  <2>5. faults' = faults \cup {"current"} \/ faults' = faults \ {"current"}
    BY <2>1 DEF Flag
  <2> QED BY <2>2, <2>4, <2>5 DEF TypeOK, Bits, FaultIsPending, LostAfterFails
<1> QED BY <1>1, <1>2, <1>3, <1>4, <1>5, <1>6 DEF Thread

(* Changes of the surroundings and restarts keep the invariant. *)
LEMMA OutsideKeeps == IInv /\ (Change \/ Restart \/ UNCHANGED vars) => IInv'
<1> SUFFICES ASSUME IInv, Change \/ Restart \/ UNCHANGED vars PROVE IInv'
    OBVIOUS
<1> USE DEF IInv
<1>1. CASE Change
  <2>1. UNCHANGED <<cmd, para, freq, oldFreq, faults, fails, pc, speed, late, delays,
                    restarts>>
    BY <1>1 DEF Change
  <2>2. mode' \in {"run", "stop", "enter", "check"} BY <1>1 DEF Change, TypeOK
  <2>3. asked' \in Freqs /\ changes' \in Nat BY <1>1 DEF Change, TypeOK
  <2>4. door' \in {door, ~door} /\ line' \in {line, ~line} /\ turning' \in {turning, FALSE}
    BY <1>1 DEF Change
  <2>5. door' \in BOOLEAN /\ line' \in BOOLEAN /\ turning' \in BOOLEAN
    BY <2>4 DEF TypeOK
  <2>6. TypeOK' BY <2>1, <2>2, <2>3, <2>5 DEF TypeOK
  <2>7. FaultIsPending' /\ LostAfterFails' BY <2>1 DEF FaultIsPending, LostAfterFails
  <2> QED BY <2>6, <2>7
<1>2. CASE Restart
  <2>1. UNCHANGED <<door, asked, turning, speed, line, late, changes, delays>>
    BY <1>2 DEF Restart
  <2>2. /\ cmd' = "none" /\ para' = "zero" /\ freq' = 0 /\ oldFreq' = 0 /\ faults' = {}
        /\ fails' = 0 /\ pc' = "start" /\ restarts' \in Nat
    BY <1>2 DEF Restart, TypeOK
  <2>3. mode' \in {"run", "stop", "enter", "check"} BY <1>2 DEF Restart, TypeOK
  <2>4. TypeOK' BY <2>1, <2>2, <2>3, MotorAssumption DEF TypeOK, Statuses
  <2> QED BY <2>2, <2>4, MotorAssumption DEF FaultIsPending, LostAfterFails
<1>3. CASE UNCHANGED vars
  BY <1>3 DEF vars, TypeOK, FaultIsPending, LostAfterFails
<1> QED BY <1>1, <1>2, <1>3

(* The invariant holds for ever. *)
LEMMA Invariance == Spec => []IInv
<1>1. Init => IInv
  <2> SUFFICES ASSUME Init PROVE IInv
      OBVIOUS
  <2>1. para \in Statuses /\ late \in Answers BY DEF Init, Statuses, Answers
  <2>2. fails \in 0 .. Wrap - 1 /\ fails < Alarmed BY MotorAssumption DEF Init
  <2>3. TypeOK BY <2>1, <2>2, MotorAssumption DEF Init, TypeOK
  <2> QED BY <2>2, <2>3, MotorAssumption
          DEF Init, IInv, TypeOK, FaultIsPending, LostAfterFails
<1>2. IInv /\ [Next]_vars => IInv'
  BY MainKeeps, ThreadKeeps, OutsideKeeps DEF Next
<1> QED BY <1>1, <1>2, PTL DEF Spec

-----------------------------------------------------------------------------
(* The words of the motor keep their types and the count of failed reads its *)
(* range (i_alarm_status), whatever the line does to requests and answers.   *)
THEOREM MotorTypeCorrect == Spec => []TypeOK
<1>1. IInv => TypeOK BY DEF IInv
<1> QED BY Invariance, <1>1, PTL

(* A command bit of R_SYNC_MOTOR_CONNECT_STATUS is ON only while its command *)
(* waits to be sent again.                                                   *)
THEOREM FaultBitsPending == Spec => []FaultIsPending
<1>1. IInv => FaultIsPending BY DEF IInv
<1> QED BY Invariance, <1>1, PTL

(* Bit 0x04 of R_SYNC_MOTOR_CONNECT_STATUS is ON exactly after Alarmed failed *)
(* reads in a row, also when i_alarm_status wraps.                            *)
THEOREM LossAfterFails == Spec => []LostAfterFails
<1>1. IInv => LostAfterFails BY DEF IInv
<1> QED BY Invariance, <1>1, PTL

-----------------------------------------------------------------------------
(* An exchange never adds a stray, and one that ends with an answer the      *)
(* drive did not give has used one up.                                       *)
LEMMA StraysPay ==
    ASSUME TypeOK, NEW own \in Answers, own # NoAnswer, NEW x \in Exchanges(own), Transfer(x)
    PROVE  /\ Strays' \in 0 .. Strays
           /\ x.got \/ x.answer = NoAnswer \/ Strays' < Strays
<1>1. delays \in Nat BY DEF TypeOK
<1>2. CASE x \in OnTime(own)
  <2>1. x.got = TRUE /\ x.left = NoAnswer BY <1>2 DEF OnTime, Exchange
  <2> QED BY <1>1, <2>1 DEF Transfer, Strays
<1>3. CASE x \in Broken
  <2>1. x.answer = NoAnswer /\ x.left = NoAnswer BY <1>3 DEF Broken, Exchange
  <2> QED BY <1>1, <2>1 DEF Transfer, Strays
<1>4. CASE x \in Delayed(own)
  <2>1. x.got = TRUE /\ x.left = own /\ delays > 0 BY <1>4 DEF Delayed, Exchange
  <2>2. late' = own /\ delays' = delays - 1 BY <2>1 DEF Transfer
  <2>3. Strays' = delays BY <1>1, <2>2 DEF Strays
  <2>4. Strays = delays \/ Strays = delays + 1 BY <1>1 DEF Strays
  <2> QED BY <1>1, <2>1, <2>3, <2>4
<1>5. CASE x \in Overtaken
  <2>1. x.left = NoAnswer /\ late # NoAnswer BY <1>5 DEF Overtaken, Exchange
  <2>2. Strays' = delays /\ Strays = delays + 1 BY <1>1, <2>1 DEF Transfer, Strays
  <2> QED BY <1>1, <2>2
<1>6. CASE x \in Shifted(own)
  <2>1. x.got = TRUE /\ x.left = own /\ late # NoAnswer /\ delays > 0
    BY <1>6 DEF Shifted, Exchange
  <2>2. late' = own /\ delays' = delays - 1 BY <2>1 DEF Transfer
  <2>3. Strays' = delays /\ Strays = delays + 1 BY <1>1, <2>1, <2>2 DEF Strays
  <2> QED BY <1>1, <2>1, <2>3
<1> QED BY <1>2, <1>3, <1>4, <1>5, <1>6 DEF Exchanges

(* Sending a command is a step of the drive's promise. *)
LEMMA SendDrives ==
    ASSUME TypeOK, NEW c \in {"start", "stop"}, Send(c, c = "start"), UNCHANGED restarts
    PROVE  Drive!Next \/ UNCHANGED Drive!vars
<1>1. CASE cmd = c
  <2>1. PICK x \in Exchanges(Written) :
           /\ turning' = IF x.got THEN c = "start" ELSE turning
           /\ cmd' = IF x.answer.func = 6 THEN "none" ELSE cmd
           /\ Transfer(x)
    BY <1>1 DEF Send
  <2>2. Written \in Answers /\ Written # NoAnswer BY DEF Answers, Written, NoAnswer
  <2>3. /\ Strays' \in 0 .. Strays
        /\ x.got \/ x.answer = NoAnswer \/ Strays' < Strays
    BY <2>1, <2>2, StraysPay
  <2>4. cmd # "none" /\ cmd' \in {"none", cmd} BY <1>1, <2>1
  <2>5. CASE x.got
    <3>1. turning' = (cmd = "start") BY <1>1, <2>1, <2>5
    <3> QED BY <2>3, <2>4, <3>1 DEF Drive!Next, Drive!Obey
  <2>6. CASE ~x.got /\ x.answer.func = 6
    <3>1. x.answer # NoAnswer BY <2>6 DEF NoAnswer
    <3>2. turning' = turning /\ cmd' = "none" BY <2>1, <2>6
    <3>3. Strays' \in Nat /\ Strays' < Strays BY <2>3, <2>6, <3>1
    <3> QED BY <2>4, <3>2, <3>3 DEF Drive!Next, Drive!Mislead
  <2>7. CASE ~x.got /\ x.answer.func # 6
    <3>1. turning' = turning /\ cmd' = cmd BY <2>1, <2>7
    <3> QED BY <2>3, <3>1 DEF Drive!Next, Drive!Flush
  <2> QED BY <2>5, <2>6, <2>7
<1>2. CASE cmd # c
  BY <1>2 DEF Send, Drive!vars, Strays
<1> QED BY <1>1, <1>2

(* Reading from the drive, or sending it a frequency, may use up strays.      *)
LEMMA ReadingFlushes ==
    ASSUME TypeOK, NEW own \in Answers, own # NoAnswer, NEW x \in Exchanges(own),
           Transfer(x), UNCHANGED <<turning, cmd, restarts>>
    PROVE  Drive!Next
BY StraysPay DEF Drive!Next, Drive!Flush

(* Every step of the daemon and the drive is a step of the promise. *)
LEMMA StepDrives ==
    ASSUME TypeOK, [Next]_vars PROVE Drive!Next \/ UNCHANGED Drive!vars
<1>1. CASE Main
  <2>1. UNCHANGED <<turning, late, delays, restarts>> BY <1>1 DEF Main
  <2>2. cmd' = cmd \/ (cmd = "none" /\ cmd' \in {"start", "stop"})
    BY <1>1 DEF Main, RunPass, StopPass, EnterCheck, RunMotor, StopMotor, Give
  <2> QED BY <2>1, <2>2 DEF Drive!Next, Drive!Command, Drive!vars, Strays
<1>2. CASE SendStart
  <2>1. Send("start", "start" = "start") /\ UNCHANGED restarts
    BY <1>2 DEF SendStart, surroundings
  <2> QED BY <2>1, SendDrives
<1>3. CASE SendStop
  <2>1. Send("stop", "stop" = "start") /\ UNCHANGED restarts
    BY <1>3 DEF SendStop, surroundings
  <2> QED BY <2>1, SendDrives
<1>4. CASE ReadPara
  <2> DEFINE own == Read(IF turning THEN "turning" ELSE "still")
  <2>1. PICK x \in Exchanges(own) : Transfer(x) BY <1>4 DEF ReadPara
  <2>2. own \in Answers /\ own # NoAnswer BY DEF Answers, Statuses, Read, NoAnswer
  <2>3. UNCHANGED <<turning, cmd, restarts>> BY <1>4 DEF ReadPara, surroundings
  <2> QED BY <2>1, <2>2, <2>3, ReadingFlushes
<1>5. CASE RememberFreq
  BY <1>5 DEF RememberFreq, surroundings, Drive!vars, Strays
<1>6. CASE SendFreq
  <2>1. PICK x \in Exchanges(Written) : Transfer(x) BY <1>6 DEF SendFreq
  <2>2. Written \in Answers /\ Written # NoAnswer BY DEF Answers, Written, NoAnswer
  <2>3. UNCHANGED <<turning, cmd, restarts>> BY <1>6 DEF SendFreq, surroundings
  <2> QED BY <2>1, <2>2, <2>3, ReadingFlushes
<1>7. CASE ReadCurrent
  <2>1. PICK x \in Exchanges(Read("other")) : Transfer(x) BY <1>7 DEF ReadCurrent
  <2>2. Read("other") \in Answers /\ Read("other") # NoAnswer
    BY DEF Answers, Statuses, Read, NoAnswer
  <2>3. UNCHANGED <<turning, cmd, restarts>> BY <1>7 DEF ReadCurrent, surroundings
  <2> QED BY <2>1, <2>2, <2>3, ReadingFlushes
<1>8. CASE Change
  <2>1. UNCHANGED <<cmd, late, delays, restarts>> /\ (turning' = turning \/ turning' = FALSE)
    BY <1>8 DEF Change
  <2> QED BY <2>1 DEF Drive!Next, Drive!Trip, Drive!vars, Strays
<1>9. CASE Restart
  BY <1>9 DEF Restart, Drive!Next, Drive!Forget, Strays
<1>10. CASE UNCHANGED vars
  BY <1>10 DEF vars, Drive!vars, Strays
<1> QED BY <1>1, <1>2, <1>3, <1>4, <1>5, <1>6, <1>7, <1>8, <1>9, <1>10 DEF Next, Thread

(* The motor thread and the main loop implement MotorDrive: a command word is *)
(* cleared (8576, 8640) only when the drive has taken the command, against a  *)
(* late answer that was taken for its own, one for one, or by a restart, and  *)
(* the drive turns only because a start was waiting.                          *)
THEOREM MotorImplementsDrive == Spec => DriveSpec
<1>1. Init => Drive!Init
  BY MotorAssumption DEF Init, Drive!Init, Strays
<1>2. TypeOK /\ [Next]_vars => [Drive!Next]_Drive!vars
  BY StepDrives
<1> QED BY <1>1, <1>2, MotorTypeCorrect, PTL DEF Spec, DriveSpec, Drive!Spec
=============================================================================
