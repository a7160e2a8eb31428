---------------------------- MODULE DamperProofs ----------------------------
(***************************************************************************)
(* Proofs about the air damper, for every travel, calibration time and      *)
(* number of operator actions.  The relay interlock needs to know that the  *)
(* opposite relay is already OFF between the two writes of a control call;  *)
(* the countdowns need to know that a running direction has cleared the     *)
(* other one; that the damper rests outside the run modes needs to know     *)
(* which calls a block still has to make and what a running test holds.     *)
(***************************************************************************)
EXTENDS Damper, TLAPS

(* Between the two writes the opposite relay is OFF. *)
HalfWay == pc = "set" => calls # <<>> /\ Other(Head(calls).relay) \notin on

(* The direction that counts has taken over the time of the other one. *)
Handover == /\ openOn => closeTime = 0
            /\ closeOn => openTime = 0

IInv == TypeOK /\ NeverBoth /\ HalfWay /\ OneCountdown /\ Handover

(* Short sequences of calls are sequences of calls. *)
LEMMA ShortSequences ==
    ASSUME NEW S
    PROVE  /\ <<>> \in Seq(S)
           /\ \A a \in S : <<a>> \in Seq(S)
           /\ \A a, b \in S : <<a, b>> \in Seq(S)
           /\ \A a \in S, q \in Seq(S) : <<a>> \o q \in Seq(S)
<1>1. <<>> \in Seq(S) OBVIOUS
<1>2. \A a \in S : <<a>> \in Seq(S) OBVIOUS
<1>3. \A a, b \in S : <<a, b>> \in Seq(S) OBVIOUS
<1>4. \A a \in S, q \in Seq(S) : <<a>> \o q \in Seq(S) BY <1>2
<1> QED BY <1>1, <1>2, <1>3, <1>4

(* The calls the blocks make are control calls, and so are their sequences. *)
LEMMA CallsTyped ==
    /\ Automatic("open", TRUE) \in Call /\ Automatic("open", FALSE) \in Call
    /\ Automatic("close", TRUE) \in Call /\ Automatic("close", FALSE) \in Call
    /\ Scheduled("close") \in Call /\ Direct("open", FALSE) \in Call
    /\ \A r \in Relays : <<Direct(r, TRUE)>> \in Seq(Call)
    /\ \A r \in Relays : <<Direct(r, FALSE)>> \in Seq(Call)
    /\ <<Direct("open", FALSE), Direct("close", FALSE)>> \in Seq(Call)
    /\ AllOff \in Seq(Call)
<1>1. /\ Automatic("open", TRUE) \in Call /\ Automatic("open", FALSE) \in Call
      /\ Automatic("close", TRUE) \in Call /\ Automatic("close", FALSE) \in Call
      /\ Scheduled("close") \in Call
      /\ Direct("open", FALSE) \in Call /\ Direct("close", FALSE) \in Call
  BY DEF Automatic, Scheduled, Direct, Call, Relays
<1>2. ASSUME NEW r \in Relays
      PROVE  <<Direct(r, TRUE)>> \in Seq(Call) /\ <<Direct(r, FALSE)>> \in Seq(Call)
  <2>1. Direct(r, TRUE) \in Call /\ Direct(r, FALSE) \in Call
    BY DEF Direct, Call
  <2> QED BY <2>1, ShortSequences DEF Direct
<1>3. <<Direct("open", FALSE), Direct("close", FALSE)>> \in Seq(Call)
  BY <1>1, ShortSequences DEF Direct
<1>4. AllOff \in Seq(Call) BY <1>1, ShortSequences DEF AllOff, Automatic
<1> QED BY <1>1, <1>2, <1>3, <1>4

(* The first of the calls drives one of the two relays. *)
LEMMA HeadTyped ==
    ASSUME TypeOK, calls # <<>>
    PROVE  Head(calls).relay \in Relays
<1>1. Head(calls) \in Call BY DEF TypeOK
<1> QED BY <1>1 DEF Call

(* Whatever the sensors say, a pass decides on a sequence of control calls. *)
LEMMA DecisionsTyped == Decisions \subseteq Seq(Call)
<1> USE CallsTyped, ShortSequences DEF Automatic, Scheduled
<1>1. HumidCall \in Seq(Call) BY DEF HumidCall
<1>2. CarbonCalls \subseteq Seq(Call) BY DEF CarbonCalls
<1>3. TemperatureCalls \subseteq Seq(Call) BY DEF TemperatureCalls
<1>4. <<Automatic("open", TRUE)>> \in Seq(Call) /\ <<Automatic("close", TRUE)>> \in Seq(Call)
  OBVIOUS
<1> HIDE CallsTyped, ShortSequences
<1> QED BY <1>1, <1>2, <1>3, <1>4 DEF Decisions

(* The machine starts in the invariant. *)
LEMMA InitIInv == Init => IInv
<1> SUFFICES ASSUME Init PROVE IInv
    OBVIOUS
<1>1. TypeOK
  <2>1. calls \in Seq(Call) BY ShortSequences DEF Init
  <2>2. /\ openOn \in BOOLEAN /\ closeOn \in BOOLEAN
        /\ check \in BOOLEAN /\ calOpen \in BOOLEAN /\ calDone \in BOOLEAN
    BY DEF Init
  <2>3. /\ openTime \in 0 .. WordMod - 1 /\ closeTime \in 0 .. WordMod - 1
        /\ testTime \in Nat /\ commands \in Nat /\ checks \in Nat /\ modes \in Nat
        /\ ad \in 0 .. MaxLen
    BY DamperAssumption DEF Init
  <2>4. /\ pc \in {"control", "call", "set", "test"} /\ after \in Afters
        /\ state \in {"run", "stop", "enter", "calib"}
    BY DEF Init, Afters
  <2>5. /\ setpoint \in Setpoints /\ fan \in SUBSET BOOLEAN /\ pos \in 0 .. Travel
        /\ on \in SUBSET Relays /\ buttons \in SUBSET Relays
        /\ testing \in SUBSET Relays /\ test \in SUBSET Relays
    BY DamperAssumption DEF Init
  <2> QED BY <2>1, <2>2, <2>3, <2>4, <2>5 DEF TypeOK
<1> QED BY <1>1 DEF Init, IInv, NeverBoth, HalfWay, OneCountdown, Handover, Relays

(* The remaining times stay unsigned words. *)
LEMMA LeftTyped ==
    ASSUME TypeOK
    PROVE  /\ OpenLeft \in 0 .. WordMod - 1 /\ CloseLeft \in 0 .. WordMod - 1
           /\ Down(OpenLeft) \in 0 .. WordMod - 1 /\ Down(CloseLeft) \in 0 .. WordMod - 1
<1>1. \A a \in Nat, w \in Nat \ {0} : a % w \in 0 .. w - 1 OBVIOUS
<1>2. /\ openTime \in Nat /\ closeTime \in Nat
      /\ TimeOpen + closeTime \in Nat /\ TimeClose + openTime \in Nat
  BY DamperAssumption DEF TypeOK
<1>3. OpenLeft \in 0 .. WordMod - 1
  BY <1>1, <1>2, DamperAssumption DEF OpenLeft, TypeOK
<1>4. CloseLeft \in 0 .. WordMod - 1
  BY <1>1, <1>2, DamperAssumption DEF CloseLeft, TypeOK
<1>5. \A t \in 0 .. WordMod - 1 : Down(t) \in 0 .. WordMod - 1
  BY DamperAssumption DEF Down
<1> QED BY <1>3, <1>4, <1>5

(* A step of the main loop keeps the types. *)
LEMMA MainTyped ==
    ASSUME TypeOK, HalfWay, Main
    PROVE  TypeOK'
<1> USE DamperAssumption DEF TypeOK, loop, clock, calibration, tests, budget, vars
<1>1. CASE Control
  <2>1. calls' \in Seq(Call)
    <3>1. CASE RunBlock
      <4>1. CASE CheckClose
        BY <4>1, CallsTyped, ShortSequences DEF CheckClose, Automatic
      <4>2. CASE CheckOpen
        BY <4>2, CallsTyped, ShortSequences DEF CheckOpen, Automatic
      <4>3. CASE CheckNothing BY <4>3 DEF CheckNothing
      <4>4. CASE ControlDamper BY <4>4, DecisionsTyped DEF ControlDamper
      <4> QED BY <3>1, <4>1, <4>2, <4>3, <4>4 DEF RunBlock
    <3>2. CASE StopBlock BY <3>2, CallsTyped DEF StopBlock
    <3>3. CASE CalibrationBlock BY <3>3 DEF CalibrationBlock
    <3> QED BY <1>1, <3>1, <3>2, <3>3 DEF Control
  <2>2. check' \in BOOLEAN /\ calOpen' \in BOOLEAN /\ calDone' \in BOOLEAN
    BY <1>1 DEF Control, RunBlock, StopBlock, CalibrationBlock, CheckClose, CheckOpen,
                CheckNothing, ControlDamper
  <2>3. state' \in {"run", "stop", "enter", "calib"}
    BY <1>1 DEF Control, RunBlock, StopBlock, CalibrationBlock
  <2>4. pc' = "call" /\ after' = "test" BY <1>1 DEF Control
  <2>5. UNCHANGED <<setpoint, fan, on, pos, ad, clock, tests, budget>> BY <1>1 DEF Control
  <2> QED BY <2>1, <2>2, <2>3, <2>4, <2>5 DEF Afters
<1>2. CASE MakeCall
  <2>1. Head(calls) \in Call /\ Tail(calls) \in Seq(Call)
    BY <1>2 DEF MakeCall
  <2>2. calls' \in Seq(Call)
    <3>1. CASE CallWithoutFan
      <4>1. PICK c \in Call : c = Direct("open", FALSE) BY CallsTyped
      <4>2. <<c>> \o Tail(calls) \in Seq(Call) BY <2>1, ShortSequences
      <4> QED BY <3>1, <4>1, <4>2 DEF CallWithoutFan
    <3> QED BY <1>2, <2>1, <3>1
        DEF MakeCall, CallRefused, CallAtLimit, CallElsewhere
  <2>3. pc' \in {"call", "set"} /\ on' \in SUBSET Relays
    BY <1>2 DEF MakeCall, CallRefused, CallWithoutFan, CallAtLimit, CallElsewhere
  <2>4. UNCHANGED <<after, state, setpoint, fan, pos, ad, clock, calibration, tests, budget>>
    BY <1>2 DEF MakeCall
  <2> QED BY <2>2, <2>3, <2>4
<1>3. CASE SetRelay
  <2>1. Head(calls) \in Call /\ Tail(calls) \in Seq(Call)
    BY <1>3 DEF SetRelay, HalfWay
  <2>2. on' \in SUBSET Relays BY <1>3, <2>1 DEF SetRelay, Call
  <2> QED BY <1>3, <2>1, <2>2 DEF SetRelay
<1>4. CASE TestControlMode
  <2>1. ASSUME NEW r \in Relays, TestPress(r) PROVE TypeOK'
    <3>1. <<Direct(r, TRUE)>> \in Seq(Call) BY CallsTyped, Zenon
    <3>2. UNCHANGED <<state, setpoint, fan, on, pos, ad, clock, calibration, budget>>
      BY <1>4 DEF TestControlMode
    <3>3. /\ pc' \in {"control", "call"} /\ calls' \in Seq(Call) /\ after' \in Afters
          /\ testing' \in SUBSET Relays /\ UNCHANGED <<buttons, test, testTime>>
      <4>1. CASE AtLimit(r) BY <2>1, <4>1 DEF TestPress
      <4>2. CASE ~AtLimit(r)
        <5>1. /\ calls' = <<Direct(r, TRUE)>> /\ after' = r /\ pc' = "call"
              /\ testing' = testing \cup {r} /\ UNCHANGED <<buttons, test, testTime>>
          BY <2>1, <4>2 DEF TestPress
        <5>2. after' \in Afters BY <5>1 DEF Afters, Relays
        <5> QED BY <3>1, <5>1, <5>2
      <4> QED BY <4>1, <4>2
    <3> QED BY <3>2, <3>3
  <2>2. ASSUME NEW r \in Relays, TestRelease(r) PROVE TypeOK'
    <3>1. <<Direct(r, FALSE)>> \in Seq(Call) BY CallsTyped, Zenon
    <3> QED BY <1>4, <2>2, <3>1 DEF TestControlMode, TestRelease, Afters
  <2>3. CASE TestUnknown BY <1>4, <2>3 DEF TestControlMode, TestUnknown
  <2>4. CASE TestRuns BY <1>4, <2>4 DEF TestControlMode, TestRuns
  <2>5. CASE TestOther
    <3>1. <<Direct("open", FALSE), Direct("close", FALSE)>> \in Seq(Call)
      BY CallsTyped, Zenon
    <3> QED BY <1>4, <2>5, <3>1 DEF TestControlMode, TestOther, Afters
  <2>6. CASE TestNone BY <1>4, <2>6 DEF TestControlMode, TestNone
  <2> QED BY <1>4, <2>1, <2>2, <2>3, <2>4, <2>5, <2>6 DEF TestControlMode
<1>5. CASE BlockDone
  <2>1. CASE PassDone BY <1>5, <2>1 DEF BlockDone, PassDone
  <2>2. CASE PressDone BY <1>5, <2>2 DEF BlockDone, PressDone
  <2>3. CASE TestDone BY <1>5, <2>3 DEF BlockDone, TestDone
  <2> QED BY <1>5, <2>1, <2>2, <2>3 DEF BlockDone
<1> QED BY <1>1, <1>2, <1>3, <1>4, <1>5 DEF Main

(* A step of the timer, the motor, the operator or the power keeps the types. *)
LEMMA OthersTyped ==
    ASSUME TypeOK, Tick \/ Move \/ Display \/ Calibrate \/ SetMode \/ Restart
    PROVE  TypeOK'
<1> USE DamperAssumption DEF TypeOK, loop, clock, calibration, tests, budget
<1>1. CASE Tick
  <2>1. on' \in SUBSET Relays /\ testing' \in SUBSET Relays /\ buttons' \in SUBSET Relays
    BY <1>1 DEF Tick
  <2>2. /\ openTime' \in 0 .. WordMod - 1 /\ closeTime' \in 0 .. WordMod - 1
        /\ openOn' \in BOOLEAN /\ closeOn' \in BOOLEAN /\ ad' \in 0 .. MaxLen
    <3>1. CASE Opening /\ CountOpen
      <4>1. openTime' \in 0 .. WordMod - 1 /\ closeTime' \in 0 .. WordMod - 1
        BY <3>1, LeftTyped DEF CountOpen
      <4>2. openOn' \in BOOLEAN /\ closeOn' \in BOOLEAN BY <3>1 DEF CountOpen
      <4>3. ad' \in 0 .. MaxLen BY <3>1 DEF CountOpen, OpenUnit
      <4> QED BY <4>1, <4>2, <4>3
    <3>2. CASE Closing /\ CountClose
      <4>1. openTime' \in 0 .. WordMod - 1 /\ closeTime' \in 0 .. WordMod - 1
        BY <3>2, LeftTyped DEF CountClose
      <4>2. openOn' \in BOOLEAN /\ closeOn' \in BOOLEAN BY <3>2 DEF CountClose
      <4>3. ad' \in 0 .. MaxLen BY <3>2 DEF CountClose, CloseUnit, Corrected
      <4> QED BY <4>1, <4>2, <4>3
    <3>3. CASE ad' = Corrected /\ UNCHANGED clock
      BY <3>3 DEF Corrected
    <3> QED BY <1>1, <3>1, <3>2, <3>3 DEF Tick
  <2>3. testTime' \in Nat BY <1>1 DEF Tick, Down
  <2>4. UNCHANGED <<loop, state, setpoint, fan, pos, calibration, test, budget>>
    BY <1>1 DEF Tick
  <2> QED BY <2>1, <2>2, <2>3, <2>4
<1>2. CASE Move
  <2>1. pos' \in 0 .. Travel BY <1>2 DEF Move, Opening, Closing
  <2>2. UNCHANGED <<loop, state, setpoint, fan, on, ad, clock, calibration, tests, budget>>
    BY <1>2 DEF Move
  <2> QED BY <2>1, <2>2
<1>3. CASE Display
  <2>1. /\ commands' \in Nat /\ setpoint' \in Setpoints /\ ad' \in 0 .. MaxLen
        /\ buttons' \in SUBSET Relays
    BY <1>3 DEF Display
  <2>2. UNCHANGED <<loop, state, fan, on, pos, clock, calibration, testing, test, testTime,
                    checks, modes>>
    BY <1>3 DEF Display
  <2> QED BY <2>1, <2>2
<1>4. CASE Calibrate BY <1>4 DEF Calibrate
<1>5. CASE SetMode BY <1>5 DEF SetMode
<1>6. CASE Restart
  <2>1. calls' \in Seq(Call) BY <1>6, ShortSequences DEF Restart
  <2>2. /\ openTime' \in 0 .. WordMod - 1 /\ closeTime' \in 0 .. WordMod - 1
        /\ testTime' \in Nat /\ modes' \in Nat
    BY <1>6 DEF Restart
  <2>3. openOn' \in BOOLEAN /\ closeOn' \in BOOLEAN /\ check' \in BOOLEAN
    BY <1>6 DEF Restart
  <2>4. /\ on' \in SUBSET Relays /\ buttons' \in SUBSET Relays
        /\ testing' \in SUBSET Relays /\ test' \in SUBSET Relays
        /\ pc' = "control" /\ after' = "test" /\ state' \in {"run", "stop"}
    BY <1>6 DEF Restart
  <2>5. UNCHANGED <<fan, pos, commands, checks>>
    BY <1>6 DEF Restart
  <2>6. /\ setpoint' \in Setpoints /\ ad' \in 0 .. MaxLen
        /\ calOpen' \in BOOLEAN /\ calDone' \in BOOLEAN
    BY <1>6 DEF Restart
  <2> QED BY <2>1, <2>2, <2>3, <2>4, <2>5, <2>6 DEF Afters
<1> QED BY <1>1, <1>2, <1>3, <1>4, <1>5, <1>6

(* The relay part of the invariant: an interlock in two steps. *)
LEMMA InterlockInvariance ==
    ASSUME TypeOK, NeverBoth, HalfWay, Next
    PROVE  NeverBoth' /\ HalfWay'
<1> USE DEF NeverBoth, HalfWay
<1>1. CASE Control
  <2>1. pc' = "call" /\ on' = on BY <1>1 DEF Control
  <2> QED BY <2>1
<1>2. CASE MakeCall
  <2>1. calls # <<>> /\ pc = "call" BY <1>2 DEF MakeCall
  <2>2. CASE CallRefused
    <3>1. pc' = pc /\ on' = on BY <2>2 DEF CallRefused
    <3> QED BY <2>1, <3>1
  <2>3. CASE CallWithoutFan
    <3>1. pc' = pc /\ on' = on BY <2>3 DEF CallWithoutFan
    <3> QED BY <2>1, <3>1
  <2>4. CASE CallAtLimit
    <3>1. pc' = pc /\ on' \subseteq on BY <2>4 DEF CallAtLimit
    <3> QED BY <2>1, <3>1 DEF TypeOK
  <2>5. CASE CallElsewhere
    <3>1. Head(calls).relay \in Relays BY <2>1, HeadTyped
    <3>2. /\ on' = on \ {Other(Head(calls).relay)} /\ calls' = calls
      BY <2>5 DEF CallElsewhere
    <3> QED BY <2>1, <3>1, <3>2 DEF Other, Relays
  <2> QED BY <1>2, <2>2, <2>3, <2>4, <2>5 DEF MakeCall
<1>3. CASE SetRelay
  <2>1. /\ calls # <<>> /\ Head(calls).relay \in Relays
        /\ Other(Head(calls).relay) \notin on
    BY <1>3, HeadTyped DEF SetRelay
  <2>2. on' \subseteq on \cup {Head(calls).relay} BY <1>3 DEF SetRelay
  <2>3. Other(Head(calls).relay) \in Relays \ {Head(calls).relay}
    BY <2>1 DEF Other, Relays
  <2> QED BY <1>3, <2>1, <2>2, <2>3 DEF SetRelay
<1>4. CASE TestControlMode
  <2>1. on' = on BY <1>4 DEF TestControlMode
  <2>2. pc' # "set"
    BY <1>4 DEF TestControlMode, TestPress, TestRelease, TestUnknown, TestRuns,
                TestOther, TestNone
  <2> QED BY <2>1, <2>2
<1>5. CASE BlockDone
  BY <1>5 DEF BlockDone, PassDone, PressDone, TestDone
<1>6. CASE Tick
  <2>1. on' \subseteq on /\ pc' = pc /\ calls' = calls BY <1>6 DEF Tick, loop
  <2> QED BY <2>1 DEF TypeOK
<1>7. CASE Move BY <1>7 DEF Move, loop
<1>8. CASE Display BY <1>8 DEF Display, loop
<1>9. CASE Calibrate BY <1>9 DEF Calibrate, loop
<1>10. CASE SetMode BY <1>10 DEF SetMode, loop
<1>11. CASE Restart BY <1>11 DEF Restart, Relays
<1> QED BY <1>1, <1>2, <1>3, <1>4, <1>5, <1>6, <1>7, <1>8, <1>9, <1>10, <1>11
    DEF Next, Main

(* The countdowns are written by the timer and the restart only. *)
LEMMA CountdownInvariance ==
    ASSUME TypeOK, OneCountdown, Handover, Next
    PROVE  OneCountdown' /\ Handover'
<1> USE DEF OneCountdown, Handover, clock
<1>1. CASE Tick
  <2>1. CASE Opening /\ CountOpen
    <3>1. closeTime' = 0 /\ closeOn' = FALSE BY <2>1 DEF CountOpen
    <3> QED BY <3>1
  <2>2. CASE Closing /\ CountClose
    <3>1. openTime' = 0 /\ openOn' = FALSE BY <2>2 DEF CountClose
    <3> QED BY <3>1
  <2>3. CASE UNCHANGED clock BY <2>3
  <2> QED BY <1>1, <2>1, <2>2, <2>3 DEF Tick
<1>2. CASE Restart BY <1>2 DEF Restart
<1>3. CASE Main \/ Move \/ Display \/ Calibrate \/ SetMode
  <2>1. UNCHANGED clock
    BY <1>3 DEF Main, Control, MakeCall, SetRelay, TestControlMode, BlockDone, Move,
                Display, Calibrate, SetMode
  <2> QED BY <2>1
<1> QED BY <1>1, <1>2, <1>3 DEF Next

(* The invariant is inductive. *)
LEMMA Invariance == IInv /\ [Next]_vars => IInv'
<1> SUFFICES ASSUME IInv, [Next]_vars PROVE IInv'
    OBVIOUS
<1>1. CASE Next
  <2>1. TypeOK' BY <1>1, MainTyped, OthersTyped DEF IInv, Next
  <2>2. NeverBoth' /\ HalfWay' BY <1>1, InterlockInvariance DEF IInv
  <2>3. OneCountdown' /\ Handover' BY <1>1, CountdownInvariance DEF IInv
  <2> QED BY <2>1, <2>2, <2>3 DEF IInv
<1>2. CASE UNCHANGED vars
  BY <1>2 DEF vars, IInv, TypeOK, NeverBoth, HalfWay, OneCountdown, Handover,
              loop, clock, calibration, tests, budget
<1> QED BY <1>1, <1>2

-----------------------------------------------------------------------------
(* Outside the run modes the damper rests.                                  *)

(* The loop is busy with the calls of a block. *)
Calling == pc \in {"call", "set"}
Pressing == Calling /\ after \in Relays

(* The calls that are left of a sequence that switches both relays OFF. *)
LastOff == <<Automatic("close", FALSE)>>
BothOff == <<Direct("open", FALSE), Direct("close", FALSE)>>
CloseOff == <<Direct("close", FALSE)>>

AllAuto(q) == \A i \in 1 .. Len(q) : q[i].auto

(* Which calls a block can still have to make. *)
CallShape == Calling =>
    /\ after = "test" => AllAuto(calls)
    /\ after = "test" /\ state # "run" => calls \in {AllOff, LastOff, <<>>}
    /\ after \in Relays => calls \in {<<Direct(after, TRUE)>>, <<>>}
    /\ after = "release" =>
         \E r \in Relays : test = {r} /\ calls \in {<<Direct(r, FALSE)>>, <<>>}
    /\ after = "abort" => test # {} /\ calls \in {BothOff, CloseOff, <<>>}

(* A test word stands for the test that runs or is being started. *)
OneTest ==
    /\ test = {} \/ \E r \in Relays : test = {r}
    /\ Pressing => test = {} /\ testing \subseteq {after}
    /\ ~Pressing => testing \subseteq test

(* While it stands, only its relay can be ON. *)
TestHolds ==
    /\ testing # {} /\ ~Pressing => on \subseteq testing
    /\ pc = "set" /\ after = "test" => testing = {}
    /\ Pressing /\ (pc = "set" \/ calls = <<>>) => on \subseteq {after}
    /\ Pressing /\ pc = "call" /\ calls # <<>> /\ Other(after) \in on => ~AtLimit(after)

(* What the calls made so far have switched OFF. *)
Swept ==
    /\ Calling /\ after = "test" /\ state # "run" /\ testing = {} =>
         /\ calls = LastOff => "open" \notin on
         /\ calls = <<>> => on = {}
    /\ Calling /\ after = "release" /\ calls = <<>> => on \cap test = {}
    /\ Calling /\ after = "abort" =>
         /\ calls = CloseOff => "open" \notin on
         /\ calls = <<>> => on = {}

(* In calibration nothing is ON but what a test switches ON. *)
CalibrationRests ==
    state = "calib" =>
         /\ testing = {} /\ ~Calling => on = {}
         /\ Calling /\ after \in {"release", "abort"} /\ testing = {} => on = {}
         /\ Pressing /\ calls # <<>> => on = {} /\ testing = {after} /\ ~AtLimit(after)
         /\ Pressing /\ calls = <<>> => on \subseteq testing

(* Outside the run modes the last two calls of a pass have been made. *)
PassRests ==
    state # "run" /\ pc = "test" /\ testing = {} => on = {}

RestParts ==
    CallShape /\ OneTest /\ TestHolds /\ Swept /\ CalibrationRests /\ PassRests

RestInv == fan = {FALSE} => RestParts

(* A call alone in its sequence. *)
LEMMA SingleCall == \A c : <<c>> # <<>> /\ Head(<<c>>) = c /\ Tail(<<c>>) = <<>>
OBVIOUS

(* Heads and tails of the sequences that switch OFF. *)
LEMMA OffSequences ==
    /\ AllOff # <<>> /\ AllOff # LastOff /\ LastOff # <<>>
    /\ Head(AllOff) = Automatic("open", FALSE) /\ Tail(AllOff) = LastOff
    /\ Head(LastOff) = Automatic("close", FALSE) /\ Tail(LastOff) = <<>>
    /\ BothOff # <<>> /\ BothOff # CloseOff /\ CloseOff # <<>>
    /\ Head(BothOff) = Direct("open", FALSE) /\ Tail(BothOff) = CloseOff
    /\ Head(CloseOff) = Direct("close", FALSE) /\ Tail(CloseOff) = <<>>
<1>1. \A a, b : /\ <<a, b>> # <<>> /\ <<a, b>> # <<b>> /\ <<b>> # <<>>
                /\ Head(<<a, b>>) = a /\ Tail(<<a, b>>) = <<b>>
                /\ Head(<<b>>) = b /\ Tail(<<b>>) = <<>>
  OBVIOUS
<1> HIDE DEF Automatic, Direct
<1>2. /\ AllOff # <<>> /\ AllOff # LastOff /\ LastOff # <<>>
      /\ Head(AllOff) = Automatic("open", FALSE) /\ Tail(AllOff) = LastOff
      /\ Head(LastOff) = Automatic("close", FALSE) /\ Tail(LastOff) = <<>>
  BY <1>1 DEF AllOff, LastOff
<1>3. /\ BothOff # <<>> /\ BothOff # CloseOff /\ CloseOff # <<>>
      /\ Head(BothOff) = Direct("open", FALSE) /\ Tail(BothOff) = CloseOff
      /\ Head(CloseOff) = Direct("close", FALSE) /\ Tail(CloseOff) = <<>>
  BY <1>1 DEF BothOff, CloseOff
<1> QED BY <1>2, <1>3

(* What the calls carry. *)
LEMMA CallFields ==
    /\ \A r, s : /\ Automatic(r, s).relay = r /\ Automatic(r, s).status = s
                 /\ Automatic(r, s).auto = TRUE
    /\ \A r, s : /\ Direct(r, s).relay = r /\ Direct(r, s).status = s
                 /\ Direct(r, s).auto = FALSE /\ Direct(r, s).schedule = FALSE
    /\ \A r : Scheduled(r).auto = TRUE
BY DEF Automatic, Direct, Scheduled

(* The calls of the automatic control come through control_damper. *)
LEMMA AutoSequences ==
    /\ AllAuto(<<>>)
    /\ \A c : c.auto = TRUE => AllAuto(<<c>>)
    /\ \A b, c : b.auto = TRUE /\ c.auto = TRUE => AllAuto(<<b, c>>)
    /\ \A q \in Seq(Call) : AllAuto(q) /\ q # <<>> => Head(q).auto = TRUE /\ AllAuto(Tail(q))
<1>1. AllAuto(<<>>) BY DEF AllAuto
<1>2. \A c : c.auto = TRUE => AllAuto(<<c>>) BY DEF AllAuto
<1>3. \A b, c : b.auto = TRUE /\ c.auto = TRUE => AllAuto(<<b, c>>) BY DEF AllAuto
<1>4. ASSUME NEW q \in Seq(Call), AllAuto(q), q # <<>>
      PROVE  Head(q).auto = TRUE /\ AllAuto(Tail(q))
  <2>1. Len(q) \in Nat /\ Len(q) > 0 /\ Head(q) = q[1] BY <1>4
  <2>2. Head(q) \in Call BY <1>4
  <2>3. Head(q).auto = TRUE BY <1>4, <2>1, <2>2 DEF AllAuto, Call
  <2>4. \A i \in 1 .. Len(Tail(q)) : Tail(q)[i] = q[i + 1] /\ i + 1 \in 1 .. Len(q)
    BY <1>4, <2>1
  <2> QED BY <1>4, <2>3, <2>4 DEF AllAuto
<1> QED BY <1>1, <1>2, <1>3, <1>4

(* Every decision of a running pass comes through control_damper. *)
LEMMA DecisionsAuto == \A q \in Decisions : AllAuto(q)
<1> SUFFICES ASSUME NEW q \in Decisions PROVE AllAuto(q)
    OBVIOUS
<1>1. \/ q = <<>>
      \/ \E c : c.auto = TRUE /\ q = <<c>>
      \/ \E b, c : b.auto = TRUE /\ c.auto = TRUE /\ q = <<b, c>>
  <2>1. CASE q \in {<<Automatic("open", TRUE)>>, <<Automatic("close", TRUE)>>,
                    <<Automatic("open", FALSE)>>, <<Scheduled("close")>>}
    BY <2>1, CallFields, Zenon
  <2>2. CASE q = <<Automatic("open", TRUE), Automatic("open", FALSE)>>
    BY <2>2, CallFields, Zenon
  <2>3. CASE q = <<>> BY <2>3
  <2> QED BY <2>1, <2>2, <2>3
      DEF Decisions, HumidCall, CarbonCalls, TemperatureCalls
<1> QED BY <1>1, AutoSequences

(* The relays of the calls that switch OFF. *)
LEMMA OffRelays ==
    /\ Head(AllOff).relay = "open" /\ Head(LastOff).relay = "close"
    /\ Head(BothOff).relay = "open" /\ Head(CloseOff).relay = "close"
    /\ Head(BothOff).auto = FALSE /\ Head(CloseOff).auto = FALSE
<1>1. /\ Head(AllOff) = Automatic("open", FALSE) /\ Head(LastOff) = Automatic("close", FALSE)
      /\ Head(BothOff) = Direct("open", FALSE) /\ Head(CloseOff) = Direct("close", FALSE)
  BY OffSequences
<1> QED BY <1>1 DEF Automatic, Direct

(* A new pass: the calls of the blocks come through control_damper. *)
LEMMA RestControl ==
    ASSUME IInv, RestParts, Control
    PROVE  RestParts'
<1> USE DEF Calling, Pressing
<1>1. /\ pc = "control" /\ pc' = "call" /\ after' = "test" /\ ~Calling
      /\ UNCHANGED <<on, pos, testing, test>>
  BY DEF Control, tests
<1>2. "test" \notin Relays BY DEF Relays
<1>3. OneTest' BY <1>1, <1>2 DEF OneTest, RestParts
<1>4. TestHolds' BY <1>1, <1>2 DEF TestHolds, RestParts
<1>5. CallShape' /\ Swept' /\ CalibrationRests'
  <2>1. CASE RunBlock
    <3>1. state' = "run" BY <2>1 DEF RunBlock
    <3>2. AllAuto(calls')
      <4>1. CASE CheckClose BY <4>1, CallFields, AutoSequences DEF CheckClose
      <4>2. CASE CheckOpen BY <4>2, CallFields, AutoSequences DEF CheckOpen
      <4>3. CASE CheckNothing BY <4>3, AutoSequences DEF CheckNothing
      <4>4. CASE ControlDamper BY <4>4, DecisionsAuto DEF ControlDamper
      <4> QED BY <2>1, <4>1, <4>2, <4>3, <4>4 DEF RunBlock
    <3> QED BY <1>1, <1>2, <3>1, <3>2 DEF CallShape, Swept, CalibrationRests, AllAuto
  <2>2. CASE StopBlock
    <3>1. calls' = AllOff /\ state' # "run" BY <2>2 DEF StopBlock
    <3>2. AllAuto(AllOff) BY CallFields, AutoSequences DEF AllOff
    <3>3. AllOff # <<>> /\ AllOff # LastOff BY OffSequences
    <3> QED BY <1>1, <1>2, <3>1, <3>2, <3>3 DEF CallShape, Swept, CalibrationRests, AllAuto
  <2>3. CASE CalibrationBlock
    <3>1. calls' = <<>> /\ state = "calib" /\ state' = "calib"
      BY <2>3 DEF CalibrationBlock
    <3>2. testing = {} => on = {} BY <1>1, <3>1 DEF CalibrationRests, RestParts
    <3>3. <<>> # LastOff BY OffSequences
    <3> QED BY <1>1, <1>2, <3>1, <3>2, <3>3, AutoSequences
        DEF CallShape, Swept, CalibrationRests, AllAuto
  <2> QED BY <2>1, <2>2, <2>3 DEF Control
<1>6. PassRests' BY <1>1 DEF PassRests
<1> QED BY <1>3, <1>4, <1>5, <1>6 DEF RestParts

(* What is left of the calls when the first of them is made. *)
LEMMA CallAdvances ==
    ASSUME TypeOK, CallShape, Calling, calls # <<>>
    PROVE  /\ after = "test" => AllAuto(Tail(calls))
           /\ after = "test" /\ state # "run" =>
                \/ calls = AllOff /\ Tail(calls) = LastOff /\ Head(calls) = Automatic("open", FALSE)
                \/ calls = LastOff /\ Tail(calls) = <<>> /\ Head(calls) = Automatic("close", FALSE)
           /\ after \in Relays => Tail(calls) = <<>> /\ Head(calls) = Direct(after, TRUE)
           /\ after = "release" =>
                \E r \in Relays : /\ test = {r} /\ Tail(calls) = <<>>
                                  /\ Head(calls) = Direct(r, FALSE)
           /\ after = "abort" =>
                \/ calls = BothOff /\ Tail(calls) = CloseOff /\ Head(calls) = Direct("open", FALSE)
                \/ calls = CloseOff /\ Tail(calls) = <<>> /\ Head(calls) = Direct("close", FALSE)
<1>1. after = "test" => AllAuto(Tail(calls))
  BY AutoSequences DEF CallShape, TypeOK
<1>2. after = "test" /\ state # "run" =>
        \/ calls = AllOff /\ Tail(calls) = LastOff /\ Head(calls) = Automatic("open", FALSE)
        \/ calls = LastOff /\ Tail(calls) = <<>> /\ Head(calls) = Automatic("close", FALSE)
  BY OffSequences DEF CallShape
<1>3. after \in Relays => Tail(calls) = <<>> /\ Head(calls) = Direct(after, TRUE)
  <2>1. after \in Relays => calls = <<Direct(after, TRUE)>> BY DEF CallShape
  <2> HIDE DEF Direct
  <2> QED BY <2>1, SingleCall
<1>4. after = "release" =>
        \E r \in Relays : /\ test = {r} /\ Tail(calls) = <<>>
                          /\ Head(calls) = Direct(r, FALSE)
  <2>1. after = "release" =>
          \E r \in Relays : test = {r} /\ calls = <<Direct(r, FALSE)>>
    BY DEF CallShape
  <2> HIDE DEF Direct
  <2> QED BY <2>1, SingleCall
<1>5. after = "abort" =>
        \/ calls = BothOff /\ Tail(calls) = CloseOff /\ Head(calls) = Direct("open", FALSE)
        \/ calls = CloseOff /\ Tail(calls) = <<>> /\ Head(calls) = Direct("close", FALSE)
  BY OffSequences DEF CallShape
<1> QED BY <1>1, <1>2, <1>3, <1>4, <1>5

(* The first write of a call, or its refusal while a test runs. *)
LEMMA RestMakeCall ==
    ASSUME IInv, RestParts, fan = {FALSE}, MakeCall
    PROVE  RestParts'
<1> USE DEF Calling, Pressing
<1>1. /\ pc = "call" /\ calls # <<>> /\ Calling
      /\ UNCHANGED <<after, state, pos, testing, test>>
  BY DEF MakeCall, tests
<1>2. /\ on \in SUBSET Relays /\ NeverBoth /\ Head(calls).relay \in Relays
      /\ after \in Afters
  BY <1>1, HeadTyped DEF IInv, TypeOK
<1>3. /\ after = "test" => Head(calls).auto = TRUE
      /\ after # "test" => Head(calls).auto = FALSE
  <2>1. after = "test" => Head(calls).auto = TRUE
    BY <1>1, AutoSequences DEF CallShape, RestParts, IInv, TypeOK
  <2>2. after # "test" => \E r, s : Head(calls) = Direct(r, s)
    BY <1>1, <1>2, CallAdvances DEF IInv, RestParts, Afters, Relays
  <2> QED BY <2>1, <2>2, CallFields
<1>4. \/ /\ after = "test" /\ testing # {}
         /\ calls' = Tail(calls) /\ pc' = "call" /\ on' = on
      \/ /\ AtLimit(Head(calls).relay) /\ (after = "test" => testing = {})
         /\ calls' = Tail(calls) /\ pc' = "call" /\ on' = on \ {Head(calls).relay}
      \/ /\ ~AtLimit(Head(calls).relay) /\ (after = "test" => testing = {})
         /\ calls' = calls /\ pc' = "set" /\ on' = on \ {Other(Head(calls).relay)}
  BY <1>1, <1>3 DEF MakeCall, CallRefused, CallWithoutFan, CallAtLimit, CallElsewhere
<1>5. OneTest'
  <2>1. Calling' /\ (Pressing' <=> Pressing) BY <1>1, <1>4
  <2> QED BY <1>1, <2>1 DEF OneTest, RestParts
<1>6. PassRests' BY <1>4 DEF PassRests
<1>7. CASE after = "test"
  <2>1. after \notin Relays BY <1>7 DEF Relays
  <2>2. CallShape'
    BY <1>1, <1>4, <1>7, <2>1, CallAdvances DEF CallShape, RestParts, AllAuto, IInv
  <2>3. TestHolds' BY <1>1, <1>4, <1>7, <2>1 DEF TestHolds, RestParts
  <2>4. Swept'
    <3>1. state # "run" /\ testing = {} =>
            /\ calls' = LastOff => "open" \notin on'
            /\ calls' = <<>> => on' = {}
      <4> SUFFICES ASSUME state # "run", testing = {}
                   PROVE  /\ calls' = LastOff => "open" \notin on'
                          /\ calls' = <<>> => on' = {}
          OBVIOUS
      <4>1. CASE calls = AllOff
        <5>1. Head(calls).relay = "open" /\ Tail(calls) = LastOff
              /\ LastOff # <<>> /\ AllOff # LastOff /\ AllOff # <<>>
          BY <4>1, OffSequences, OffRelays
        <5> QED BY <1>4, <4>1, <5>1
      <4>2. CASE calls = LastOff
        <5>1. Head(calls).relay = "close" /\ Tail(calls) = <<>> /\ LastOff # <<>>
          BY <4>2, OffSequences, OffRelays
        <5>2. "open" \notin on BY <1>1, <1>7, <4>2 DEF Swept, RestParts
        <5> QED BY <1>2, <1>4, <5>1, <5>2, <4>2 DEF Relays
      <4> QED BY <1>1, <1>7, <4>1, <4>2 DEF CallShape, RestParts
    <3> QED BY <1>1, <1>7, <3>1 DEF Swept
  <2>5. CalibrationRests' BY <1>1, <1>4, <1>7, <2>1 DEF CalibrationRests
  <2> QED BY <1>5, <1>6, <2>2, <2>3, <2>4, <2>5 DEF RestParts
<1>8. CASE after \in Relays
  <2>1. /\ Head(calls).relay = after /\ Tail(calls) = <<>> /\ after # "test"
        /\ after \notin {"release", "abort"}
    <3>1. Head(calls) = Direct(after, TRUE) /\ Tail(calls) = <<>>
      BY <1>1, <1>8, CallAdvances DEF RestParts, IInv
    <3>2. Head(calls).relay = after BY <3>1 DEF Direct
    <3> QED BY <1>8, <3>1, <3>2 DEF Relays
  <2>2. CallShape' BY <1>1, <1>4, <1>8, <2>1 DEF CallShape, RestParts
  <2>3. on' \subseteq {after} /\ (AtLimit(after) => Other(after) \notin on)
    <3>1. Other(after) \in on => ~AtLimit(after)
      BY <1>1, <1>8 DEF TestHolds, RestParts
    <3> QED BY <1>2, <1>4, <1>8, <2>1, <3>1 DEF Other, Relays
  <2>4. TestHolds' BY <1>1, <1>4, <1>8, <2>1, <2>3 DEF TestHolds
  <2>5. Swept' BY <1>1, <1>8, <2>1 DEF Swept
  <2>6. CalibrationRests'
    <3>1. state = "calib" => on = {} /\ testing = {after} /\ ~AtLimit(after)
      BY <1>1, <1>8 DEF CalibrationRests, RestParts
    <3>2. AtLimit(after)' <=> AtLimit(after) BY <1>1 DEF AtLimit
    <3> QED BY <1>1, <1>4, <1>8, <2>1, <3>1, <3>2 DEF CalibrationRests
  <2> QED BY <1>5, <1>6, <2>2, <2>4, <2>5, <2>6 DEF RestParts
<1>9. CASE after = "release"
  <2>1. PICK r \in Relays : /\ test = {r} /\ Tail(calls) = <<>>
                            /\ Head(calls) = Direct(r, FALSE)
    BY <1>1, <1>9, CallAdvances DEF RestParts, IInv
  <2>2. Head(calls).relay = r /\ after \notin Relays
    BY <1>9, <2>1 DEF Relays, Direct
  <2>3. CallShape' BY <1>1, <1>4, <1>9, <2>1, <2>2 DEF CallShape, RestParts
  <2>4. on' \subseteq on BY <1>4
  <2>5. TestHolds' BY <1>1, <1>9, <2>2, <2>4 DEF TestHolds, RestParts
  <2>6. Swept' BY <1>1, <1>4, <1>9, <2>1, <2>2 DEF Swept
  <2>7. CalibrationRests' BY <1>1, <1>4, <1>9, <2>2, <2>4 DEF CalibrationRests, RestParts
  <2> QED BY <1>5, <1>6, <2>3, <2>5, <2>6, <2>7 DEF RestParts
<1>10. CASE after = "abort"
  <2>1. after \notin Relays BY <1>10 DEF Relays
  <2>2. on' \subseteq on BY <1>4
  <2>3. CallShape'
    BY <1>1, <1>4, <1>10, <2>1, CallAdvances DEF CallShape, RestParts, IInv
  <2>4. TestHolds' BY <1>1, <1>10, <2>1, <2>2 DEF TestHolds, RestParts
  <2>5. /\ calls' = CloseOff => "open" \notin on'
        /\ calls' = <<>> => on' = {}
    <3>1. CASE calls = BothOff
      <4>1. Head(calls).relay = "open" /\ Tail(calls) = CloseOff
            /\ CloseOff # <<>> /\ BothOff # CloseOff /\ BothOff # <<>>
        BY <3>1, OffSequences, OffRelays
      <4> QED BY <1>4, <1>10, <3>1, <4>1
    <3>2. CASE calls = CloseOff
      <4>1. Head(calls).relay = "close" /\ Tail(calls) = <<>> /\ CloseOff # <<>>
        BY <3>2, OffSequences, OffRelays
      <4>2. "open" \notin on BY <1>1, <1>10, <3>2 DEF Swept, RestParts
      <4> QED BY <1>2, <1>4, <1>10, <3>2, <4>1, <4>2 DEF Relays
    <3> QED BY <1>1, <1>10, <3>1, <3>2 DEF CallShape, RestParts
  <2>6. Swept' BY <1>1, <1>10, <2>5 DEF Swept
  <2>7. CalibrationRests' BY <1>1, <1>4, <1>10, <2>1, <2>2 DEF CalibrationRests, RestParts
  <2> QED BY <1>5, <1>6, <2>3, <2>4, <2>6, <2>7 DEF RestParts
<1> QED BY <1>2, <1>7, <1>8, <1>9, <1>10 DEF Afters, Relays

(* The second write of a call. *)
LEMMA RestSetRelay ==
    ASSUME IInv, RestParts, SetRelay
    PROVE  RestParts'
<1> USE DEF Calling, Pressing
<1>1. /\ pc = "set" /\ pc' = "call" /\ Calling /\ calls' = Tail(calls)
      /\ UNCHANGED <<after, state, pos, testing, test>>
  BY DEF SetRelay, tests
<1>2. /\ on \in SUBSET Relays /\ calls # <<>> /\ Other(Head(calls).relay) \notin on
      /\ after \in Afters
  BY <1>1 DEF IInv, TypeOK, HalfWay
<1>3. /\ on' \subseteq on \cup {Head(calls).relay}
      /\ Head(calls).status = FALSE => on' = on \ {Head(calls).relay}
  BY DEF SetRelay
<1>4. OneTest' BY <1>1 DEF OneTest, RestParts
<1>5. PassRests' BY <1>1 DEF PassRests
<1>6. CASE after = "test"
  <2>1. testing = {} /\ after \notin Relays
    BY <1>1, <1>6 DEF TestHolds, RestParts, Relays
  <2>2. CallShape'
    BY <1>1, <1>2, <1>6, <2>1, CallAdvances DEF CallShape, RestParts, IInv
  <2>3. TestHolds' BY <1>1, <2>1 DEF TestHolds
  <2>4. state # "run" => /\ calls' = LastOff => "open" \notin on'
                         /\ calls' = <<>> => on' = {}
    <3> SUFFICES ASSUME state # "run"
                 PROVE  /\ calls' = LastOff => "open" \notin on'
                        /\ calls' = <<>> => on' = {}
        OBVIOUS
    <3>1. CASE calls = AllOff
      <4>1. Head(calls) = Automatic("open", FALSE) /\ Tail(calls) = LastOff /\ LastOff # <<>>
        BY <3>1, OffSequences
      <4>2. on' = on \ {"open"} BY <1>3, <4>1 DEF Automatic
      <4> QED BY <1>1, <4>1, <4>2
    <3>2. CASE calls = LastOff
      <4>1. Head(calls) = Automatic("close", FALSE) /\ Tail(calls) = <<>> /\ LastOff # <<>>
        BY <3>2, OffSequences
      <4>2. on' = on \ {"close"} /\ "open" \notin on
        BY <1>2, <1>3, <4>1 DEF Automatic, Other
      <4> QED BY <1>1, <1>2, <4>1, <4>2 DEF Relays
    <3> QED BY <1>1, <1>2, <1>6, <3>1, <3>2 DEF CallShape, RestParts
  <2>5. Swept' BY <1>1, <1>6, <2>4 DEF Swept
  <2>6. CalibrationRests' BY <1>1, <1>6, <2>1 DEF CalibrationRests
  <2> QED BY <1>4, <1>5, <2>2, <2>3, <2>5, <2>6 DEF RestParts
<1>7. CASE after \in Relays
  <2>1. Head(calls) = Direct(after, TRUE) /\ Tail(calls) = <<>>
    BY <1>1, <1>2, <1>7, CallAdvances DEF RestParts, IInv
  <2>2. on' \subseteq {after}
    <3>1. on \subseteq {after} BY <1>1, <1>7 DEF TestHolds, RestParts
    <3>2. Head(calls).relay = after BY <2>1 DEF Direct
    <3> QED BY <1>3, <3>1, <3>2
  <2>3. after \notin {"test", "release", "abort"} BY <1>7 DEF Relays
  <2>4. CallShape' BY <1>1, <1>7, <2>1, <2>3 DEF CallShape
  <2>5. TestHolds' BY <1>1, <1>7, <2>1, <2>2 DEF TestHolds
  <2>6. Swept' BY <1>1, <2>3 DEF Swept
  <2>7. CalibrationRests'
    <3>1. state = "calib" => testing = {after}
      BY <1>1, <1>2, <1>7 DEF CalibrationRests, RestParts
    <3> QED BY <1>1, <1>7, <2>1, <2>2, <2>3, <3>1 DEF CalibrationRests
  <2> QED BY <1>4, <1>5, <2>4, <2>5, <2>6, <2>7 DEF RestParts
<1>8. CASE after = "release"
  <2>1. PICK r \in Relays : /\ test = {r} /\ Tail(calls) = <<>>
                            /\ Head(calls) = Direct(r, FALSE)
    BY <1>1, <1>2, <1>8, CallAdvances DEF RestParts, IInv
  <2>2. on' = on \ {r} /\ after \notin Relays
    BY <1>3, <1>8, <2>1 DEF Direct, Relays
  <2>3. CallShape' BY <1>1, <1>8, <2>1, <2>2 DEF CallShape
  <2>4. TestHolds' BY <1>1, <1>8, <2>2 DEF TestHolds, RestParts
  <2>5. Swept' BY <1>1, <1>8, <2>1, <2>2 DEF Swept
  <2>6. CalibrationRests' BY <1>1, <1>8, <2>2 DEF CalibrationRests, RestParts
  <2> QED BY <1>4, <1>5, <2>3, <2>4, <2>5, <2>6 DEF RestParts
<1>9. CASE after = "abort"
  <2>1. after \notin Relays BY <1>9 DEF Relays
  <2>2. /\ on' \subseteq on
        /\ calls' = CloseOff => "open" \notin on'
        /\ calls' = <<>> => on' = {}
    <3>1. CASE calls = BothOff
      <4>1. Head(calls) = Direct("open", FALSE) /\ Tail(calls) = CloseOff /\ CloseOff # <<>>
        BY <3>1, OffSequences
      <4>2. on' = on \ {"open"} BY <1>3, <4>1 DEF Direct
      <4> QED BY <1>1, <4>1, <4>2
    <3>2. CASE calls = CloseOff
      <4>1. Head(calls) = Direct("close", FALSE) /\ Tail(calls) = <<>> /\ CloseOff # <<>>
        BY <3>2, OffSequences
      <4>2. on' = on \ {"close"} /\ "open" \notin on
        BY <1>2, <1>3, <4>1 DEF Direct, Other
      <4> QED BY <1>1, <1>2, <4>1, <4>2 DEF Relays
    <3> QED BY <1>1, <1>2, <1>9, <3>1, <3>2 DEF CallShape, RestParts
  <2>3. CallShape'
    BY <1>1, <1>2, <1>9, <2>1, CallAdvances DEF CallShape, RestParts, IInv
  <2>4. TestHolds' BY <1>1, <1>9, <2>1, <2>2 DEF TestHolds, RestParts
  <2>5. Swept' BY <1>1, <1>9, <2>2 DEF Swept
  <2>6. CalibrationRests' BY <1>1, <1>9, <2>1, <2>2 DEF CalibrationRests, RestParts
  <2> QED BY <1>4, <1>5, <2>3, <2>4, <2>5, <2>6 DEF RestParts
<1> QED BY <1>2, <1>6, <1>7, <1>8, <1>9 DEF Afters, Relays

(* The test buttons are looked at between the passes. *)
LEMMA RestTestControlMode ==
    ASSUME IInv, RestParts, TestControlMode
    PROVE  RestParts'
<1> USE DEF Calling, Pressing
<1>1. /\ pc = "test" /\ ~Calling /\ UNCHANGED <<state, on, pos>>
  BY DEF TestControlMode
<1>2. /\ test = {} \/ \E r \in Relays : test = {r}
      /\ testing \subseteq test /\ (testing # {} => on \subseteq testing)
      /\ state = "calib" /\ testing = {} => on = {}
  BY <1>1 DEF OneTest, TestHolds, CalibrationRests, RestParts
<1>3. ASSUME pc' = "control", UNCHANGED <<testing, test>>
      PROVE  RestParts'
  BY <1>1, <1>2, <1>3
     DEF RestParts, CallShape, OneTest, TestHolds, Swept, CalibrationRests, PassRests
<1>4. ASSUME NEW r \in Relays, TestPress(r)
      PROVE  RestParts'
  <2>1. CASE AtLimit(r) BY <1>3, <1>4, <2>1 DEF TestPress
  <2>2. CASE ~AtLimit(r)
    <3>1. /\ pc' = "call" /\ calls' = <<Direct(r, TRUE)>> /\ after' = r
          /\ test = {} /\ test' = test /\ testing = {} /\ testing' = {r}
      BY <1>2, <1>4, <2>2 DEF TestPress
    <3>2. r \notin {"test", "release", "abort"} BY DEF Relays
    <3>3. calls' # <<>> BY <3>1, SingleCall
    <3>4. ~AtLimit(r)' BY <1>1, <2>2 DEF AtLimit
    <3>5. CallShape' BY <3>1, <3>2 DEF CallShape
    <3>6. OneTest' BY <3>1 DEF OneTest
    <3>7. TestHolds' BY <3>1, <3>2, <3>3, <3>4 DEF TestHolds, AtLimit
    <3>8. Swept' BY <3>1, <3>2 DEF Swept
    <3>9. CalibrationRests'
      BY <1>1, <1>2, <3>1, <3>2, <3>3, <3>4 DEF CalibrationRests, AtLimit
    <3>10. PassRests' BY <3>1 DEF PassRests
    <3> QED BY <3>5, <3>6, <3>7, <3>8, <3>9, <3>10 DEF RestParts
  <2> QED BY <2>1, <2>2
<1>5. ASSUME NEW r \in Relays, TestRelease(r)
      PROVE  RestParts'
  <2>1. /\ pc' = "call" /\ calls' = <<Direct(r, FALSE)>> /\ after' = "release"
        /\ test = {r} /\ UNCHANGED <<testing, test>>
    BY <1>5 DEF TestRelease
  <2>2. after' \notin Relays /\ calls' # <<>> BY <2>1, SingleCall DEF Relays
  <2>3. CallShape' BY <2>1, <2>2 DEF CallShape
  <2>4. OneTest' BY <1>2, <2>1, <2>2 DEF OneTest
  <2>5. TestHolds' BY <1>1, <1>2, <2>1, <2>2 DEF TestHolds
  <2>6. Swept' BY <2>1, <2>2 DEF Swept
  <2>7. CalibrationRests' BY <1>1, <1>2, <2>1, <2>2 DEF CalibrationRests
  <2>8. PassRests' BY <2>1 DEF PassRests
  <2> QED BY <2>3, <2>4, <2>5, <2>6, <2>7, <2>8 DEF RestParts
<1>6. CASE TestOther
  <2>1. /\ pc' = "call" /\ calls' = BothOff /\ after' = "abort"
        /\ test # {} /\ UNCHANGED <<testing, test>>
    BY <1>6 DEF TestOther, BothOff
  <2>2. after' \notin Relays /\ calls' # <<>> /\ calls' # CloseOff
    BY <2>1, OffSequences DEF Relays
  <2>3. CallShape' BY <2>1, <2>2 DEF CallShape
  <2>4. OneTest' BY <1>2, <2>1, <2>2 DEF OneTest
  <2>5. TestHolds' BY <1>1, <1>2, <2>1, <2>2 DEF TestHolds
  <2>6. Swept' BY <2>1, <2>2 DEF Swept
  <2>7. CalibrationRests' BY <1>1, <1>2, <2>1, <2>2 DEF CalibrationRests
  <2>8. PassRests' BY <2>1 DEF PassRests
  <2> QED BY <2>3, <2>4, <2>5, <2>6, <2>7, <2>8 DEF RestParts
<1>7. CASE TestUnknown BY <1>3, <1>7 DEF TestUnknown
<1>8. CASE TestRuns BY <1>3, <1>8 DEF TestRuns, tests
<1>9. CASE TestNone
  <2>1. pc' = "control" /\ test = {} /\ test' = {} /\ testing' = {} /\ testing = {}
    BY <1>2, <1>9 DEF TestNone
  <2> QED BY <1>1, <1>2, <2>1
      DEF RestParts, CallShape, OneTest, TestHolds, Swept, CalibrationRests, PassRests
<1> QED BY <1>4, <1>5, <1>6, <1>7, <1>8, <1>9 DEF TestControlMode

(* What a block does when its calls are made. *)
LEMMA RestBlockDone ==
    ASSUME IInv, RestParts, BlockDone
    PROVE  RestParts'
<1> USE DEF Calling, Pressing
<1>1. /\ pc = "call" /\ calls = <<>> /\ Calling /\ UNCHANGED <<calls, after, state, on, pos>>
  BY DEF BlockDone
<1>2. calls # LastOff /\ calls # CloseOff BY <1>1, OffSequences
<1>3. CASE PassDone
  <2>1. /\ after = "test" /\ after \notin Relays /\ pc' = "test"
        /\ UNCHANGED <<testing, test>>
    BY <1>3 DEF PassDone, tests, Relays
  <2>2. state # "run" /\ testing = {} => on = {}
    BY <1>1, <2>1 DEF Swept, RestParts
  <2>3. CallShape' /\ Swept' BY <2>1 DEF CallShape, Swept
  <2>4. OneTest' /\ TestHolds' BY <1>1, <2>1 DEF OneTest, TestHolds, RestParts
  <2>5. CalibrationRests' /\ PassRests'
    BY <1>1, <2>1, <2>2 DEF CalibrationRests, PassRests
  <2> QED BY <2>3, <2>4, <2>5 DEF RestParts
<1>4. CASE PressDone
  <2>1. /\ after \in Relays /\ pc' = "control" /\ test' = {after} /\ testing' = testing
    BY <1>4 DEF PressDone
  <2>2. testing \subseteq {after} /\ on \subseteq {after}
        /\ (state = "calib" => on \subseteq testing)
    BY <1>1, <2>1 DEF OneTest, TestHolds, CalibrationRests, RestParts
  <2>3. testing # {} => on \subseteq testing BY <2>2
  <2> QED BY <1>1, <2>1, <2>2, <2>3
      DEF RestParts, CallShape, OneTest, TestHolds, Swept, CalibrationRests, PassRests
<1>5. CASE TestDone
  <2>1. /\ after \in {"release", "abort"} /\ after \notin Relays
        /\ pc' = "control" /\ test' = {}
    BY <1>5 DEF TestDone, Relays
  <2>2. testing \subseteq test BY <1>1, <2>1 DEF OneTest, RestParts
  <2>3. testing' = {} BY <1>5, <2>2 DEF TestDone
  <2>4. state = "calib" => on = {}
    <3>1. CASE after = "abort" BY <1>1, <3>1 DEF Swept, RestParts
    <3>2. CASE after = "release" /\ testing = {}
      BY <1>1, <3>2 DEF CalibrationRests, RestParts
    <3>3. CASE after = "release" /\ testing # {}
      <4>1. on \subseteq testing /\ on \cap test = {}
        BY <1>1, <2>1, <3>3 DEF TestHolds, Swept, RestParts
      <4> QED BY <2>2, <4>1
    <3> QED BY <2>1, <3>1, <3>2, <3>3
  <2> QED BY <1>1, <2>1, <2>3, <2>4
      DEF RestParts, CallShape, OneTest, TestHolds, Swept, CalibrationRests, PassRests
<1> QED BY <1>3, <1>4, <1>5 DEF BlockDone

(* The timer stops a relay and its test at the limit switch. *)
LEMMA RestTick ==
    ASSUME IInv, RestParts, Tick
    PROVE  RestParts'
<1> USE DEF Calling, Pressing
<1>1. UNCHANGED <<pc, calls, after, state, pos, test>> BY DEF Tick, loop
<1>2. PICK ends : /\ ends = {r \in Relays : AtLimit(r)}
                  /\ on' = on \ ends /\ testing' = testing \ ends
  BY DEF Tick
<1>3. on' \subseteq on /\ testing' \subseteq testing BY <1>2
<1>4. \A r : AtLimit(r)' <=> AtLimit(r) BY <1>1 DEF AtLimit
<1>5. ~Pressing /\ testing # {} => on' \subseteq testing'
  BY <1>2 DEF TestHolds, RestParts
<1>6. CallShape' BY <1>1 DEF CallShape, RestParts
<1>7. OneTest' BY <1>1, <1>3 DEF OneTest, RestParts
<1>8. TestHolds'
  <2>1. testing' # {} /\ ~Pressing' => on' \subseteq testing' BY <1>1, <1>3, <1>5
  <2>2. pc' = "set" /\ after' = "test" => testing' = {}
    BY <1>1, <1>3 DEF TestHolds, RestParts
  <2>3. Pressing' /\ (pc' = "set" \/ calls' = <<>>) => on' \subseteq {after'}
    BY <1>1, <1>3 DEF TestHolds, RestParts
  <2>4. Pressing' /\ pc' = "call" /\ calls' # <<>> /\ Other(after)' \in on' => ~AtLimit(after)'
    <3>1. Other(after)' = Other(after) BY <1>1
    <3> QED BY <1>1, <1>3, <1>4, <3>1 DEF TestHolds, RestParts
  <2> QED BY <2>1, <2>2, <2>3, <2>4 DEF TestHolds
<1>9. ASSUME ~Pressing, testing' = {}, testing = {} => on = {}
      PROVE  on' = {}
  BY <1>3, <1>5, <1>9
<1>10. Swept'
  <2>1. ASSUME Calling, after = "test", state # "run", testing' = {}
        PROVE  /\ calls = LastOff => "open" \notin on'
               /\ calls = <<>> => on' = {}
    <3>1. ~Pressing BY <2>1 DEF Relays
    <3>2. CASE testing = {} BY <1>3, <2>1, <3>2 DEF Swept, RestParts
    <3>3. CASE testing # {} BY <1>5, <2>1, <3>1, <3>3
    <3> QED BY <3>2, <3>3
  <2>2. Calling /\ after = "release" /\ calls = <<>> => on' \cap test = {}
    BY <1>3 DEF Swept, RestParts
  <2>3. Calling /\ after = "abort" =>
          /\ calls = CloseOff => "open" \notin on'
          /\ calls = <<>> => on' = {}
    BY <1>3 DEF Swept, RestParts
  <2> QED BY <1>1, <2>1, <2>2, <2>3 DEF Swept
<1>11. CalibrationRests'
  <2> SUFFICES ASSUME state = "calib" PROVE CalibrationRests'
      BY <1>1 DEF CalibrationRests
  <2>1. testing' = {} /\ ~Calling => on' = {}
    BY <1>9 DEF CalibrationRests, RestParts
  <2>2. Calling /\ after \in {"release", "abort"} /\ testing' = {} => on' = {}
    BY <1>9 DEF CalibrationRests, RestParts, Relays
  <2>3. Pressing /\ calls # <<>> => on' = {} /\ testing' = {after} /\ ~AtLimit(after)
    <3>1. Pressing /\ calls # <<>> => on = {} /\ testing = {after} /\ ~AtLimit(after)
      BY DEF CalibrationRests, RestParts
    <3> QED BY <1>2, <3>1
  <2>4. Pressing /\ calls = <<>> => on' \subseteq testing'
    BY <1>2 DEF CalibrationRests, RestParts
  <2> QED BY <1>1, <1>4, <2>1, <2>2, <2>3, <2>4 DEF CalibrationRests, AtLimit
<1>12. PassRests'
  BY <1>1, <1>9 DEF PassRests, RestParts
<1> QED BY <1>6, <1>7, <1>8, <1>10, <1>11, <1>12 DEF RestParts

(* The motor moves: never into the limit of a relay that a press replaces. *)
LEMMA RestMove ==
    ASSUME IInv, RestParts, Move
    PROVE  RestParts'
<1> USE DEF Calling, Pressing
<1>1. UNCHANGED <<pc, calls, after, state, on, testing, test>> BY DEF Move, loop, tests
<1>2. on # {} BY DEF Move, Opening, Closing
<1>3. after \in Relays /\ Other(after) \in on /\ ~AtLimit(after) => ~AtLimit(after)'
  <2>1. pos \in Int /\ 0 <= pos /\ pos <= Travel /\ Travel \in Int /\ on # {"open", "close"}
        /\ on \in SUBSET {"open", "close"}
    BY DamperAssumption DEF IInv, TypeOK, NeverBoth, Relays
  <2>2. \/ "open" \in on /\ pos' = pos + 1
        \/ "open" \notin on /\ pos' = pos - 1
    BY DEF Move, Opening
  <2>3. "open" \in on => "close" \notin on BY <2>1
  <2>4. CASE after = "open" BY <1>1, <2>1, <2>2, <2>3, <2>4 DEF Other, AtLimit
  <2>5. CASE after = "close" BY <1>1, <2>1, <2>2, <2>3, <2>5 DEF Other, AtLimit
  <2> QED BY <2>4, <2>5 DEF Relays
<1>4. CallShape' BY <1>1 DEF CallShape, RestParts
<1>5. OneTest' BY <1>1 DEF OneTest, RestParts
<1>6. TestHolds' BY <1>1, <1>3 DEF TestHolds, RestParts, Other
<1>7. Swept' BY <1>1 DEF Swept, RestParts
<1>8. CalibrationRests' BY <1>1, <1>2 DEF CalibrationRests, RestParts
<1>9. PassRests' BY <1>1 DEF PassRests, RestParts
<1> QED BY <1>4, <1>5, <1>6, <1>7, <1>8, <1>9 DEF RestParts

(* The display, a change of the mode, a restart. *)
LEMMA RestOthers ==
    ASSUME RestParts, Display \/ Calibrate \/ SetMode \/ Restart \/ UNCHANGED vars
    PROVE  RestParts'
<1> USE DEF Calling, Pressing
<1>1. CASE UNCHANGED <<pc, calls, after, state, on, pos, testing, test>>
  <2>1. CallShape' /\ OneTest' BY <1>1 DEF CallShape, OneTest, RestParts
  <2>2. TestHolds' BY <1>1 DEF TestHolds, RestParts, AtLimit
  <2>3. Swept' BY <1>1 DEF Swept, RestParts
  <2>4. CalibrationRests' BY <1>1 DEF CalibrationRests, RestParts, AtLimit
  <2>5. PassRests' BY <1>1 DEF PassRests, RestParts
  <2> QED BY <2>1, <2>2, <2>3, <2>4, <2>5 DEF RestParts
<1>2. CASE SetMode
  <2>1. /\ pc = "control" /\ state' # "calib" /\ ~Calling
        /\ UNCHANGED <<pc, calls, after, on, pos, testing, test>>
    BY <1>2 DEF SetMode, loop, tests
  <2> QED BY <2>1
      DEF RestParts, CallShape, OneTest, TestHolds, Swept, CalibrationRests, PassRests
<1>3. CASE Restart
  <2>1. pc' = "control" /\ on' = {} /\ testing' = {} /\ test' = {}
    BY <1>3 DEF Restart
  <2> QED BY <2>1
      DEF RestParts, CallShape, OneTest, TestHolds, Swept, CalibrationRests, PassRests
<1>4. Display \/ Calibrate \/ UNCHANGED vars =>
        UNCHANGED <<pc, calls, after, state, on, pos, testing, test>>
  BY DEF Display, Calibrate, vars, loop, tests
<1> QED BY <1>1, <1>2, <1>3, <1>4

(* While the fan runs, every step keeps the parts. *)
LEMMA RestInvariance == IInv /\ RestInv /\ [Next]_vars => RestInv'
<1> SUFFICES ASSUME IInv, RestInv, [Next]_vars, fan' = {FALSE} PROVE RestParts'
    BY DEF RestInv
<1>1. fan = {FALSE}
  BY DEF Next, Main, Control, MakeCall, SetRelay, TestControlMode, BlockDone, Tick, Move,
         Display, Calibrate, SetMode, Restart, vars
<1>2. RestParts BY <1>1 DEF RestInv
<1> QED BY <1>1, <1>2, RestControl, RestMakeCall, RestSetRelay, RestTestControlMode,
           RestBlockDone, RestTick, RestMove, RestOthers
    DEF Next, Main

(* At the start nothing is ON. *)
LEMMA RestInit == Init => RestInv
BY DEF Init, RestInv, RestParts, CallShape, OneTest, TestHolds, Swept, CalibrationRests,
       PassRests, Calling, Pressing

(* Whatever the interleaving, the words hold values they can hold, and the  *)
(* estimated opening never leaves the range of the damper.                  *)
THEOREM DamperTypeCorrect == Spec => []TypeOK
<1>1. IInv => TypeOK BY DEF IInv
<1> QED BY <1>1, InitIInv, Invariance, PTL DEF Spec

(* The motor of the damper is never driven both ways: automatic control, a  *)
(* test, the timer and a restart may come between any two relay writes.     *)
THEOREM RelaysExclude == Spec => []NeverBoth
<1>1. IInv => NeverBoth BY DEF IInv
<1> QED BY <1>1, InitIInv, Invariance, PTL DEF Spec

(* Every write to a relay breaks before it makes: only the second write of a *)
(* call switches one ON, and by then the other one is OFF.                   *)
LEMMA StepBreaks ==
    IInv /\ [Next]_vars => [on' # Relays /\ (on' \subseteq on \/ on = {})]_on
<1> SUFFICES ASSUME IInv, Next, on' # on
             PROVE  on' # Relays /\ (on' \subseteq on \/ on = {})
  BY DEF vars
<1>1. on' # Relays BY InterlockInvariance DEF IInv, NeverBoth
<1>2. CASE SetRelay
  <2>1. /\ calls # <<>> /\ Other(Head(calls).relay) \notin on
        /\ Head(calls).relay \in Relays
    BY <1>2, HeadTyped DEF SetRelay, IInv, HalfWay
  <2>2. on \subseteq {Head(calls).relay} BY <2>1 DEF IInv, TypeOK, Relays, Other
  <2>3. on' = on \cup {Head(calls).relay} \/ on' \subseteq on BY <1>2 DEF SetRelay
  <2>4. CASE on = {} BY <1>1, <2>4
  <2>5. CASE on = {Head(calls).relay} BY <1>1, <2>3, <2>5
  <2> QED BY <2>2, <2>4, <2>5
<1>3. CASE MakeCall
  <2>1. on' \subseteq on
    BY <1>3 DEF MakeCall, CallRefused, CallWithoutFan, CallAtLimit, CallElsewhere
  <2> QED BY <1>1, <2>1
<1>4. CASE Tick \/ Restart
  <2>1. on' \subseteq on BY <1>4 DEF Tick, Restart
  <2> QED BY <1>1, <2>1
<1>5. CASE Control \/ TestControlMode \/ BlockDone
  BY <1>5 DEF Control, TestControlMode, BlockDone
<1>6. CASE Move \/ Display \/ Calibrate \/ SetMode
  BY <1>6 DEF Move, Display, Calibrate, SetMode
<1> QED BY <1>2, <1>3, <1>4, <1>5, <1>6 DEF Next, Main

(* A reversal of the motor breaks before it makes, at every interleaving.    *)
THEOREM ReversalBreaks == Spec => BreakBeforeMake
<1> QED BY InitIInv, Invariance, StepBreaks, PTL DEF Spec, BreakBeforeMake

(* A reversal leaves one direction counting.                                *)
THEOREM CountdownExclusive == Spec => []OneCountdown
<1>1. IInv => OneCountdown BY DEF IInv
<1> QED BY <1>1, InitIInv, Invariance, PTL DEF Spec

(* Outside the run modes, with the fan running and no test under way, the   *)
(* two control calls of a pass leave both relays OFF, whatever came between *)
(* their writes: the timer, the motor, the end of a test, a new mode.       *)
THEOREM StoppedRests == Spec => []StoppedIsStill
<1>1. RestInv => StoppedIsStill BY DEF RestInv, RestParts, PassRests, StoppedIsStill
<1> QED BY <1>1, InitIInv, Invariance, RestInit, RestInvariance, PTL DEF Spec
=============================================================================
