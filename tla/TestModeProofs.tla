---------------------------- MODULE TestModeProofs ----------------------------
(***************************************************************************)
(* For every set of outputs and every length of a test: a test holds exactly *)
(* its own word, and only a test has the heating or the water on after the   *)
(* calls of stop mode and in calibration.  That only a test drives them is   *)
(* not inductive: in stop mode it holds between the calls of a pass and the  *)
(* buttons, and rests on the word of the test that runs being the only one.  *)
(***************************************************************************)
EXTENDS TestMode, TLAPS

Plain == Valves \cup {"blower"}

RestInv ==
    /\ pc = "read" /\ state = "stop" => on \ Plain \subseteq {test}
    /\ state = "calib" => on \ Plain \subseteq {test}

-----------------------------------------------------------------------------
(* The word of a test is one of the words of the outputs. *)
LEMMA WordKnown ==
    ASSUME NEW o \in Outputs PROVE Word(o) \in {Word(p) : p \in Outputs}
  OBVIOUS

(* Every step keeps the types. *)
LEMMA TypeInvariance == TypeOK /\ [Next]_vars => TypeOK'
  <1> SUFFICES ASSUME TypeOK, [Next]_vars PROVE TypeOK'
    OBVIOUS
  <1> USE TestAssumption DEF TypeOK, Spend, ClearButtons, loop, tests, plant
  <1>1. CASE Control
    <2>1. state' \in {"run", "stop", "enter", "calib"} /\ on' \subseteq Outputs
      BY <1>1 DEF Control, RunBlock, StopBlock, EnterBlock, CalibrationBlock
    <2> QED BY <1>1, <2>1 DEF Control
  <1>2. CASE Read
    BY <1>2 DEF Read
  <1>3. CASE Act
    <2>1. ASSUME NEW o \in Outputs, TestStart(o)
          PROVE  /\ on' \subseteq Outputs /\ test' \in Outputs \cup {NoTest}
                 /\ words' \subseteq {Word(p) : p \in Outputs}
                 /\ testTime' \in Nat /\ buttons' \subseteq Outputs
      <3>1. words' = words \cup {Word(o)} /\ buttons' = buttons
        BY <2>1 DEF TestStart
      <3>2. words' \subseteq {Word(p) : p \in Outputs}
        BY <3>1, WordKnown
      <3>3. length \in Nat
        OBVIOUS
      <3> QED BY <2>1, <3>1, <3>2, <3>3 DEF TestStart
    <2>2. ASSUME TestUnknown \/ TestRelease \/ TestRuns \/ TestOther \/ TestNone
          PROVE  /\ on' \subseteq Outputs /\ test' \in Outputs \cup {NoTest}
                 /\ words' \subseteq {Word(p) : p \in Outputs}
                 /\ testTime' \in Nat /\ buttons' \subseteq Outputs
      BY <2>2 DEF TestUnknown, TestRelease, TestRuns, TestOther, TestNone
    <2>3. /\ on' \subseteq Outputs /\ test' \in Outputs \cup {NoTest}
          /\ words' \subseteq {Word(p) : p \in Outputs}
          /\ testTime' \in Nat /\ buttons' \subseteq Outputs
      BY <1>3, <2>1, <2>2 DEF Act
    <2>4. pc' = "control" /\ seen' = {} /\ UNCHANGED <<state, length, faulty, hot, still>>
      BY <1>3 DEF Act
    <2> QED BY <2>3, <2>4
  <1>4. CASE Tick
    BY <1>4 DEF Tick
  <1>5. CASE Press
    BY <1>5 DEF Press
  <1>6. CASE EditLength
    BY <1>6 DEF EditLength
  <1>7. CASE Plant
    <2>1. faulty' \subseteq Outputs /\ hot' \in BOOLEAN /\ still' \in BOOLEAN
      BY <1>7 DEF Plant
    <2> QED BY <1>7, <2>1 DEF Plant
  <1>8. CASE SetMode
    BY <1>8 DEF SetMode
  <1>9. CASE Restart
    BY <1>9 DEF Restart
  <1>10. CASE UNCHANGED vars
    BY <1>10 DEF vars
  <1> QED BY <1>1, <1>2, <1>3, <1>4, <1>5, <1>6, <1>7, <1>8, <1>9, <1>10
       DEF Next, Main

(* Every step keeps the words of the tests. *)
LEMMA OneTestInvariance == TypeOK /\ OneTest /\ [Next]_vars => OneTest'
  <1> SUFFICES ASSUME TypeOK, OneTest, [Next]_vars PROVE OneTest'
    OBVIOUS
  <1> USE DEF OneTest
  <1>0. NoTest \notin Outputs
    BY TestAssumption DEF NoTest, Valves
  <1>1. ASSUME UNCHANGED <<words, test>> PROVE OneTest'
    BY <1>1
  <1>2. CASE Act
    <2>1. ASSUME NEW o \in Outputs, TestStart(o) PROVE OneTest'
      BY <1>0, <2>1 DEF TestStart
    <2>2. CASE TestUnknown
      BY <1>1, <2>2 DEF TestUnknown
    <2>3. CASE TestRelease
      BY <2>3 DEF TestRelease
    <2>4. CASE TestRuns
      BY <1>1, <2>4 DEF TestRuns, tests
    <2>5. CASE TestOther
      BY <2>5 DEF TestOther
    <2>6. CASE TestNone
      BY <2>6 DEF TestNone
    <2> QED BY <1>2, <2>1, <2>2, <2>3, <2>4, <2>5, <2>6 DEF Act
  <1>3. CASE Restart
    BY <1>3 DEF Restart
  <1>4. CASE Control \/ Read \/ Tick \/ Press \/ EditLength \/ Plant \/ SetMode
             \/ UNCHANGED vars
    BY <1>1, <1>4 DEF Control, Read, Tick, Press, EditLength, Plant, SetMode, vars, tests
  <1> QED BY <1>2, <1>3, <1>4 DEF Next, Main

(* A plain gate asked for OFF leaves an output ON only under its own test. *)
LEMMA GateRests ==
    ASSUME TypeOK, OneTest, NEW o \in Outputs \ Plain, After(o, FALSE)
    PROVE  o = test
  <1>1. o \in {"main_heat", "aux_heat", "spray", "cool"}
    BY TestAssumption DEF Plain
  <1>2. Held(o)
    BY <1>1 DEF After, Keeps, Valves
  <1>3. Word(o) = o /\ o \in words
    BY <1>1, <1>2 DEF Held, Word
  <1>4. test # NoTest /\ Word(test) = o
    BY <1>3 DEF OneTest
  <1> QED BY <1>1, <1>4 DEF Word

(* Every step keeps the rest of stop mode and of calibration. *)
LEMMA RestInvariance == TypeOK /\ OneTest /\ RestInv /\ [Next]_vars => RestInv'
  <1> SUFFICES ASSUME TypeOK, OneTest, RestInv, [Next]_vars PROVE RestInv'
    OBVIOUS
  <1> USE DEF RestInv
  <1>0. NoTest \notin Outputs
    BY TestAssumption DEF NoTest, Valves
  <1>1. CASE Control
    <2>1. CASE RunBlock
      BY <1>1, <2>1 DEF Control, RunBlock, tests
    <2>2. CASE StopBlock
      <3>1. state' = "stop" /\ test' = test
        BY <1>1, <2>2 DEF Control, StopBlock, tests
      <3>2. on' \ Plain \subseteq {test}
        BY <2>2, GateRests DEF StopBlock
      <3> QED BY <3>1, <3>2
    <2>3. CASE EnterBlock
      <3>1. test' = test /\ state' = "calib"
        BY <1>1, <2>3 DEF Control, EnterBlock, tests
      <3>2. \A o \in on' \ Plain : o \in Outputs \ Plain /\ After(o, FALSE)
        BY <2>3 DEF EnterBlock, Plain
      <3>3. on' \ Plain \subseteq {test}
        BY <3>2, GateRests
      <3> QED BY <3>1, <3>3
    <2>4. CASE CalibrationBlock
      BY <1>1, <2>4 DEF Control, CalibrationBlock, tests
    <2> QED BY <1>1, <2>1, <2>2, <2>3, <2>4 DEF Control
  <1>2. CASE Read
    BY <1>2 DEF Read, tests
  <1>3. CASE Act
    <2>1. pc' = "control" /\ state' = state
      BY <1>3 DEF Act
    <2>2. SUFFICES ASSUME state = "calib" PROVE on' \ Plain \subseteq {test'}
      BY <2>1
    <2>3. on \ Plain \subseteq {test} /\ on \subseteq Outputs
      BY <2>2 DEF TypeOK
    <2>4. ASSUME NEW o \in Outputs, TestStart(o) PROVE on' \ Plain \subseteq {test'}
      <3>1. on \ Plain = {}
        BY <1>0, <2>3, <2>4 DEF TestStart
      <3>2. on' \subseteq on \cup {o} /\ test' = o
        BY <2>4 DEF TestStart
      <3> QED BY <3>1, <3>2
    <2>5. CASE TestUnknown \/ TestRuns \/ TestNone
      BY <2>3, <2>5 DEF TestUnknown, TestRuns, TestNone, tests
    <2>6. CASE TestRelease
      BY <2>3, <2>6 DEF TestRelease
    <2>7. CASE TestOther
      BY <2>7 DEF TestOther
    <2> QED BY <1>3, <2>4, <2>5, <2>6, <2>7 DEF Act
  <1>4. CASE Tick \/ Press \/ EditLength \/ Plant \/ UNCHANGED vars
    BY <1>4 DEF Tick, Press, EditLength, Plant, vars, loop, tests, plant
  <1>5. CASE SetMode
    BY <1>5 DEF SetMode
  <1>6. CASE Restart
    BY <1>6 DEF Restart
  <1> QED BY <1>1, <1>2, <1>3, <1>4, <1>5, <1>6 DEF Next, Main

-----------------------------------------------------------------------------
(* The initial words have their types. *)
LEMMA InitTyped == Init => TypeOK
  <1> SUFFICES ASSUME Init PROVE TypeOK
    OBVIOUS
  <1>1. /\ pc = "control" /\ state \in {"run", "stop"} /\ seen = {} /\ buttons = {}
        /\ on = {} /\ words = {} /\ test = NoTest /\ testTime = 0
        /\ length \in TestTimes /\ faulty = {}
    BY DEF Init
  <1>2. hot \in BOOLEAN /\ still \in BOOLEAN
    BY DEF Init
  <1> QED BY <1>1, <1>2 DEF TypeOK

(* The words of the test buttons and the outputs keep their types            *)
(* (test_control_mode, the control_* gates).                                *)
THEOREM TestTypeCorrect == Spec => []TypeOK
  <1>1. Init => TypeOK
    BY InitTyped
  <1> QED BY <1>1, TypeInvariance, PTL DEF Spec

(* A TEST_.._MODE word is ON exactly while its test runs: however a test     *)
(* ends - button, time, another button, restart - it gives its output back.  *)
THEOREM TestHoldsItsWord == Spec => []OneTest
  <1>1. Init => OneTest
    BY DEF Init, OneTest
  <1>2. Init => TypeOK
    BY InitTyped
  <1> QED BY <1>1, <1>2, TypeInvariance, OneTestInvariance, PTL DEF Spec

(* After the calls of stop mode and as long as calibration lasts, only a     *)
(* test has the heating, the spray or the water on.                         *)
THEOREM OnlyTestsDrive == Spec => []UntestedRests
  <1> DEFINE Inv == TypeOK /\ OneTest /\ RestInv
  <1>1. Init => Inv
    <2>1. Init => OneTest /\ RestInv
      BY DEF Init, OneTest, RestInv
    <2> QED BY <2>1, InitTyped
  <1>2. Inv /\ [Next]_vars => Inv'
    BY TypeInvariance, OneTestInvariance, RestInvariance
  <1>3. Inv => UntestedRests
    BY DEF RestInv, UntestedRests, Plain
  <1> QED BY <1>1, <1>2, <1>3, PTL DEF Spec
=============================================================================
