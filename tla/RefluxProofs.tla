----------------------------- MODULE RefluxProofs -----------------------------
(* TypeOK, OneWater and WaitsShut of Reflux, for all values of the constants. *)
EXTENDS Reflux, TLAPS

(* Following(c): the next call of a pass is one of a channel there is, or    *)
(* the blocks (the order of 10145-10148).                                    *)
LEMMA FollowingType == \A c \in Channels \cup {0} : Following(c) \in Channels \cup {0}
<1> TAKE c \in Channels \cup {0}
<1>1. CASE After(c) = {}
  BY <1>1 DEF Following
<1>2. CASE After(c) # {}
  <2>1. Following(c) \in After(c) BY <1>2 DEF Following
  <2> QED BY <2>1 DEF After
<1> QED BY <1>1, <1>2

(* Water(c): the water a channel wants is one of the two. *)
LEMMA WaterType == \A c : Water(c) \in Waters /\ OtherWater(Water(c)) \in Waters
BY DEF Water, OtherWater, Waters

(* Stop(c), Work(c), Cycle(c), Phase(c): the words of a duty cycle that      *)
(* begins or goes on are words (the set_uval calls of 5425-5471).            *)
LEMMA DutyType ==
  ASSUME TypeOK, NEW c \in Channels
  PROVE  /\ Phase(c) \in 0 .. 2 /\ Work(c) \in 0 .. WordMod - 1
         /\ Cycle(c) \in 0 .. WordMod - 1 /\ Stop(c) \in 0 .. WordMod - 1
<1>1. phase[c][Water(c)] \in 0 .. 2
  BY WaterType DEF TypeOK
<1>2. params.period \in 0 .. WordMod - 1 /\ params.work \in 0 .. WordMod - 1
  <2>1. params \in [cycles : Cycles, period : Periods, work : Works]
    BY DEF TypeOK, Params
  <2>2. params.period \in Periods /\ params.work \in Works
    BY <2>1
  <2> QED BY <2>2, RefluxAssumption
<1>3. \A i \in Int : i % WordMod \in 0 .. WordMod - 1
  BY RefluxAssumption
<1>4. (params.period - params.work) % WordMod \in 0 .. WordMod - 1
  BY <1>2, <1>3
<1> QED BY <1>1, <1>2, <1>4, RefluxAssumption DEF TypeOK, Phase, Work, Cycle, Stop, Fresh

(* SetPhase(c, p) keeps the phases phases, and leaves only one water its own *)
(* (the first set_uval of either branch).                                    *)
LEMMA SetPhaseSound ==
  ASSUME TypeOK, NEW c \in Channels, NEW p \in 0 .. 2, SetPhase(c, p), OneWater
  PROVE  phase' \in [Channels -> [Waters -> 0 .. 2]] /\ OneWater'
<1>1. OneSide(c) \in [Waters -> 0 .. 2]
      /\ OneSide(c)[OtherWater(Water(c))] = 0
  BY WaterType DEF TypeOK, OneSide
<1>2. phase'[c] = [OneSide(c) EXCEPT ![Water(c)] = p]
      /\ \A d \in Channels \ {c} : phase'[d] = phase[d]
  BY DEF SetPhase, TypeOK
<1>3. phase' \in [Channels -> [Waters -> 0 .. 2]]
  BY <1>1, WaterType DEF SetPhase, TypeOK
<1>4. phase'[c]["cold"] = 0 \/ phase'[c]["hot"] = 0
  BY <1>1, <1>2 DEF Water, OtherWater, Waters
<1> QED BY <1>2, <1>3, <1>4 DEF OneWater

Inv == TypeOK /\ OneWater

(* Init of the shared memory: types are right and no duty cycle has begun.   *)
LEMMA InitInv == Init => Inv
<1> SUFFICES ASSUME Init PROVE Inv OBVIOUS
<1>1. NoTime \in [Channels -> 0 .. WordMod - 1]
  BY RefluxAssumption DEF NoTime
<1>2. phase \in [Channels -> [Waters -> 0 .. 2]] /\ OneWater
  BY DEF Init, NoPhase, Waters, OneWater
<1>3. temp \in [Channels -> {"low", "reached", "high"}]
  BY DEF Init
<1>4. params \in Params /\ events \in Nat
  BY RefluxAssumption DEF Init, Params
<1>5. work = NoTime /\ stop = NoTime /\ delay = NoTime /\ cycle = NoTime
  BY DEF Init
<1> QED BY <1>1, <1>2, <1>3, <1>4, <1>5 DEF Init, Inv, TypeOK, Driving

(* Call(c): one call of a channel's function keeps the invariant (5399-6998). *)
LEMMA CallInv ==
  ASSUME Inv, NEW c \in Channels, Call(c)
  PROVE  Inv'
<1> USE DEF Inv
<1>1. turn' \in Channels \cup {0} BY FollowingType DEF Call
<1>2. /\ Phase(c) \in 0 .. 2 /\ Work(c) \in 0 .. WordMod - 1
      /\ Cycle(c) \in 0 .. WordMod - 1 /\ Stop(c) \in 0 .. WordMod - 1
  BY DutyType
<1>3. params.work \in 0 .. WordMod - 1 /\ params.cycles \in 0 .. WordMod - 1
  <2>1. params \in [cycles : Cycles, period : Periods, work : Works]
    BY DEF TypeOK, Params
  <2>2. params.work \in Works /\ params.cycles \in Cycles
    BY <2>1
  <2> QED BY <2>2, RefluxAssumption
<1>4. UNCHANGED <<mode, saved, preInit, delay, enabled, temp, late, preCold, faulty,
                  standing, params, tested, events>>
  BY DEF Call, control, inputs
<1>5. WordMod \in Nat \ {0} /\ 0 \in 0 .. WordMod - 1 /\ Channels \subseteq 1 .. 4
  BY RefluxAssumption
<1>6. SUFFICES ASSUME open' \in SUBSET (1 .. 4) /\ hot' \in BOOLEAN,
                      phase' \in [Channels -> [Waters -> 0 .. 2]],
                      OneWater',
                      work' \in [Channels -> 0 .. WordMod - 1],
                      stop' \in [Channels -> 0 .. WordMod - 1],
                      cycle' \in [Channels -> 0 .. WordMod - 1]
               PROVE  Inv'
  <2>1. CASE SwitchedOff(c)
    BY <2>1, <1>4 DEF SwitchedOff, Close, TypeOK, OneWater
  <2>2. CASE Delayed(c)
    <3>1. phase' \in [Channels -> [Waters -> 0 .. 2]] /\ OneWater'
      BY <2>2, WaterType DEF Delayed, OneSide, OneWater, TypeOK, Water, OtherWater, Waters
    <3> QED BY <2>2, <3>1 DEF Delayed, TypeOK
  <2>3. CASE Reached(c)
    <3>1. phase' \in [Channels -> [Waters -> 0 .. 2]] /\ OneWater'
      BY <2>3, SetPhaseSound DEF Reached
    <3> QED BY <2>3, <3>1 DEF Reached, Controlled, Close, TypeOK
  <2>4. CASE Working(c)
    <3>1. phase' \in [Channels -> [Waters -> 0 .. 2]] /\ OneWater'
      BY <2>4, <1>2, SetPhaseSound DEF Working
    <3>2. open' \in SUBSET (1 .. 4)
      BY <2>4, <1>5 DEF Working, Open, Pulsed, TypeOK
    <3> QED BY <2>4, <1>2, <3>1, <3>2 DEF Working, Cycling, Controlled, TypeOK
  <2>5. CASE Pausing(c)
    <3>1. phase' \in [Channels -> [Waters -> 0 .. 2]] /\ OneWater'
      BY <2>5, SetPhaseSound DEF Pausing
    <3> QED BY <2>5, <1>2, <1>5, <3>1 DEF Pausing, Cycling, Controlled, Close, TypeOK
  <2>6. CASE Resuming(c)
    <3>1. phase' \in [Channels -> [Waters -> 0 .. 2]] /\ OneWater'
      BY <2>6, SetPhaseSound DEF Resuming
    <3>2. Cycle(c) + 1 \in 0 .. WordMod - 1
      BY <2>6, <1>2, <1>3, <1>5 DEF Resuming, Cycling
    <3> QED BY <2>6, <1>3, <1>5, <3>1, <3>2 DEF Resuming, Cycling, Controlled, TypeOK
  <2>7. CASE Flowing(c)
    <3>1. phase' \in [Channels -> [Waters -> 0 .. 2]] /\ OneWater'
      BY <2>7, <1>2, SetPhaseSound DEF Flowing
    <3>2. open' \in SUBSET (1 .. 4)
      BY <2>7, <1>5 DEF Flowing, Open, TypeOK
    <3> QED BY <2>7, <1>2, <3>1, <3>2 DEF Flowing, Controlled, TypeOK
  <2> QED BY <2>1, <2>2, <2>3, <2>4, <2>5, <2>6, <2>7 DEF Call
<1> QED BY <1>1, <1>4, <1>6 DEF TypeOK

(* Block: what a pass of thread_main_func does before the calls.             *)
LEMMA BlockInv ==
  ASSUME Inv, Block
  PROVE  Inv'
<1> USE DEF Inv
<1>1. Following(0) \in Channels \cup {0} BY FollowingType
<1>2. Delay \in 0 .. WordMod - 1 BY RefluxAssumption
<1>3. ASSUME Begin
      PROVE  /\ phase' \in [Channels -> [Waters -> 0 .. 2]] /\ OneWater'
             /\ delay' \in [Channels -> 0 .. WordMod - 1] /\ open' \in SUBSET (1 .. 4)
  BY <1>2, <1>3 DEF Begin, NoPhase, Waters, OneWater, CloseAll, TypeOK
<1>4. UNCHANGED <<saved, work, stop, cycle, enabled, temp, late, preCold, faulty,
                  standing, params, tested, events>>
  BY DEF Block, inputs
<1>5. CASE StartBlock
  BY <1>1, <1>3, <1>4, <1>5 DEF StartBlock, TypeOK, Driving
<1>6. CASE RunBlock
  BY <1>1, <1>4, <1>6 DEF RunBlock, TypeOK, OneWater
<1>7. CASE StopBlock
  BY <1>4, <1>7 DEF StopBlock, CloseAll, TypeOK, OneWater
<1>8. CASE PreheatBlock
  <2>1. CASE preInit
    BY <1>1, <1>3, <1>4, <1>8, <2>1 DEF PreheatBlock, TypeOK
  <2>2. CASE ~preInit
    BY <1>1, <1>4, <1>8, <2>2 DEF PreheatBlock, TypeOK, OneWater
  <2> QED BY <2>1, <2>2
<1>9. CASE CalibrationBlock
  BY <1>4, <1>9 DEF CalibrationBlock, CloseAll, TypeOK, OneWater
<1> QED BY <1>5, <1>6, <1>7, <1>8, <1>9 DEF Block

(* Tick: the timer's countdowns stay words (7612-7673).                      *)
LEMMA TickInv ==
  ASSUME Inv, Tick
  PROVE  Inv'
<1>1. ASSUME NEW t \in [Channels -> 0 .. WordMod - 1]
      PROVE  Down(t) \in [Channels -> 0 .. WordMod - 1]
  BY RefluxAssumption DEF Down
<1> QED BY <1>1 DEF Inv, TypeOK, OneWater, Tick, control, inputs

(* The surroundings change no phase except by a restart, which clears all.   *)
LEMMA SurroundingsInv ==
  ASSUME Inv, Change \/ SetMode \/ Test \/ Restart
  PROVE  Inv'
<1> USE DEF Inv
<1>1. CASE Change
  <2>1. UNCHANGED <<turn, mode, saved, preInit, open, hot, phase, work, stop, delay,
                    cycle, tested>> /\ events' \in Nat
    BY <1>1 DEF Change, control, times, TypeOK
  <2>2. /\ enabled' \in SUBSET Channels /\ late' \in BOOLEAN
        /\ temp' \in [Channels -> {"low", "reached", "high"}]
        /\ preCold' \in SUBSET Channels /\ faulty' \in SUBSET Channels
        /\ standing' \in BOOLEAN
    BY <1>1 DEF Change, Toggled, TypeOK
  <2>3. params' \in Params
    BY <1>1 DEF Change, TypeOK, Params
  <2> QED BY <2>1, <2>2, <2>3 DEF TypeOK, OneWater
<1>2. CASE SetMode
  <2>1. mode' \in Driving \cup {"start", "stop", "enter", "calib"}
        /\ saved' \in Driving \cup {"stop"} /\ events' \in Nat
    BY <1>2 DEF SetMode, TypeOK, Driving
  <2> QED BY <1>2, <2>1 DEF SetMode, TypeOK, OneWater, times, inputs
<1>3. CASE Test
  <2>1. tested' \in Channels \cup {0} /\ events' \in Nat
    BY <1>3 DEF Test, TypeOK
  <2>2. open' \in SUBSET (1 .. 4)
    <3>1. CASE tested' \in Channels /\ open' = open \cup {tested'}
      BY <3>1, RefluxAssumption DEF TypeOK
    <3>2. CASE open' = open \ {tested}
      BY <3>2 DEF TypeOK
    <3> QED BY <1>3, <3>1, <3>2 DEF Test
  <2> QED BY <1>3, <2>1, <2>2 DEF Test, TypeOK, OneWater, control, times, inputs
<1>4. CASE Restart
  <2>1. /\ phase' \in [Channels -> [Waters -> 0 .. 2]] /\ OneWater'
        /\ NoTime \in [Channels -> 0 .. WordMod - 1]
    BY <1>4, RefluxAssumption DEF Restart, NoPhase, NoTime, Waters, OneWater
  <2>2. work' = NoTime /\ stop' = NoTime /\ delay' = NoTime /\ cycle' = NoTime
    BY <1>4 DEF Restart
  <2>3. /\ turn' = 0 /\ preInit' \in BOOLEAN /\ saved' = "stop" /\ hot' \in BOOLEAN
        /\ open' = {} /\ tested' = 0 /\ UNCHANGED inputs
    BY <1>4 DEF Restart
  <2>4. events' \in Nat
    BY <1>4 DEF Restart, TypeOK
  <2>5. mode' \in Driving \cup {"start", "stop", "enter", "calib"}
    BY <1>4 DEF Restart
  <2> QED BY <2>1, <2>2, <2>3, <2>4, <2>5 DEF TypeOK, inputs
<1> QED BY <1>1, <1>2, <1>3, <1>4

(* Every step of the program and its surroundings keeps the invariant.       *)
LEMMA NextInv == Inv /\ [Next]_vars => Inv'
<1> SUFFICES ASSUME Inv, [Next]_vars PROVE Inv' OBVIOUS
<1>1. CASE UNCHANGED vars
  BY <1>1 DEF Inv, TypeOK, OneWater, vars, control, times, inputs
<1>2. CASE Next
  BY <1>2, BlockInv, CallInv, TickInv, SurroundingsInv DEF Next, Main
<1> QED BY <1>1, <1>2

(* The words of the reflux water keep their ranges, whatever is edited.      *)
THEOREM RefluxTypeCorrect == Spec => []TypeOK
<1>1. Inv => TypeOK BY DEF Inv
<1> QED BY InitInv, NextInv, <1>1, PTL DEF Spec

(* A channel never has a cold and a hot duty cycle at the same time.         *)
THEOREM WatersExclude == Spec => []OneWater
<1>1. Inv => OneWater BY DEF Inv
<1> QED BY InitInv, NextInv, <1>1, PTL DEF Spec

-----------------------------------------------------------------------------
(* What keeps a waiting valve shut.  The delays of all channels are written   *)
(* and counted together, and a pausing channel has no working time left.     *)
SameDelays == \A c \in Channels, d \in Channels : delay[c] = delay[d]

PauseRested ==
  \A c \in Channels : \A w \in Waters : phase[c][w] = 2 => work[c] = 0

RestInv == SameDelays /\ PauseRested

(* A call changes the phases of its own channel only: the water it wants     *)
(* gets the phase, the other water none.                                     *)
LEMMA SetPhaseOnly ==
  ASSUME TypeOK, NEW c \in Channels, NEW p \in 0 .. 2, SetPhase(c, p)
  PROVE  /\ \A d \in Channels \ {c} : phase'[d] = phase[d]
         /\ \A w \in Waters : phase'[c][w] = p \/ phase'[c][w] = 0
<1>1. OneSide(c) \in [Waters -> 0 .. 2]
      /\ OneSide(c)[OtherWater(Water(c))] = 0
  BY WaterType DEF TypeOK, OneSide
<1>2. phase'[c] = [OneSide(c) EXCEPT ![Water(c)] = p]
      /\ \A d \in Channels \ {c} : phase'[d] = phase[d]
  BY DEF SetPhase, TypeOK
<1>3. ASSUME NEW w \in Waters PROVE phase'[c][w] = p \/ phase'[c][w] = 0
  <2>1. CASE w = Water(c)
    BY <1>1, <1>2, <2>1
  <2>2. CASE w # Water(c)
    <3>1. w = OtherWater(Water(c)) BY <2>2 DEF Waters, Water, OtherWater
    <3> QED BY <1>1, <1>2, <2>2, <3>1
  <2> QED BY <2>1, <2>2
<1> QED BY <1>2, <1>3

(* The call of a pausing channel reads the working time 0 and its own count. *)
LEMMA PausedReads ==
  ASSUME TypeOK, PauseRested, NEW c \in Channels
  PROVE  /\ Phase(c) = 2 => Work(c) = 0
         /\ phase[c][Water(c)] = 2 => Work(c) = 0 /\ Cycle(c) = cycle[c]
BY WaterType DEF PauseRested, Phase, Work, Cycle, Fresh

(* A call leaves a channel in the pause only without working time.           *)
LEMMA CallRests ==
  ASSUME TypeOK, RestInv, NEW c \in Channels, Call(c)
  PROVE  RestInv'
<1> USE DEF RestInv
<1>1. SameDelays'
  BY DEF SameDelays, Call
<1>2. ASSUME NEW p \in 0 .. 2, SetPhase(c, p), NEW t,
             work' = [work EXCEPT ![c] = t], p = 2 => t = 0
      PROVE  PauseRested'
  <2>1. \A d \in Channels \ {c} : phase'[d] = phase[d] /\ work'[d] = work[d]
    BY <1>2, SetPhaseOnly DEF TypeOK
  <2>2. work'[c] = t
    BY <1>2 DEF TypeOK
  <2>3. \A w \in Waters : phase'[c][w] = 2 => work'[c] = 0
    BY <1>2, <2>2, SetPhaseOnly
  <2> QED BY <2>1, <2>3 DEF PauseRested
<1>3. CASE SwitchedOff(c)
  BY <1>1, <1>3 DEF SwitchedOff, PauseRested
<1>4. CASE Delayed(c)
  <2>1. \A d \in Channels, w \in Waters :
           phase'[d][w] = phase[d][w] \/ phase'[d][w] = 0
    BY <1>4, WaterType DEF Delayed, OneSide, TypeOK
  <2>2. work' = work BY <1>4 DEF Delayed
  <2> QED BY <1>1, <2>1, <2>2 DEF PauseRested
<1>5. CASE Reached(c)
  <2>1. SetPhase(c, 0) /\ work' = work BY <1>5 DEF Reached
  <2>2. \A d \in Channels, w \in Waters :
           phase'[d][w] = phase[d][w] \/ phase'[d][w] = 0
    BY <2>1, SetPhaseOnly
  <2> QED BY <1>1, <2>1, <2>2 DEF PauseRested
<1>6. CASE Working(c)
  <2>1. SetPhase(c, Phase(c)) /\ work' = [work EXCEPT ![c] = Work(c)] /\ Work(c) > 0
    BY <1>6 DEF Working
  <2>2. Phase(c) \in 0 .. 2 /\ (Phase(c) = 2 => Work(c) = 0) BY DutyType, PausedReads
  <2> QED BY <1>1, <1>2, <2>1, <2>2
<1>7. CASE Pausing(c)
  <2>1. SetPhase(c, 2) /\ work' = [work EXCEPT ![c] = 0] BY <1>7 DEF Pausing
  <2>2. 2 \in 0 .. 2 OBVIOUS
  <2>3. PauseRested' BY <1>2, <2>1, <2>2
  <2> QED BY <1>1, <2>3
<1>8. CASE Resuming(c)
  <2>1. SetPhase(c, 1) /\ work' = [work EXCEPT ![c] = params.work]
    BY <1>8 DEF Resuming
  <2>2. 1 \in 0 .. 2 /\ 1 # 2 OBVIOUS
  <2>3. PauseRested' BY <1>2, <2>1, <2>2
  <2> QED BY <1>1, <2>3
<1>9. CASE Flowing(c)
  <2>1. SetPhase(c, Phase(c)) /\ work' = [work EXCEPT ![c] = Work(c)]
    BY <1>9 DEF Flowing
  <2>2. Phase(c) \in 0 .. 2 /\ (Phase(c) = 2 => Work(c) = 0) BY DutyType, PausedReads
  <2> QED BY <1>1, <1>2, <2>1, <2>2
<1> QED BY <1>3, <1>4, <1>5, <1>6, <1>7, <1>8, <1>9 DEF Call

(* Every step keeps the delays alike and the pauses without working time.    *)
LEMMA RestInvariance == TypeOK /\ RestInv /\ [Next]_vars => RestInv'
<1> SUFFICES ASSUME TypeOK, RestInv, [Next]_vars PROVE RestInv' OBVIOUS
<1>1. ASSUME NEW c \in Channels, Call(c) PROVE RestInv'
  BY <1>1, CallRests
<1>2. CASE Block
  <2>1. work' = work BY <1>2 DEF Block
  <2>2. \/ UNCHANGED <<phase, delay>>
        \/ /\ phase' = [c \in Channels |-> NoPhase]
           /\ delay' = [c \in Channels |-> Delay]
    BY <1>2 DEF Block, StartBlock, RunBlock, StopBlock, PreheatBlock, CalibrationBlock,
                Begin
  <2>3. CASE UNCHANGED <<phase, delay>>
    BY <2>1, <2>3 DEF RestInv, SameDelays, PauseRested
  <2>4. CASE /\ phase' = [c \in Channels |-> NoPhase]
             /\ delay' = [c \in Channels |-> Delay]
    BY <2>4 DEF RestInv, SameDelays, PauseRested, NoPhase
  <2> QED BY <2>2, <2>3, <2>4
<1>3. CASE Tick
  <2>1. phase' = phase /\ work' = Down(work) /\ delay' = Down(delay) BY <1>3 DEF Tick
  <2>2. \A c \in Channels : work[c] = 0 => work'[c] = 0 BY <2>1 DEF Down
  <2>3. SameDelays' BY <2>1 DEF RestInv, SameDelays, Down
  <2> QED BY <2>1, <2>2, <2>3 DEF RestInv, PauseRested
<1>4. CASE Restart
  <2>1. /\ phase' = [c \in Channels |-> NoPhase] /\ delay' = NoTime
    BY <1>4 DEF Restart
  <2> QED BY <2>1 DEF RestInv, SameDelays, PauseRested, NoPhase, NoTime
<1>5. CASE Change \/ SetMode \/ Test \/ UNCHANGED vars
  <2>1. UNCHANGED <<phase, work, delay>>
    BY <1>5 DEF Change, SetMode, Test, vars, times
  <2> QED BY <2>1 DEF RestInv, SameDelays, PauseRested
<1> QED BY <1>1, <1>2, <1>3, <1>4, <1>5 DEF Next, Main

(* No call opens the valve of a channel that waits: its own call finds the   *)
(* pause, and another one's could only be that of channel 4.                 *)
LEMMA CallKeepsShut ==
  ASSUME TypeOK, RestInv, NEW d \in Channels, Call(d),
         NEW c \in Channels, Waiting(c), c \in open'
  PROVE  c \in open
<1>1. CASE SwitchedOff(d) \/ Delayed(d) \/ Reached(d) \/ Pausing(d) \/ Resuming(d)
  BY <1>1 DEF SwitchedOff, Delayed, Reached, Pausing, Resuming, Close
<1>2. ASSUME Controlled(d) PROVE delay[c] = 0
  BY <1>2 DEF Controlled, RestInv, SameDelays
<1>3. ASSUME delay[c] = 0
      PROVE  /\ Work(c) = 0 /\ Cycle(c) < params.cycles /\ ~Lent(c)
  <2>1. phase[c][Water(c)] = 2 /\ cycle[c] < params.cycles /\ ~Lent(c)
    BY <1>3 DEF Waiting
  <2> QED BY <2>1, PausedReads DEF RestInv
<1>4. CASE Working(d)
  <2>1. Open(Pulsed(d, Water(d))) /\ Work(d) > 0 /\ delay[c] = 0
    BY <1>2, <1>4 DEF Working, Cycling
  <2>2. SUFFICES ASSUME c = Pulsed(d, Water(d)) PROVE FALSE
    BY <2>1 DEF Open
  <2>3. c = d \/ (d = 4 /\ c = 1 /\ Water(d) = "cold")
    BY <2>2 DEF Pulsed
  <2>4. ~Lent(c) /\ Work(c) = 0
    BY <1>3, <2>1
  <2>5. c # d
    BY <2>1, <2>4
  <2> QED BY <2>3, <2>4, <2>5 DEF Lent
<1>5. CASE Flowing(d)
  <2>1. Open(d) /\ Cycle(d) >= params.cycles /\ delay[c] = 0
    BY <1>2, <1>5 DEF Flowing
  <2>2. Cycle(c) < params.cycles
    BY <1>3, <2>1
  <2>3. Cycle(d) \in Int /\ params.cycles \in Int
    <3>1. params \in [cycles : Cycles, period : Periods, work : Works]
      BY DEF TypeOK, Params
    <3>2. params.cycles \in Cycles
      BY <3>1
    <3>3. Cycle(d) \in 0 .. WordMod - 1
      BY DutyType
    <3>4. params.cycles \in 0 .. WordMod - 1
      BY <3>2, RefluxAssumption
    <3> QED BY <3>3, <3>4
  <2>4. c # d
    BY <2>1, <2>2, <2>3
  <2> QED BY <2>1, <2>4 DEF Open
<1> QED BY <1>1, <1>4, <1>5 DEF Call

(* While a channel waits, after the beginning of a mode (10030-10067) or in   *)
(* a pause (5454-5471), only a test opens its valve: no other channel, mode,  *)
(* calibration, edited time or sensor does.  The cold cycles of channel 4,    *)
(* which open valve 1 (6049), are the exception Waiting names.                *)
THEOREM WaitingStaysShut == Spec => WaitsShut
<1> DEFINE Shut ==
      \A c \in Channels : Waiting(c) /\ c \in open' => c \in open \/ tested' = c
<1>1. Init => RestInv
  BY DEF Init, RestInv, SameDelays, PauseRested, NoTime, NoPhase
<1>2. TypeOK /\ RestInv /\ [Next]_vars => Shut
  <2> SUFFICES ASSUME TypeOK, RestInv, [Next]_vars, NEW c \in Channels,
                      Waiting(c), c \in open'
               PROVE  c \in open \/ tested' = c
    OBVIOUS
  <2>1. ASSUME NEW d \in Channels, Call(d) PROVE c \in open
    BY <2>1, CallKeepsShut
  <2>2. CASE Block
    BY <2>2 DEF Block, StartBlock, RunBlock, StopBlock, PreheatBlock, CalibrationBlock,
                Begin, CloseAll
  <2>3. CASE Test
    BY <2>3 DEF Test
  <2>4. CASE Tick \/ Change \/ SetMode \/ Restart \/ UNCHANGED vars
    BY <2>4 DEF Tick, Change, SetMode, Restart, vars
  <2> QED BY <2>1, <2>2, <2>3, <2>4 DEF Next, Main
<1>3. Spec => []RestInv
  BY <1>1, RestInvariance, RefluxTypeCorrect, PTL DEF Spec
<1> HIDE DEF Shut
<1>4. TypeOK /\ RestInv /\ [Next]_vars => [Shut]_vars
  BY <1>2
<1>5. Spec => [][Shut]_vars
  BY <1>3, <1>4, RefluxTypeCorrect, PTL DEF Spec
<1> QED BY <1>5 DEF WaitsShut, Shut
=============================================================================
