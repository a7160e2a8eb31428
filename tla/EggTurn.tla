------------------------------- MODULE EggTurn -------------------------------
(***************************************************************************)
(* The turning of the eggs: flip_egg_func and control_egg, the egg button   *)
(* of test_control_mode, and the timer that counts P_EGG_FLIPPING_TIME.     *)
(*                                                                         *)
(* A turn is the word P_EGG_FLIPPING_EXECUTION_STATUS.  The egg thread      *)
(* starts one when the countdown is 0, drives the two relays as long as     *)
(* EGG_FLIPP_INGINTERVAL says, measured from the first pass in which it saw *)
(* the turn, and ends it; the main loop starts and ends turns with the test *)
(* button in any of the thread's steps.  A turn is counted at most once, by *)
(* a falling and a rising edge of DETECT_FLIP_EGG.                          *)
(***************************************************************************)
EXTENDS Integers

CONSTANTS
    Interval,    \* EGG_FLIPP_INGINTERVAL, in seconds
    Periods,     \* the values of P_HH10 * 60
    MaxTests,    \* bound: presses of the egg button
    MaxAborts,   \* bound: tests of other outputs that are broken off
    MaxEdits,    \* bound: changes of P_HH10
    MaxEdges,    \* bound: edges of the detector
    MaxRestarts  \* bound: restarts of the daemon

ASSUME EggAssumption ==
    /\ Interval \in Nat /\ Periods \subseteq Nat /\ Periods # {}
    /\ MaxTests \in Nat /\ MaxAborts \in Nat /\ MaxEdits \in Nat
    /\ MaxEdges \in Nat /\ MaxRestarts \in Nat

VARIABLES
    pc,       \* the step the egg thread takes next
    seen,     \* the direction it has read
    clock,    \* seconds since the start of the turn it measures, or Unset
    left,     \* FILP_EGG_ON
    right,    \* FILP_EGG_OFF
    exec,     \* P_EGG_FLIPPING_EXECUTION_STATUS
    dir,      \* P_EGG_FLIPPING_DIRECTION: TRUE is left
    time,     \* P_EGG_FLIPPING_TIME
    period,   \* P_HH10 * 60
    testing,  \* TEST_FILP_EGG_MODE
    trigger,  \* EGG_FLIPPING_TRIGGER_STATUS
    armed,    \* EGG_FLIPPING_ACCUMULATION_STATE
    detect,   \* DETECT_FLIP_EGG
    fresh,    \* a turn was started since R_AI_TP_EGG was last counted up
    budget    \* what the operator, the detector and the power may still do

thread == <<pc, seen, clock, left, right>>
turn == <<exec, dir, time>>
tally == <<trigger, armed, fresh>>
vars == <<thread, turn, period, testing, tally, detect, budget>>

Unset == Interval + 2  \* sys_now_time_status is ON

Init ==
    /\ pc = "top" /\ seen = FALSE /\ clock = Unset /\ left = FALSE /\ right = FALSE
    /\ exec \in BOOLEAN /\ dir \in BOOLEAN /\ period \in Periods /\ time \in {0, period}
    /\ testing = FALSE /\ trigger = FALSE /\ armed = FALSE /\ detect = FALSE
    /\ fresh = FALSE
    /\ budget = [tests |-> MaxTests, aborts |-> MaxAborts, edits |-> MaxEdits,
                 edges |-> MaxEdges, restarts |-> MaxRestarts]

Spend(what) == budget[what] > 0 /\ budget' = [budget EXCEPT ![what] = @ - 1]

-----------------------------------------------------------------------------
(* A new turn: the other way than "from", for a new period. *)
StartTurn(from) ==
    /\ exec' = TRUE /\ time' = period /\ dir' = ~from
    /\ trigger' = TRUE /\ fresh' = TRUE

(* control_egg looks at the test word and at the direction first. *)
Look ==
    /\ pc = "top"
    /\ IF time = 0 /\ ~testing
       THEN pc' = "start" /\ seen' = dir
       ELSE pc' = "drive" /\ seen' = seen
    /\ UNCHANGED <<clock, left, right, turn, period, testing, tally, detect, budget>>

Start ==
    /\ pc = "start" /\ pc' = "drive"
    /\ StartTurn(seen)
    /\ UNCHANGED <<seen, clock, left, right, period, testing, armed, detect, budget>>

Elapsed == IF clock = Unset THEN 0 ELSE clock

(* the relays are written one after the other *)
Drive ==
    /\ pc = "drive" /\ exec /\ Elapsed <= Interval
    /\ clock' = Elapsed /\ seen' = dir /\ left' = dir /\ pc' = "driven"
    /\ UNCHANGED <<right, turn, period, testing, tally, detect, budget>>

(* Faulty variant: the direction is read again for the second relay. *)
DrivenAnew ==
    /\ pc = "driven" /\ right' = ~dir /\ pc' = "count"
    /\ UNCHANGED <<seen, clock, left, turn, period, testing, tally, detect, budget>>

Driven ==
    /\ pc = "driven" /\ right' = ~seen /\ pc' = "count"
    /\ UNCHANGED <<seen, clock, left, turn, period, testing, tally, detect, budget>>

(* The time is over; the turn is ended in a later step. *)
TimeOver ==
    /\ pc = "drive" /\ exec /\ Elapsed > Interval
    /\ clock' = Unset /\ left' = FALSE /\ right' = FALSE /\ pc' = "end"
    /\ UNCHANGED <<seen, turn, period, testing, tally, detect, budget>>

(* Faulty variant: the relays are switched off and the turn goes on. *)
EndNever ==
    /\ pc = "end" /\ pc' = "count" /\ exec' = exec
    /\ UNCHANGED <<seen, clock, left, right, dir, time, period, testing, tally, detect,
                   budget>>

End ==
    /\ pc = "end" /\ pc' = "count" /\ exec' = FALSE
    /\ UNCHANGED <<seen, clock, left, right, dir, time, period, testing, tally, detect,
                   budget>>

NoTurn ==
    /\ pc = "drive" /\ ~exec
    /\ clock' = Unset /\ left' = FALSE /\ right' = FALSE /\ pc' = "count"
    /\ UNCHANGED <<seen, turn, period, testing, tally, detect, budget>>

(* A turn is counted when the detector, seen OFF since the start, is ON. *)
Armed == armed \/ ~detect

Count ==
    /\ pc = "count"
    /\ IF trigger
       THEN armed' = Armed /\ pc' = IF Armed /\ detect THEN "add" ELSE "top"
       ELSE armed' = FALSE /\ pc' = "top"
    /\ UNCHANGED <<seen, clock, left, right, turn, period, testing, trigger, fresh,
                   detect, budget>>

(* Faulty variant: the trigger stays. *)
AddKeeps ==
    /\ pc = "add" /\ pc' = "top"
    /\ fresh' = FALSE /\ armed' = FALSE /\ trigger' = trigger
    /\ UNCHANGED <<seen, clock, left, right, turn, period, testing, detect, budget>>

Add ==
    /\ pc = "add" /\ pc' = "top"
    /\ fresh' = FALSE /\ armed' = FALSE /\ trigger' = FALSE
    /\ UNCHANGED <<seen, clock, left, right, turn, period, testing, detect, budget>>

Thread ==
    Look \/ Start \/ Drive \/ Driven \/ TimeOver \/ End \/ NoTurn \/ Count \/ Add

-----------------------------------------------------------------------------
Less == IF time > 0 THEN time - 1 ELSE 0

(* One second of the timer and of CLOCK_MONOTONIC. *)
Tick ==
    /\ time' = Less
    /\ clock' = IF clock <= Interval THEN clock + 1 ELSE clock
    /\ UNCHANGED <<pc, seen, left, right, exec, dir, period, testing, tally,
                   detect, budget>>

(* The egg button: a test starts a turn whatever the thread is doing. *)
TestStart ==
    /\ ~testing /\ Spend("tests")
    /\ testing' = TRUE /\ StartTurn(dir)
    /\ UNCHANGED <<thread, period, armed, detect>>

(* Faulty variant: the test word is left. *)
TestEndKeeps ==
    /\ testing /\ testing' = testing /\ exec' = FALSE
    /\ UNCHANGED <<thread, dir, time, period, tally, detect, budget>>

(* The button is released, its time is over, or another one is pressed. *)
TestEnd ==
    /\ testing /\ testing' = FALSE /\ exec' = FALSE
    /\ UNCHANGED <<thread, dir, time, period, tally, detect, budget>>

(* A broken-off test of another output ends an automatic turn too. *)
Abort ==
    /\ ~testing /\ Spend("aborts") /\ exec' = FALSE
    /\ UNCHANGED <<thread, dir, time, period, testing, tally, detect>>

(* A new P_HH10: run_sys_time loads the countdown. *)
Edit ==
    /\ Spend("edits")
    /\ period' \in Periods \ {period} /\ time' = period'
    /\ UNCHANGED <<thread, exec, dir, testing, tally, detect>>

Detector ==
    /\ Spend("edges") /\ detect' = ~detect
    /\ UNCHANGED <<thread, turn, period, testing, tally>>

(* init_para clears the test and the outputs.  The words of the turn come    *)
(* from a backup of some time before, and with them the count of the turns:  *)
(* what was counted since is not, and may be counted again.  (A period the   *)
(* backup missed is an Edit.)                                               *)
Restart ==
    /\ Spend("restarts")
    /\ pc' = "top" /\ clock' = Unset /\ left' = FALSE /\ right' = FALSE /\ seen' = FALSE
    /\ testing' = FALSE /\ detect' = FALSE
    /\ exec' \in BOOLEAN /\ dir' \in BOOLEAN
    /\ period' = period /\ time' \in 0 .. period
    /\ trigger' \in BOOLEAN /\ fresh' = trigger' /\ armed' \in {FALSE, trigger'}

Next ==
    \/ Thread \/ Tick \/ TestStart \/ TestEnd \/ Abort \/ Edit \/ Detector \/ Restart

Spec == Init /\ [][Next]_vars

(* The thread and the timer go on, and every test ends (TestMode). *)
FairSpec == Spec /\ WF_vars(Thread) /\ WF_vars(Tick) /\ WF_vars(TestEnd)

-----------------------------------------------------------------------------
(* The variables hold values the words can hold. *)
TypeOK ==
    /\ pc \in {"top", "start", "drive", "driven", "end", "count", "add"}
    /\ seen \in BOOLEAN /\ clock \in 0 .. Unset
    /\ left \in BOOLEAN /\ right \in BOOLEAN
    /\ exec \in BOOLEAN /\ dir \in BOOLEAN /\ time \in Nat /\ period \in Periods
    /\ testing \in BOOLEAN /\ trigger \in BOOLEAN /\ armed \in BOOLEAN
    /\ fresh \in BOOLEAN /\ detect \in BOOLEAN

(* R_AI_TP_EGG counts turns: however often the detector changes, and         *)
(* wherever a test or a restart comes in between, no turn counts twice.     *)
CountsTurns == pc = "add" => fresh

(* The tray is driven one way: a test that changes the direction in the      *)
(* middle of a turn has both relays ON between two writes and no longer.    *)
DrivenOneWay == left /\ right => pc = "driven"

(* A turn ends, however short the period and whatever was pressed.          *)
TurnEnds == exec ~> ~exec

(* The eggs are turned for ever: neither a test nor its end, nor a turn that *)
(* was broken off or lost, leaves the automatic turning without effect.     *)
TurnsGoOn == []<>(left \/ right)
=============================================================================
