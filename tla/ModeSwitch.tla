------------------------------ MODULE ModeSwitch ------------------------------
(***************************************************************************)
(* What the main loop promises of the modes, without words, blocks or        *)
(* acknowledgements: every change of the mode has one of a few causes,       *)
(* preheat begins only inside its window, an incubation is thrown away only  *)
(* by the reset command or by the end of a preheat, and calibration takes    *)
(* mode and window at one moment and gives the same two back.                *)
(***************************************************************************)
EXTENDS Integers

CONSTANT MaxPreheat \* the longest preheat window

VARIABLES
    doing,  \* the mode
    window, \* the preheat window
    held,   \* the mode and the window that calibration gives back
    now,    \* the clock
    run,    \* how long the incubation has lasted
    limit,  \* how long it may last
    kept    \* the mode, window and incubation that a restart finds

vars == <<doing, window, held, now, run, limit, kept>>

NoWindow == [start |-> 0, stop |-> 0]
Windows == [start : Nat, stop : Nat]
Nothing == [doing |-> "none", window |-> NoWindow]

Init ==
    /\ doing = "none" /\ window = NoWindow /\ held = Nothing /\ run = 0
    /\ kept = [doing |-> doing, window |-> window, run |-> run, at |-> now]

(* The mode is m from now on, and calibration, if it was that, is forgotten. *)
Become(m) == doing' = m /\ held' = Nothing /\ UNCHANGED <<now, limit, kept>>

(* A start or a stop command, which both drop the window. *)
Take(m) == Become(m) /\ window' = NoWindow /\ run' = run

(* The incubation has lasted its time. *)
Limit == run >= limit /\ Become("none") /\ UNCHANGED <<window, run>>

Proper(w) ==
    /\ w.start # 0 /\ w.stop # 0 /\ w.start < w.stop
    /\ w.stop - w.start <= MaxPreheat

Warm ==
    /\ Proper(window) /\ window.start <= now /\ now <= window.stop
    /\ Become("preheat") /\ UNCHANGED <<window, run>>

(* After its window an incubation begins, from its first second. *)
WarmOver ==
    /\ Proper(window) /\ now > window.stop
    /\ Become("none") /\ window' = NoWindow /\ run' = 0

WindowEmpty ==
    /\ window.start # 0 /\ window.start = window.stop
    /\ Become("none") /\ window' = NoWindow /\ run' = run

Calibrate ==
    /\ doing # "calibration" /\ doing' = "calibration" /\ window' = NoWindow
    /\ held' = [doing |-> doing, window |-> window]
    /\ UNCHANGED <<now, run, limit, kept>>

Release ==
    /\ doing = "calibration" /\ Become(held.doing)
    /\ window' = held.window /\ run' = run

Reset == run' = 0 /\ UNCHANGED <<doing, window, held, now, limit, kept>>

Edit == window' \in Windows /\ UNCHANGED <<doing, held, now, run, limit, kept>>

(* Time passes, and the clock may be set. *)
Pass ==
    /\ now' \in Nat /\ run' \in Nat /\ run' >= run
    /\ UNCHANGED <<doing, window, held, limit, kept>>

(* A copy is taken.  While calibration is being entered it may still hold    *)
(* the mode that calibration takes away.                                     *)
Keep ==
    /\ kept'.run = run /\ kept'.at = now
    /\ \/ kept'.doing = doing /\ kept'.window = window
       \/ /\ doing = "calibration" /\ kept'.doing = held.doing
          /\ kept'.window \in Windows
    /\ UNCHANGED <<doing, window, held, now, run, limit>>

(* A restart resumes the incubation or the preheat of the copy, or nothing,  *)
(* with the window of the copy, and never takes time off the incubation,     *)
(* unless the clock was set back.                                            *)
PowerCut ==
    /\ doing' \in {"none"} \cup ({"start", "preheat"} \cap {kept.doing})
    /\ window' = kept.window /\ held' = Nothing
    /\ now' \in Nat /\ run' \in Nat /\ (run' >= kept.run \/ now' < kept.at)
    /\ UNCHANGED <<limit, kept>>

Next ==
    \/ Take("start") \/ Take("stop") \/ Limit \/ Warm \/ WarmOver \/ WindowEmpty
    \/ Calibrate \/ Release \/ Reset \/ Edit \/ Pass \/ Keep \/ PowerCut

Spec == Init /\ [][Next]_vars
=============================================================================
