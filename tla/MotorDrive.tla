------------------------------ MODULE MotorDrive ------------------------------
(***************************************************************************)
(* What the motor thread promises of its commands, whatever the line does:  *)
(* a command stays wanted until the drive has taken it, and the drive turns  *)
(* only because a start was wanted.  The exception is a stray, an answer     *)
(* that comes after its request was given up: each one can make the daemon   *)
(* believe in one command that the drive never got.                         *)
(***************************************************************************)
EXTENDS Naturals

CONSTANTS
    MaxStrays,  \* a number of answers that come too late
    MaxRestarts \* a number of restarts of the daemon

VARIABLES
    turning, \* the drive
    wanted,  \* "none", or the command that has not gone through
    strays,  \* late answers that may still be taken for another one
    restarts \* restarts that may still come

vars == <<turning, wanted, strays, restarts>>

Init ==
    /\ turning \in BOOLEAN /\ wanted = "none"
    /\ strays = MaxStrays /\ restarts = MaxRestarts

Command ==
    /\ wanted = "none" /\ wanted' \in {"start", "stop"}
    /\ UNCHANGED <<turning, strays, restarts>>

(* The drive takes the command; the answer may be lost, and the line flushed. *)
Obey ==
    /\ wanted # "none" /\ turning' = (wanted = "start")
    /\ wanted' \in {"none", wanted} /\ strays' \in 0 .. strays
    /\ UNCHANGED restarts

Mislead ==
    /\ wanted # "none" /\ wanted' = "none"
    /\ strays' \in Nat /\ strays' < strays
    /\ UNCHANGED <<turning, restarts>>

Flush == strays' \in 0 .. strays /\ UNCHANGED <<turning, wanted, restarts>>

Trip == turning' = FALSE /\ UNCHANGED <<wanted, strays, restarts>>

(* A restart forgets the command. *)
Forget ==
    /\ restarts > 0 /\ restarts' = restarts - 1 /\ wanted' = "none"
    /\ UNCHANGED <<turning, strays>>

Next == Command \/ Obey \/ Mislead \/ Flush \/ Trip \/ Forget

Spec == Init /\ [][Next]_vars
=============================================================================
