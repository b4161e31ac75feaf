------------------------------ MODULE RunLife ------------------------------
(***************************************************************************)
(* What suspending promises of one run (Pipeline.run, Pipeline.resume): it *)
(* is driven by one caller at a time, it goes on from the stop it last     *)
(* came to, and it ends once.                                              *)
(***************************************************************************)
EXTENDS Naturals

VARIABLES
  life,   \* "driven", "stopped", "over", or "lost": nothing can continue it
  stop    \* which stop of the run a resume goes on from; 0 before the first

vars == <<life, stop>>

Init == life = "driven" /\ stop = 0

\* The run comes to its next stop.
Stop == life = "driven" /\ life' = "stopped" /\ stop' = stop + 1

\* A resumed drive failed: the run is where it last stopped.
PutBack == life = "driven" /\ stop > 0 /\ life' = "stopped" /\ UNCHANGED stop

GoOn == life = "stopped" /\ life' = "driven" /\ UNCHANGED stop

\* The run completed, or failed without ever having stopped.
End == life = "driven" /\ life' = "over" /\ UNCHANGED stop

\* The process driving the run, or holding what it stopped with, is gone.
Lose == life \in {"driven", "stopped"} /\ life' = "lost" /\ UNCHANGED stop

Next == Stop \/ PutBack \/ GoOn \/ End \/ Lose

Spec == Init /\ [][Next]_vars
=============================================================================
