------------------------------ MODULE MCReplay -------------------------------
(* A run of an agent that makes the same call twice at once and then asks, beside *)
(* a node whose function looks something up and asks about it.                    *)
EXTENDS Replay

MCSymmetry == Permutations(Answers)

MCProgram == [s \in Strands |->
    IF s = "hunt"
    THEN <<[turn |-> 1, call |-> "look"], [turn |-> 1, call |-> "look"], [turn |-> 1, call |-> "ask"]>>
    ELSE <<[turn |-> 1, call |-> "look"], [turn |-> 2, call |-> "ask"]>>]
MCKind == [s \in Strands |-> IF s = "hunt" THEN "agent" ELSE "deterministic"]

(* The same agent beside a function that only asks. *)
MCAsks == [s \in Strands |->
    IF s = "hunt" THEN MCProgram[s] ELSE <<[turn |-> 1, call |-> "ask"]>>]

(* A function that asks twice, in the same words. *)
MCTwice == [s \in Strands |-> <<[turn |-> 1, call |-> "ask"], [turn |-> 2, call |-> "ask"]>>]
=============================================================================
