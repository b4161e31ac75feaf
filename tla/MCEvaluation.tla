---------------------------- MODULE MCEvaluation -----------------------------
(* Rollouts of one run each, and a second one that is a conversation of two     *)
(* turns.  The first may fail in its run, the second in either turn or when its *)
(* answer is read, the others when the answer is read.                          *)
EXTENDS Evaluation

Never == 9
MCTurns == [r \in Rollouts |-> IF r = 2 THEN 2 ELSE 1]
MCFailings == [r \in Rollouts |->
    CASE r = 1 -> {1, Never} [] r = 2 -> {1, 2, 3, Never} [] OTHER -> {2, Never}]
=============================================================================
