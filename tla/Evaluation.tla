----------------------------- MODULE Evaluation ------------------------------
(***************************************************************************)
(* An evaluation (EvalSuite.run): its rollouts through a pool of threads,    *)
(* what each leaves on disk, what ends the evaluation early, and             *)
(* resume_from, which scores the rollouts it finds there and runs the rest.  *)
(* A rollout is one run, or one run for each turn of its example's           *)
(* conversation, and each run has a directory of its own.                    *)
(***************************************************************************)
EXTENDS Integers, FiniteSets

CONSTANTS
    Rollouts,     \* positions in the order of the jobs, 1 first
    Turns,        \* Turns[r]: the runs rollout r takes
    Failings,     \* Failings[r]: the steps it may fail at: a turn, the reading of the
                  \* answer after the last one, or one it never gets to
    Concurrency,
    MaxAttempts   \* bound: the calls of EvalSuite.run

ASSUME RolloutsAssumption ==
    /\ IsFiniteSet(Rollouts) /\ Rollouts \subseteq Nat /\ Rollouts # {}
    /\ Turns \in [Rollouts -> Nat \ {0}]
    /\ Failings \in [Rollouts -> SUBSET (Nat \ {0})]
    /\ Concurrency \in Nat \ {0} /\ MaxAttempts \in Nat \ {0}

VARIABLES
    phase,     \* "running", "over", "raised", "killed", "refused"
    job,       \* what the pool made of each rollout in this attempt
    turn,      \* the turn a rollout is at
    result,    \* what each rollout of this attempt was scored as
    stopping,  \* the main thread met a rollout that raised, or an interrupt
    dir,       \* each run's directory: the runs its trajectory holds, and its manifest's end
    attempts,
    fails,     \* the step at which each rollout fails by itself, under the seed it has
    spoiled    \* history: the rollouts something else brought to an end

vars == <<phase, job, turn, result, stopping, dir, attempts, fails, spoiled>>

Places == UNION {{<<r, t>> : t \in 1 .. Turns[r]} : r \in Rollouts}
NoDir == [runs |-> 0, ended |-> "none"]
Jobs == {r \in Rollouts : job[r] # "resumed"}
Threaded == Concurrency > 1 /\ Cardinality(Jobs) > 1
Width == IF Threaded THEN Concurrency ELSE 1
Busy == {"running", "between"}

Init ==
    /\ phase = "running"
    /\ job = [r \in Rollouts |-> "queued"]
    /\ turn = [r \in Rollouts |-> 0]
    /\ result = [r \in Rollouts |-> "none"]
    /\ stopping = FALSE
    /\ dir = [p \in Places |-> NoDir]
    /\ attempts = 1
    /\ fails \in {f \in [Rollouts -> UNION {Failings[r] : r \in Rollouts}] :
                     \A r \in Rollouts : f[r] \in Failings[r]}
    /\ spoiled = {}

-----------------------------------------------------------------------------
(* Pipeline.run: the run appends to the trajectory it finds.                 *)
Writes(r, t) == dir' = [dir EXCEPT ![<<r, t>>] = [runs |-> @.runs + 1, ended |-> "none"]]
Ends(r, how) == dir' = [dir EXCEPT ![<<r, turn[r]>>].ended = how]
Becomes(r, how) == job' = [job EXCEPT ![r] = how]
ScoredAs(r, what) == result' = [result EXCEPT ![r] = what]

(* The pool starts the rollouts in the order they were submitted. *)
Begin(r) ==
    /\ phase = "running" /\ job[r] = "queued"
    /\ \A q \in Rollouts : q < r => job[q] # "queued"
    /\ Cardinality({q \in Rollouts : job[q] \in Busy}) < Width
    /\ Threaded \/ \A q \in Rollouts : job[q] \notin {"ended", "raised"}
    /\ Becomes(r, "running")
    /\ turn' = [turn EXCEPT ![r] = 1]
    /\ Writes(r, 1)
    /\ UNCHANGED <<phase, result, stopping, attempts, fails, spoiled>>

NextTurn(r) ==
    /\ phase = "running" /\ job[r] = "between"
    /\ Becomes(r, "running")
    /\ turn' = [turn EXCEPT ![r] = @ + 1]
    /\ Writes(r, turn[r] + 1)
    /\ UNCHANGED <<phase, result, stopping, attempts, fails, spoiled>>

Runs(r) == phase = "running" /\ job[r] = "running"

(* A run of the rollout ends well.  After the last one it is scored, as one   *)
(* that failed where its answer cannot be read.                               *)
Reading(r) == Turns[r] + 1
Complete(r) ==
    /\ Runs(r) /\ fails[r] # turn[r]
    /\ Ends(r, "completed")
    /\ IF turn[r] < Turns[r]
       THEN Becomes(r, "between") /\ UNCHANGED result
       ELSE Becomes(r, "ended") /\ ScoredAs(r, IF fails[r] = Reading(r) THEN "failed" ELSE "scored")
    /\ UNCHANGED <<phase, turn, stopping, attempts, fails, spoiled>>

(* The agent's own failure, in any of its turns, is a result like another:    *)
(* _failed_rollout.                                                           *)
Fail(r) ==
    /\ Runs(r) /\ fails[r] = turn[r]
    /\ Ends(r, "error")
    /\ Becomes(r, "ended") /\ ScoredAs(r, "failed")
    /\ UNCHANGED <<phase, turn, stopping, attempts, fails, spoiled>>

(* What reaches the caller instead of being scored: the run stops to ask a    *)
(* person, or the project is wired up wrongly, which may show in a run or     *)
(* only when what the last one returned is scored.                            *)
Raises(r, how) ==
    /\ Runs(r)
    /\ Ends(r, how)
    /\ Becomes(r, "raised")
    /\ spoiled' = spoiled \cup {r}
    /\ UNCHANGED <<phase, turn, result, stopping, attempts, fails>>
Suspend(r) == Raises(r, "suspended")
Break(r) ==
    \/ Raises(r, "error")
    \/ turn[r] = Turns[r] /\ fails[r] # turn[r] /\ Raises(r, "completed")

CancelledAnyway == [r \in Rollouts |->
    IF job[r] \in {"queued", "running"} THEN "cancelled" ELSE job[r]]
Cancelled == [r \in Rollouts |-> IF job[r] = "queued" THEN "cancelled" ELSE job[r]]

(* future.result() of each, in the order of submission. *)
Turned(r) == phase = "running" /\ ~stopping
             /\ \A q \in Rollouts : q < r => job[q] \in {"seen", "resumed"}
Collect(r) ==
    /\ Turned(r) /\ job[r] = "ended"
    /\ Becomes(r, "seen")
    /\ UNCHANGED <<phase, turn, result, stopping, dir, attempts, fails, spoiled>>

(* One that raised ends the evaluation: what has not started is cancelled. *)
CancelAndWait(r) ==
    /\ Turned(r) /\ job[r] = "raised"
    /\ job' = Cancelled
    /\ UNCHANGED <<phase, turn, result, stopping, dir, attempts, fails, spoiled>>
CollectRaised(r) ==
    /\ Turned(r) /\ job[r] = "raised"
    /\ stopping' = TRUE /\ job' = Cancelled
    /\ UNCHANGED <<phase, turn, result, dir, attempts, fails, spoiled>>

(* The pool is left once what runs has ended. *)
Leave ==
    /\ phase = "running" /\ stopping
    /\ \A r \in Rollouts : job[r] \notin Busy
    /\ phase' = "raised"
    /\ UNCHANGED <<job, turn, result, stopping, dir, attempts, fails, spoiled>>

Report ==
    /\ phase = "running" /\ ~stopping
    /\ \A r \in Rollouts : job[r] \in {"seen", "resumed"}
    /\ phase' = "over"
    /\ UNCHANGED <<job, turn, result, stopping, dir, attempts, fails, spoiled>>

(* A kill leaves each run as it is.  An interrupt reaches the main thread:    *)
(* waiting for the pool, or, where there is none, in the rollout, whose run   *)
(* closes its manifest on the way out.                                        *)
Kill ==
    /\ phase = "running"
    /\ phase' = "killed"
    /\ UNCHANGED <<job, turn, result, stopping, dir, attempts, fails, spoiled>>

Interrupt ==
    /\ phase = "running" /\ ~stopping
    /\ stopping' = TRUE
    /\ IF Threaded
       THEN job' = Cancelled /\ UNCHANGED <<dir, spoiled>>
       ELSE /\ job' = [r \in Rollouts |-> IF job[r] \in Busy THEN "raised" ELSE Cancelled[r]]
            /\ dir' = [p \in Places |->
                  IF job[p[1]] = "running" /\ p[2] = turn[p[1]]
                  THEN [dir[p] EXCEPT !.ended = "error"] ELSE dir[p]]
            /\ spoiled' = spoiled \cup {r \in Rollouts : job[r] \in Busy}
    /\ UNCHANGED <<phase, turn, result, attempts, fails>>

(* Somebody answers, and Pipeline.resume takes the run to its end. *)
Answer(p) ==
    /\ phase \in {"raised", "killed"} /\ dir[p].ended = "suspended"
    /\ dir' = [dir EXCEPT ![p].ended =
          IF fails[p[1]] = p[2] THEN "error" ELSE "completed"]
    /\ spoiled' = spoiled \ {p[1]}
    /\ UNCHANGED <<phase, job, turn, result, stopping, attempts, fails>>

-----------------------------------------------------------------------------
(* _resumed: a directory is the rollout's where it has the name of one run.   *)
OnDisk(r) == Turns[r] = 1 /\ dir[<<r, 1>>].runs > 0
Unended(r) == OnDisk(r) /\ dir[<<r, 1>>].ended = "none"
FoundAll == {r \in Rollouts : OnDisk(r)}
Found == {r \in Rollouts : OnDisk(r) /\ ~Unended(r)}
(* handle.finished *)
Rescored(r) == IF dir[<<r, 1>>].ended = "completed" THEN "scored" ELSE "failed"
KeptDirs == dir
LeftDirs == [p \in Places |-> IF Unended(p[1]) THEN NoDir ELSE dir[p]]

(* Read again, the answer raises again, and nothing catches it here.  What    *)
(* was wired up wrongly raises too, unless it was set right.                  *)
Unreadable == {r \in Found : dir[<<r, 1>>].ended = "completed" /\ fails[r] = Reading(r)}
Miswired == {r \in Found \cap spoiled : dir[<<r, 1>>].ended = "completed"}

(* EvalSuite.run(resume_from=...): the half-written rollouts are removed, the *)
(* ended ones scored, the others run; where there is none to score the        *)
(* directory, which holds progress.json, is refused as a used one.            *)
Called ==
    /\ phase \in {"raised", "killed", "over"} /\ attempts < MaxAttempts
    /\ attempts' = attempts + 1
    /\ turn' = [r \in Rollouts |-> 0]
    /\ stopping' = FALSE
    /\ UNCHANGED <<fails, spoiled>>

ResumeFrom ==
    /\ Called /\ Unreadable = {}
    /\ dir' = LeftDirs
    /\ phase' = IF Found = {} THEN "refused" ELSE "running"
    /\ job' = [r \in Rollouts |-> IF r \in Found THEN "resumed" ELSE "queued"]
    /\ result' = [r \in Rollouts |-> IF r \in Found THEN Rescored(r) ELSE "none"]

(* Scoring one of them raises, with some of the half-written ones removed.    *)
ResumeRaises ==
    /\ Called /\ Unreadable \cup Miswired # {}
    /\ \E kept \in SUBSET Rollouts :
          dir' = [p \in Places |-> IF p[1] \in kept THEN dir[p] ELSE LeftDirs[p]]
    /\ phase' = "raised"
    /\ job' = [r \in Rollouts |-> "cancelled"]
    /\ result' = [r \in Rollouts |-> "none"]

-----------------------------------------------------------------------------
Goes(r) == Begin(r) \/ NextTurn(r) \/ Complete(r) \/ Fail(r) \/ Collect(r) \/ CollectRaised(r)

Next ==
    \/ \E r \in Rollouts : Goes(r) \/ Suspend(r) \/ Break(r)
    \/ Leave \/ Report \/ Kill \/ Interrupt \/ ResumeFrom \/ ResumeRaises
    \/ \E p \in Places : Answer(p)

(* Threads of the pool and the main thread go on; nothing makes a person      *)
(* answer, or call the evaluation again.                                      *)
Spec ==
    /\ Init /\ [][Next]_vars
    /\ \A r \in Rollouts : WF_vars(Goes(r))
    /\ WF_vars(Leave) /\ WF_vars(Report)

-----------------------------------------------------------------------------
(* Types.  What is scored from disk or cancelled has not been started. *)
TypeOK ==
    /\ phase \in {"running", "over", "raised", "killed", "refused"}
    /\ job \in [Rollouts -> {"queued", "running", "between", "ended", "raised", "cancelled",
                             "seen", "resumed"}]
    /\ \A r \in Rollouts : turn[r] \in 0 .. Turns[r] /\ (job[r] \in {"resumed", "cancelled"} => turn[r] = 0)
    /\ result \in [Rollouts -> {"none", "scored", "failed"}]
    /\ stopping \in BOOLEAN
    /\ \A p \in Places :
          /\ dir[p].runs \in 0 .. MaxAttempts
          /\ dir[p].ended \in {"none", "completed", "error", "suspended"}
    /\ attempts \in 1 .. MaxAttempts
    /\ \A r \in Rollouts : fails[r] \in Failings[r]
    /\ spoiled \subseteq Rollouts

HoldsOneRun(r) == \A t \in 1 .. Turns[r] : dir[<<r, t>>].runs <= 1

(* runner.py:1251, a rollout appends to the trajectory it finds, so none is   *)
(* run into one: of the rollouts that are one run.                            *)
OneRunInATrajectory == \A r \in Rollouts : Turns[r] = 1 => HoldsOneRun(r)

(* Docs/evaluation.md:1729, the rollouts already on disk are scored without   *)
(* running and only the missing ones are run: the same of every rollout.      *)
OnlyTheMissingAreRun == \A r \in Rollouts : HoldsOneRun(r)

IsRight(r) == result[r] = IF fails[r] <= Reading(r) THEN "failed" ELSE "scored"

(* Docs/evaluation.md:1730, a resumed evaluation has the numbers of one that  *)
(* ran through, over any kills: apart from the rollouts an interrupt, an      *)
(* unanswered question or a refusal brought to an end.                        *)
NumbersHold == phase = "over" => \A r \in Rollouts \ spoiled : IsRight(r)

(* The same without the exception. *)
ResumedIsTheEvaluation == phase = "over" => \A r \in Rollouts : IsRight(r)

(* Docs/evaluation.md:1729, resume_from scores the rollouts already on disk   *)
(* and runs the missing ones: what was scored where it ran does not keep an   *)
(* evaluation that was killed from going on.                                  *)
ResumeGoesOn ==
    [][phase = "killed" /\ spoiled = {} /\ attempts' > attempts => phase' # "raised"]_vars

(* runner.py:660, at most `concurrency` rollouts are lost once one raised:    *)
(* that many at most run on, or have, whose result nobody reads.              *)
FewAreLost ==
    phase = "raised" =>
        Cardinality({r \in Rollouts : job[r] \in {"ended", "raised"}}) <= Concurrency

(* A call of EvalSuite.run comes to its end: also where rollouts raise while  *)
(* others run and the rest never starts.                                      *)
EveryCallEnds == phase = "running" ~> phase # "running"
=============================================================================
