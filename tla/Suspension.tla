----------------------------- MODULE Suspension -----------------------------
(***************************************************************************)
(* How the state of one suspended run changes hands between the callers of *)
(* `resume` (records/suspension.py, and Pipeline.resume, _drive_resumed    *)
(* and _drive in pipeline/core.py). Each worker is a thread or a process   *)
(* on the same run directory. A file is named by the stop whose state it   *)
(* holds; what the state holds is the frame of module Walk.                *)
(***************************************************************************)
EXTENDS Naturals

CONSTANTS Workers,
          MaxStops   \* bound: how often the run stops

ASSUME MaxStopsAssumption == MaxStops \in Nat

VARIABLES
  suspension,   \* suspension.json: the stop it is of, 0 where there is none
  claimed,      \* suspension.claimed.json, likewise
  whole,        \* whether the last state written is all on disk
  status,       \* what each worker is doing
  state,        \* the state each worker read when it resumed; 0 for none
  over,         \* the run completed, or failed and was never suspended
  last_stop,    \* history: the stop the run last came to
  abandoned     \* history: a worker was interrupted while it held the claim

vars == <<suspension, claimed, whole, status, state, over, last_stop, abandoned>>

Is(s) == {w \in Workers : status[w] \in s}

Init ==
  /\ suspension = 0 /\ claimed = 0 /\ whole = TRUE
  /\ \E first \in Workers :
       status = [w \in Workers |-> IF w = first THEN "driving" ELSE "idle"]
  /\ state = [w \in Workers |-> 0]
  /\ over = FALSE /\ last_stop = 0 /\ abandoned = FALSE

Becomes(w, s) == status' = [status EXCEPT ![w] = s]

-----------------------------------------------------------------------------
(* Taking a suspension *)

\* Mutant of Claim: the file is read where it is.
ClaimByReading(w) ==
  /\ status[w] = "idle" /\ suspension # 0
  /\ claimed' = suspension
  /\ Becomes(w, "claimed")
  /\ UNCHANGED <<suspension, whole, state, over, last_stop, abandoned>>

\* The file is renamed before anything is read.
Claim(w) ==
  /\ status[w] = "idle" /\ suspension # 0
  /\ claimed' = suspension /\ suspension' = 0
  /\ Becomes(w, "claimed")
  /\ UNCHANGED <<whole, state, over, last_stop, abandoned>>

\* A state that is still being written, or was never finished, does not parse.
Read(w) ==
  /\ status[w] = "claimed" /\ whole
  /\ state' = [state EXCEPT ![w] = claimed]
  /\ Becomes(w, "holding")
  /\ UNCHANGED <<suspension, claimed, whole, over, last_stop, abandoned>>

\* Mutant of Release: the claim is copied back.
ReleaseCopy == suspension' = claimed /\ UNCHANGED claimed

\* release_claim: the claimed file goes back where it was found.
Release == suspension' = claimed /\ claimed' = 0

\* Mutant of Refuse: a state that does not parse is not put back.
RefuseUnparsed(w) ==
  /\ status[w] \in {"claimed", "holding"}
  /\ IF status[w] = "holding" THEN Release ELSE UNCHANGED <<suspension, claimed>>
  /\ Becomes(w, "idle")
  /\ UNCHANGED <<whole, state, over, last_stop, abandoned>>

\* The state does not parse, is early or of another format, or anything else
\* checked before the drive refuses it.
Refuse(w) ==
  /\ status[w] \in {"claimed", "holding"}
  /\ IF claimed # 0 THEN Release ELSE UNCHANGED <<suspension, claimed>>
  /\ Becomes(w, "idle")
  /\ UNCHANGED <<whole, state, over, last_stop, abandoned>>

\* A KeyboardInterrupt, in the sleep of `wait=True` or anywhere else before the
\* drive, is no Exception: the claim stays.
Interrupt(w) ==
  /\ status[w] \in {"claimed", "holding"}
  /\ Becomes(w, "idle")
  /\ abandoned' = TRUE
  /\ UNCHANGED <<suspension, claimed, whole, state, over, last_stop>>

\* discard_claim: while the run is driven nothing on disk stands for it.
Drive(w) ==
  /\ status[w] = "holding"
  /\ claimed' = 0
  /\ Becomes(w, "driving")
  /\ UNCHANGED <<suspension, whole, state, over, last_stop, abandoned>>

-----------------------------------------------------------------------------
(* How a drive ends *)

\* The file is opened in place and is there before all of it is.
WriteState(w, stop) ==
  /\ suspension' = stop /\ whole' = FALSE
  /\ Becomes(w, "writing")

\* Mutant of Stops: a resumed drive that stops again writes what it found.
StopsWhereItBegan(w) ==
  /\ status[w] = "driving" /\ last_stop < MaxStops
  /\ WriteState(w, IF state[w] # 0 THEN state[w] ELSE last_stop + 1)
  /\ last_stop' = last_stop + 1
  /\ UNCHANGED <<claimed, state, over, abandoned>>

Stops(w) ==
  /\ status[w] = "driving" /\ last_stop < MaxStops
  /\ WriteState(w, last_stop + 1)
  /\ last_stop' = last_stop + 1
  /\ UNCHANGED <<claimed, state, over, abandoned>>

\* Mutant of Fails: a resumed drive that fails leaves nothing to resume.
FailsForGood(w) ==
  /\ status[w] = "driving"
  /\ IF state[w] = 0 THEN over' = TRUE ELSE UNCHANGED over
  /\ Becomes(w, "idle")
  /\ UNCHANGED <<suspension, claimed, whole, state, last_stop, abandoned>>

\* Whatever a resumed drive raises, the state it found is written back. A first
\* drive that fails leaves nothing to resume.
Fails(w) ==
  /\ status[w] = "driving"
  /\ IF state[w] # 0
     THEN WriteState(w, state[w]) /\ UNCHANGED over
     ELSE over' = TRUE /\ Becomes(w, "idle") /\ UNCHANGED <<suspension, whole>>
  /\ UNCHANGED <<claimed, state, last_stop, abandoned>>

Completes(w) ==
  /\ status[w] = "driving"
  /\ over' = TRUE
  /\ Becomes(w, "idle")
  /\ UNCHANGED <<suspension, claimed, whole, state, last_stop, abandoned>>

\* The rest of the file is on disk, under whichever name it has by now.
Written(w) ==
  /\ status[w] = "writing"
  /\ whole' = TRUE
  /\ Becomes(w, "idle")
  /\ UNCHANGED <<suspension, claimed, state, over, last_stop, abandoned>>

\* The process is killed.
Crash(w) ==
  /\ status[w] # "gone"
  /\ Becomes(w, "gone")
  /\ UNCHANGED <<suspension, claimed, whole, state, over, last_stop, abandoned>>

Resolve(w) == Read(w) \/ Refuse(w) \/ Drive(w)

WorkerStep(w) ==
  \/ Claim(w) \/ Resolve(w) \/ Interrupt(w) \/ Stops(w) \/ Fails(w)
  \/ Completes(w) \/ Written(w) \/ Crash(w)

Next == \E w \in Workers : WorkerStep(w)

Spec == Init /\ [][Next]_vars

\* A worker that took a state goes on or refuses, and a write returns. Nothing
\* says that a worker claims, or that a drive ends.
FairSpec == Spec /\ \A w \in Workers : WF_vars(Resolve(w)) /\ WF_vars(Written(w))

-----------------------------------------------------------------------------
(* What suspending promises *)

Types ==
  /\ suspension \in Nat /\ claimed \in Nat /\ last_stop \in Nat
  /\ whole \in BOOLEAN /\ over \in BOOLEAN /\ abandoned \in BOOLEAN
  /\ status \in [Workers -> {"idle", "claimed", "holding", "driving", "writing", "gone"}]
  /\ state \in [Workers -> Nat]

\* The variables have their types, and a state is under one of its two names.
TypeOK == Types /\ (suspension = 0 \/ claimed = 0)

\* Two workers never continue one run (claim_state: "two workers reading the
\* same run directory cannot both continue the run and both write into its
\* trajectory"), though what they claim is discarded before the run is driven
\* and written back by a drive that failed.
OneDriver == \A v, w \in Is({"driving"}) : v = w

\* A run goes on from where it last stopped, never from an earlier stop, though
\* failed drives write older copies back (_drive_resumed: "the run stopped
\* again and wrote its own state, which is later than this one").
GoesOnFromTheLastStop ==
  \A w \in Is({"holding", "driving"}) : state[w] = last_stop

\* While the run is not over it is being driven, or can be resumed. Only a
\* process that is killed, or interrupted as it holds the claim, loses it.
StaysResumable ==
  \/ over \/ abandoned \/ Is({"gone"}) # {}
  \/ suspension # 0 \/ Is({"claimed", "holding", "driving"}) # {}

\* As the resume docstring has it: "A resume that fails part-way leaves the
\* suspension where it found it, so the run is resumed again".
FailedResumesLeaveTheSuspension ==
  \/ over \/ Is({"gone"}) # {}
  \/ suspension # 0 \/ Is({"claimed", "holding", "driving"}) # {}

\* A claim is not kept: the run is put back or goes on.
ClaimsAreResolved ==
  (claimed # 0) ~> (claimed = 0 \/ abandoned \/ Is({"gone"}) # {})

-----------------------------------------------------------------------------
(* The run this is, whoever has its state *)

\* Somebody can still continue the run from what is on disk.
Stopped ==
  /\ whole \/ Is({"writing"}) # {}
  /\ suspension # 0 \/ (claimed # 0 /\ Is({"claimed", "holding"}) # {})

Life == IF over THEN "over"
        ELSE IF Is({"driving"}) # {} THEN "driven"
        ELSE IF Stopped THEN "stopped" ELSE "lost"

Run == INSTANCE RunLife WITH life <- Life, stop <- last_stop

\* What the workers do with the files is one run, driven by one of them at a
\* time, that goes on from its last stop and ends once.
IsOneRun == Run!Spec
=============================================================================
