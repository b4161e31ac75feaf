------------------------------- MODULE Replay --------------------------------
(***************************************************************************)
(* The tool calls of a run and the cassette they are recorded in            *)
(* (records/cassette.py, RunContext.call_tool).  Several strands of work, a  *)
(* node or an item of a fan-out each, make their calls at the same time; a   *)
(* call is filed under its strand, what it asks and how often that strand    *)
(* had asked the same.  Some runs are recorded into one file, over any stops *)
(* and resumes, and a later one replays it.  A model call is keyed on the    *)
(* messages, which are these answers, and is not modelled apart from them.   *)
(***************************************************************************)
EXTENDS Integers, Sequences, FiniteSets, SequencesExt

CONSTANTS
    Strands,      \* a node, or one item of a fan-out
    Program,      \* Program[s]: the calls of the strand, each [turn, call]
    Kind,         \* Kind[s]: "agent" or "deterministic"
    Overlapping,  \* calls of tools in concurrent_tools
    Asking,       \* calls of tools that may suspend
    Answers,      \* what a tool or a person may answer
    Recorded,     \* bound: the runs that are recorded
    MaxStops,     \* bound: the times one run stops
    MaxFailures,  \* bound: the failures the runs go on from
    MaxAsked      \* bound: how often a strand makes the same call in one run

Places(s) == DOMAIN Program[s]
CallAt(s, i) == Program[s][i].call
TurnAt(s, i) == Program[s][i].turn
Wording == UNION {{CallAt(s, i) : i \in Places(s)} : s \in Strands}
Keys == Strands \X Wording \X (0 .. MaxAsked - 1)

None == "none"
Failed == "failed"  \* the call came to nothing, and its function went on
Left == "left"      \* the strand failed, and the run went on without it

ASSUME ProgramAssumption ==
    /\ IsFiniteSet(Strands) /\ Strands # {}
    /\ {None, Failed, Left} \cap Answers = {}
    /\ \A s \in Strands : /\ Kind[s] \in {"agent", "deterministic"} /\ Program[s] # <<>>
                          /\ Places(s) = 1 .. Len(Program[s]) /\ Len(Program[s]) \in Nat
                          /\ \A i \in Places(s) : TurnAt(s, i) \in Nat
    /\ Overlapping \cap Asking = {}   \* _accept_concurrent
    /\ \A s \in Strands : \A i, j \in Places(s) :
          /\ i < j => TurnAt(s, i) <= TurnAt(s, j)
          \* `ordered`: a call that may stop the run goes last in its turn
          /\ i < j /\ TurnAt(s, i) = TurnAt(s, j) /\ CallAt(s, i) \in Asking => CallAt(s, j) \in Asking
          /\ Kind[s] = "deterministic" /\ i # j => TurnAt(s, i) # TurnAt(s, j)

ASSUME BoundsAssumption ==
    /\ Recorded \in Nat \ {0} /\ MaxStops \in Nat /\ MaxFailures \in Nat
    /\ MaxAsked \in Nat \ {0}

Unnumbered == -1
NoWait == [at |-> 0, number |-> Unnumbered]

VARIABLES
    mode,     \* the cassette of this run: "record", "update", "replay"
    phase,    \* "driving", "stopped", "over", "failed", "missed"
    file,     \* Cassette.variants(): the answers under each key, first recorded first
    seen,     \* _tool_occurrences of this run
    num,      \* the occurrence each call of this run took
    val,      \* what each call of this run was answered
    waiting,  \* the call a stopped strand waits at, and its occurrence
    halted,   \* the strands that stopped in this drive
    stops,    \* times this run stopped
    failures, \* failures a run went on from, or was resumed after
    saved,    \* what the last stop wrote down
    whole,    \* history: whether no node of this run failed and the run went on
    runs,     \* recorded runs so far
    alone,    \* history: whether every answer of this run is the first on file
    heard     \* history: the recorded runs that came to their end

vars == <<mode, phase, file, seen, num, val, waiting, halted, stops, failures, saved, whole, runs, alone, heard>>

Begun ==
    [seen |-> [s \in Strands |-> [c \in Wording |-> 0]],
     num |-> [s \in Strands |-> [i \in Places(s) |-> Unnumbered]],
     val |-> [s \in Strands |-> [i \in Places(s) |-> None]],
     waiting |-> [s \in Strands |-> NoWait], whole |-> TRUE]
Fresh ==
    /\ seen' = Begun.seen /\ num' = Begun.num /\ val' = Begun.val /\ waiting' = Begun.waiting
    /\ whole' = TRUE /\ saved' = Begun /\ halted' = {} /\ stops' = 0

Init ==
    /\ mode = "record" /\ phase = "driving"
    /\ file = [k \in Keys |-> <<>>]
    /\ seen = Begun.seen /\ num = Begun.num /\ val = Begun.val /\ waiting = Begun.waiting
    /\ failures = 0 /\ whole = TRUE /\ saved = Begun
    /\ halted = {} /\ stops = 0 /\ runs = 1 /\ alone = TRUE /\ heard = <<>>

-----------------------------------------------------------------------------
Recording == mode \in {"record", "update"}
ServesHits == mode \in {"replay", "update"}
KeyOf(s, i) == <<s, CallAt(s, i), num[s][i]>>
Lookup(k) == IF file[k] = <<>> THEN None ELSE Head(file[k])

(* Cassette.store: nothing is overwritten, an answer already there is not *)
(* written again, and another one goes behind it.                        *)
StoreOnce(k, v) ==
    IF file[k] = <<>> THEN [file EXCEPT ![k] = <<v>>] ELSE file
StoreAhead(k, v) ==
    IF v \in Range(file[k]) THEN file ELSE [file EXCEPT ![k] = <<v>> \o @]
StoreAlways(k, v) == [file EXCEPT ![k] = Append(@, v)]
Store(k, v) ==
    IF v \in Range(file[k]) THEN file ELSE [file EXCEPT ![k] = Append(@, v)]

InFlight(s) == {i \in Places(s) : num[s][i] # Unnumbered /\ val[s][i] = None /\ waiting[s].at # i}
Finished(s) == \A i \in Places(s) : val[s][i] # None
Waits(s) == waiting[s] # NoWait
Untouched(s) == \A i \in Places(s) : num[s][i] = Unnumbered
(* An agent is handed the answer it waits for before its next call. *)
Goes(s) == phase = "driving" /\ s \notin halted /\ (Waits(s) => Kind[s] = "deterministic")

(* The calls of the turn that run together, and are left: _overlap. *)
Together(s, t) == {j \in Places(s) : TurnAt(s, j) = t /\ CallAt(s, j) \in Overlapping
                                     /\ val[s][j] = None}
Overlaps(s, i) == Kind[s] = "agent" /\ i \in Together(s, TurnAt(s, i))
                  /\ Cardinality(Together(s, TurnAt(s, i))) > 1
TurnsBefore(s, i) == \A j \in Places(s) : TurnAt(s, j) < TurnAt(s, i) => val[s][j] # None

(* Identical calls among the ones taken together, before this one. *)
Alike(s, i, taken) == Cardinality({j \in taken : j < i /\ CallAt(s, j) = CallAt(s, i)})
Count(s, taken) ==
    /\ seen' = [seen EXCEPT ![s] =
        [c \in Wording |-> @[c] + Cardinality({j \in taken : CallAt(s, j) = c})]]
    /\ \A c \in Wording : seen'[s][c] <= MaxAsked

(* The same by arrival: whichever starts first takes the first number. *)
ReserveByArrival(s, i) ==
    /\ Goes(s) /\ TurnsBefore(s, i) /\ Overlaps(s, i) /\ num[s][i] = Unnumbered
    /\ num' = [num EXCEPT ![s][i] = seen[s][CallAt(s, i)]]
    /\ Count(s, {i})
    /\ UNCHANGED <<mode, phase, file, val, waiting, halted, stops, failures, saved, whole, runs, alone, heard>>

(* reserve_tool_occurrences: the calls that run together are numbered at      *)
(* once, in their order, before any of them runs.                             *)
Reserve(s, i) ==
    /\ Goes(s) /\ InFlight(s) = {} /\ TurnsBefore(s, i) /\ Overlaps(s, i)
    /\ LET taken == Together(s, TurnAt(s, i)) IN
       /\ num' = [num EXCEPT ![s] = [j \in Places(s) |->
             IF j \in taken THEN seen[s][CallAt(s, j)] + Alike(s, j, taken) ELSE @[j]]]
       /\ Count(s, taken)
    /\ UNCHANGED <<mode, phase, file, val, waiting, halted, stops, failures, saved, whole, runs, alone, heard>>

(* A call made on its own takes its number as it is made. *)
Take(s, i) ==
    /\ Goes(s) /\ InFlight(s) = {} /\ TurnsBefore(s, i)
    /\ num[s][i] = Unnumbered /\ val[s][i] = None /\ ~Overlaps(s, i) /\ waiting[s].at # i
    /\ \A j \in Places(s) : TurnAt(s, j) = TurnAt(s, i) /\ j # i =>
          /\ j < i => val[s][j] # None
          /\ ~Overlaps(s, j)
    /\ num' = [num EXCEPT ![s][i] = seen[s][CallAt(s, i)]]
    /\ Count(s, {i})
    /\ UNCHANGED <<mode, phase, file, val, waiting, halted, stops, failures, saved, whole, runs, alone, heard>>

(* A call already on file is answered from it. *)
Serve(s, i) ==
    /\ phase = "driving" /\ i \in InFlight(s)
    /\ ServesHits /\ Lookup(KeyOf(s, i)) # None
    /\ val' = [val EXCEPT ![s][i] = Lookup(KeyOf(s, i))]
    /\ UNCHANGED <<mode, phase, file, seen, num, waiting, halted, stops, failures, saved, whole, runs, alone, heard>>

Missing(s, i) == phase = "driving" /\ i \in InFlight(s) /\ (ServesHits => Lookup(KeyOf(s, i)) = None)

(* One that is not ends a replay. *)
Miss(s, i) ==
    /\ Missing(s, i) /\ mode = "replay"
    /\ phase' = "missed"
    /\ UNCHANGED <<mode, file, seen, num, val, waiting, halted, stops, failures, saved, whole, runs, alone, heard>>

(* Anything else runs live, and is filed: also what failed in words for the   *)
(* model.                                                                     *)
Live(s, i, v) ==
    /\ Missing(s, i) /\ Recording
    /\ val' = [val EXCEPT ![s][i] = v]
    /\ file' = Store(KeyOf(s, i), v)
    /\ UNCHANGED <<mode, phase, seen, num, waiting, halted, stops, failures, saved, whole, runs, alone, heard>>

(* Any other failure is not filed: of a call under way, of those beside it,   *)
(* or of the node between its calls.                                          *)
Fails(s) ==
    /\ Goes(s) /\ Recording
    /\ \E i \in Places(s) : saved.val[s][i] = None  \* its node had not come to its end
    /\ \E i \in Places(s) : val[s][i] # Left
GoesOn == failures < MaxFailures /\ failures' = failures + 1 /\ whole' = FALSE /\ alone' = FALSE

(* It ends the run. *)
Fail(s) ==
    /\ Fails(s)
    /\ phase' = "failed"
    /\ UNCHANGED <<mode, file, seen, num, val, waiting, halted, stops, failures, saved, whole, runs, alone, heard>>

(* RetryPolicy: the node begins again, and its calls are counted on.  One that *)
(* was resumed begins where it stopped, with the answer it was resumed with.   *)
Kept(s, i) ==
    IF saved.waiting[s].at = i THEN val[s][i] # None
    ELSE saved.val[s][i] # None /\ ~(Kind[s] = "deterministic" /\ saved.waiting[s] # NoWait)
Retry(s) ==
    /\ Fails(s) /\ GoesOn
    /\ num' = [num EXCEPT ![s] = [i \in Places(s) |-> IF Kept(s, i) THEN @[i] ELSE Unnumbered]]
    /\ val' = [val EXCEPT ![s] = [i \in Places(s) |-> IF Kept(s, i) THEN @[i] ELSE None]]
    /\ UNCHANGED <<mode, phase, file, seen, waiting, halted, stops, saved, runs, heard>>

(* on_error, or a fan-out's tolerated item: the run goes on without it.        *)
Leave(s) ==
    /\ Fails(s) /\ GoesOn
    /\ val' = [val EXCEPT ![s] = [i \in Places(s) |-> Left]]
    /\ waiting' = [waiting EXCEPT ![s] = NoWait]
    /\ UNCHANGED <<mode, phase, file, seen, num, halted, stops, saved, runs, heard>>

(* A function that catches the failure makes its next call.                    *)
Catch(s, i) ==
    /\ Fails(s) /\ GoesOn
    /\ Kind[s] = "deterministic" /\ Missing(s, i)
    /\ val' = [val EXCEPT ![s][i] = Failed]
    /\ UNCHANGED <<mode, phase, file, seen, num, waiting, halted, stops, saved, runs, heard>>

(* A call that stops the run files nothing and keeps its number. *)
Suspend(s, i) ==
    /\ Missing(s, i) /\ Recording
    /\ CallAt(s, i) \in Asking /\ stops < MaxStops
    /\ waiting' = [waiting EXCEPT ![s] = [at |-> i, number |-> num[s][i]]]
    /\ halted' = halted \cup {s}
    /\ UNCHANGED <<mode, phase, file, seen, num, val, stops, failures, saved, whole, runs, alone, heard>>

(* The same under a number of its own. *)
DeliverAnew(s, v) ==
    /\ phase = "driving" /\ Waits(s) /\ s \notin halted
    /\ LET i == waiting[s].at IN
       /\ Kind[s] = "deterministic" => InFlight(s) = {} /\ TurnsBefore(s, i)
       /\ num' = [num EXCEPT ![s][i] = seen[s][CallAt(s, i)]]
       /\ val' = [val EXCEPT ![s][i] = v]
       /\ file' = Store(<<s, CallAt(s, i), seen[s][CallAt(s, i)]>>, v)
    /\ waiting' = [waiting EXCEPT ![s] = NoWait]
    /\ UNCHANGED <<mode, phase, seen, halted, stops, failures, saved, whole, runs, alone, heard>>

(* file_answer: what somebody answered is filed under the number its call had. *)
Deliver(s, v) ==
    /\ phase = "driving" /\ Waits(s) /\ s \notin halted
    /\ LET i == waiting[s].at IN
       /\ Kind[s] = "deterministic" => InFlight(s) = {} /\ TurnsBefore(s, i)
       /\ num' = [num EXCEPT ![s][i] = waiting[s].number]
       /\ val' = [val EXCEPT ![s][i] = v]
       /\ file' = Store(<<s, CallAt(s, i), waiting[s].number>>, v)
    /\ waiting' = [waiting EXCEPT ![s] = NoWait]
    /\ UNCHANGED <<mode, phase, seen, halted, stops, failures, saved, whole, runs, alone, heard>>

(* The run stops once the strands that were running have come to their end. *)
Settled(s) ==
    \/ s \in halted
    \/ InFlight(s) = {} /\ (Finished(s) \/ Untouched(s) \/ (Waits(s) /\ Kind[s] = "agent"))
Stop ==
    /\ phase = "driving" /\ halted # {}
    /\ \A s \in Strands : Settled(s)
    /\ phase' = "stopped" /\ stops' = stops + 1
    /\ saved' = [seen |-> seen, num |-> num, val |-> val, waiting |-> waiting, whole |-> whole]
    /\ UNCHANGED <<mode, file, seen, num, val, waiting, halted, failures, whole, runs, alone, heard>>

(* restore_counters, off what the last stop wrote down: a resumed run that     *)
(* failed is resumed from it again.  A Deterministic node runs again from its  *)
(* start.                                                                      *)
RunsAgain(s) == Kind[s] = "deterministic" /\ saved.waiting[s] # NoWait
Resume ==
    /\ \/ phase = "stopped" /\ UNCHANGED <<failures, alone>>
       \/ phase = "failed" /\ stops > 0 /\ failures < MaxFailures
          /\ failures' = failures + 1 /\ alone' = FALSE
    /\ phase' = "driving" /\ halted' = {}
    /\ seen' = saved.seen /\ waiting' = saved.waiting /\ whole' = saved.whole
    /\ num' = [s \in Strands |-> [i \in Places(s) |->
          IF RunsAgain(s) THEN Unnumbered ELSE saved.num[s][i]]]
    /\ val' = [s \in Strands |-> [i \in Places(s) |->
          IF RunsAgain(s) THEN None ELSE saved.val[s][i]]]
    /\ UNCHANGED <<mode, file, stops, saved, runs, heard>>

-----------------------------------------------------------------------------
EndRun ==
    /\ phase = "driving" /\ \A s \in Strands : Finished(s)
    /\ phase' = "over"
    /\ heard' = IF Recording
                THEN Append(heard, [num |-> num, val |-> val, alone |-> alone, whole |-> whole])
                ELSE heard
    /\ UNCHANGED <<mode, file, seen, num, val, waiting, halted, stops, failures, saved, whole, runs, alone>>

(* The next run: recorded into the same file, as the rollouts of an           *)
(* evaluation are, or replayed from it.                                       *)
NextRun(m) ==
    /\ phase \in {"over", "failed"} /\ mode # "replay"
    /\ IF runs < Recorded THEN m \in {"record", "update"} ELSE m = "replay"
    /\ mode' = m /\ phase' = "driving" /\ runs' = runs + 1
    /\ alone' = (m = "update" \/ \A k \in Keys : file[k] = <<>>)
    /\ Fresh
    /\ UNCHANGED <<file, failures, heard>>

Works(s) ==
    \/ \E i \in Places(s) : Reserve(s, i) \/ Take(s, i) \/ Serve(s, i) \/ Miss(s, i) \/ Suspend(s, i)
                            \/ Catch(s, i)
    \/ Fail(s) \/ Retry(s) \/ Leave(s)
    \/ \E v \in Answers : Deliver(s, v) \/ \E i \in Places(s) : Live(s, i, v)

Next ==
    \/ Stop \/ Resume \/ EndRun
    \/ \E m \in {"record", "update", "replay"} : NextRun(m)
    \/ \E s \in Strands : Works(s)

Spec == Init /\ [][Next]_vars

-----------------------------------------------------------------------------
TypeOK ==
    /\ mode \in {"record", "update", "replay"}
    /\ phase \in {"driving", "stopped", "over", "failed", "missed"}
    /\ \A k \in Keys : file[k] \in Seq(Answers) /\ IsInjective(file[k])  \* one line for each answer
    /\ \A s \in Strands :
          /\ \A c \in Wording : seen[s][c] \in 0 .. MaxAsked
          /\ \A i \in Places(s) : /\ num[s][i] \in -1 .. MaxAsked - 1
                                  /\ val[s][i] \in Answers \cup {None, Failed, Left}
          /\ waiting[s].at \in Places(s) \cup {0}
    /\ halted \subseteq Strands /\ stops \in 0 .. MaxStops /\ failures \in 0 .. MaxFailures
    /\ runs \in 1 .. Recorded + 1 /\ alone \in BOOLEAN /\ whole \in BOOLEAN

(* Docs/pipeline.md 1.12, a tool call takes its number from its place: of an  *)
(* agent, a call's number is how many of its earlier calls asked the same,    *)
(* whatever overlapped and wherever the run stopped.                          *)
NumberedByPlace ==
    \A s \in Strands : Kind[s] = "agent" /\ whole =>
        \A i \in Places(s) : num[s][i] # Unnumbered =>
            num[s][i] = Cardinality({j \in 1 .. i - 1 : CallAt(s, j) = CallAt(s, i)})

(* Every answer a recorded run went on with is on file under the key of its  *)
(* call: what a later check of two answers under one key has to find.        *)
EveryAnswerIsOnFile ==
    \A r \in DOMAIN heard : \A s \in Strands : \A i \in Places(s) :
        heard[r].val[s][i] \in Answers =>
            heard[r].val[s][i] \in Range(file[<<s, CallAt(s, i), heard[r].num[s][i]>>])

(* A replay of a file that holds a whole run, one that was recorded to its end *)
(* and went on from no failure, never lacks an answer, so it never stops to    *)
(* ask anybody.                                                                *)
ReplayIsServed == phase = "missed" => \A r \in DOMAIN heard : ~heard[r].whole


(* Docs/run-envelope.md 5, an earlier run stays replayable after a later one  *)
(* has been recorded into the same file: an agent is handed the answers of    *)
(* the recorded run, for the run that began the file and those it served.     *)
Repeats(s) ==
    mode = "replay" =>
        \A r \in DOMAIN heard : heard[r].alone =>
            \A i \in Places(s) : val[s][i] \in {None, heard[r].val[s][i]}
ReplayIsTheRun == \A s \in Strands : Kind[s] = "agent" => Repeats(s)

(* context.py:1148, what keeps a suspended run replayable: the same of every *)
(* node, one that runs again from its start after a resume included.         *)
SuspendedRunsReplay == \A s \in Strands : Repeats(s)
=============================================================================
