# A verification development of simple-agents

simple-agents runs pipelines of deterministic, model and agent nodes. A pipeline is a
declared graph. A *run* walks that graph, overlaps nodes on a thread pool, may stop
in the middle because a tool asked somebody a question, writes what it was holding to disk,
and goes on in another process hours later. This directory holds TLA+ models of the parts of
the program that decide *what happens in which order and who may do it*, TLC configurations
that check them on small instances, and TLAPS proofs for every instance.

Contents: [the system](#the-system), [the modules](#the-modules), [the runs](#the-runs),
[the proofs](#the-proofs), [what the code departs from](#where-the-code-departs-from-what-it-says),
[not modelled](#not-modelled), [the plan](#the-plan). To repeat everything in this directory:

    tlc -workers 2 -config MCWalk.cfg MCWalk
    tlc -workers 2 -config Suspension.cfg Suspension
    tlc -workers 2 -config Shelf.cfg Shelf
    tlc -workers 2 -config MCCalls.cfg MCCalls
    tlc -workers 2 -config FanOut.cfg FanOut
    tlc -workers 2 -config MCReplay.cfg MCReplay
    tlc -workers 2 -config MCEvaluation.cfg MCEvaluation
    for m in *Proofs.tla; do tlapm $m; done

## The system

Paths are under `src/src/simple_agents/`.

| Component | State it keeps | Operations | What makes it correct |
|---|---|---|---|
| Graph (`graph.py`) | edges, back edges, cycles, overlap groups; fixed once built | build, refuse, `may_overlap`, `cycle_around`, `loop_at` | a declaration that is not refused can be walked to its end |
| Edge state (`pipeline/edges.py`) | which edges resolved, which nodes are done, visit counts | `enter`, `unenter`, `advance`, `divert`, `resolve_all_absent` | a join waits for all of this round and nothing of the last; counts are rounds |
| Walk (`pipeline/core.py`) | one frame: edge state, outputs, stopped nodes and what they held | choose a batch, skip, stop before a node, run, retry, settle, suspend, resume | only declared overlaps; finished nodes are not run twice; bounds hold; drives end |
| Work pool (`concurrency.py`) | slots, the units of one `map` | `map`, `slot` | the ceiling holds; a stop drains what has not begun and nothing else |
| Suspension (`records/suspension.py`, `Pipeline.resume`) | `suspension.json`, `suspension.claimed.json` | write, claim, release, discard, write back | one driver; the latest state wins; a run is not lost |
| Shelf (`records/shelf.py`, `pipeline/answering.py`) | `shelf.json`, `shelf.claimed.json` | leave a question, claim, release, settle | one answer per question; no question is lost |
| Run context (`context.py`, `budget.py`) | spend, steps in flight, scopes, call and occurrence counters | `one_step`, `scoped_budget`, `counters`, call a model or a tool | overlapping calls stop on `max_steps`; numbering survives a stop |
| Cassette (`records/cassette.py`) | recorded responses by key and occurrence | lookup, store | a replay serves each call its own answer |
| Agent and fan-out nodes (`nodes/`) | a conversation, items done and in flight | turn, overlap tool calls, delegate, stop, go on | no call is made again after a stop |
| Consultation (`runtime/`) | outstanding questions, answers by call number | ask, shelve, suspend, hand back the answer | an answer reaches the call that asked |
| Trajectory, manifest (`records/`) | append-only records under one lock | write, number, close | file order is sequence order |
| Memory, conversation, URL cache | one file per key, replaced by rename | get, put, forget | a reader sees the old entry or the new one |
| Evaluation (`evaluation/`) | rollouts on disk, progress, a simulated user's answers | run, resume, score, compare | a resumed evaluation has each rollout once |
| Adapters, MCP, pacing | connections, sessions, a published allowance | call, wait | behind the model and tool seams |
| View, conformance, CLI, schemas, prompts | none that a run depends on | render, check, print | not a matter of order |

How they interact. `Pipeline.run` builds a `RunContext` and calls `_drive`, which calls
`_walk`. The walk reads the graph, asks the edge state what is ready, and hands batches to
the pool. A node's code runs on the pool's threads and calls models and tools through the context. A
`Suspend` raised there comes back through the pool, the walk folds it into the frame, and
`_drive` writes the frame to `suspension.json`. `resume` claims that file, restores the
frame, and drives again. A question that need not stop the run is noted on the context
instead, and `_drive` writes those to `shelf.json` as it ends; `answer_shelved` claims that file from
any other process.

What is hard here. Overlapping nodes that stop, fail and are drained in one batch. Loops
inside loops, whose edges and counts are reset in place. Resumes of resumes. Several
processes on one run directory with nothing between them but `rename`. Exceptions that must
put back what was claimed. `PROJECT.json` lists each such place at its line, with the properties that
cover it or the reason none does.

## The modules

**Graph.tla** is `graph.py`: what `Graph` computes from a declaration, as operators on a
record. `Accepted` is the conjunction of its refusals, and `GraphOf` is what the walk reads.
The depth-first walk that finds back edges repeats `DfsStep` until nothing is left, because which edge of a cycle
is "back" depends on the order of the successors. Reachability is the least closed set. There is no
RECURSIVE operator, so the module can be proved about.

**EdgeState.tla** is `_EdgeState`, as operators on a record. The `resolved` dictionary of the
code is the two sets `fired` and `absent`. Edge *values* are left out: every edge out of a
node is resolved again whenever the node runs, so what an edge carries is the last output of
its source, and whether that output is from this round is what `InputsSettled` checks.

**Walk.tla** is one run. A step is one decision of `_walk`, or one thing that happens on a
pool thread:

| Action | Code |
|---|---|
| `ChooseBatch`, `BudgetSpent`, `StopBefore`, `StartBatch` | `_batch`, `_skip_unreached`, `_charge_or_stop`, `_up_to_a_declared_stop` |
| `StartStopped` | the first batch of a restored frame |
| `UnitStarts`, `UnitReturns`, `UnitRetries`, `UnitDiverts`, `UnitRaises`, `UnitSuspends` | `WorkPool.map` around `_attempt` |
| `SettleReturned`, `SettleFailure`, `SettleDrained`, `SettleSuspended`, `SettleRaised`, `RouteRaises` | the loop over the outcomes, in the order of the batch |
| `BatchSettled`, `EndWalk` | how a batch and a drive end |
| `Resume` | `resume` restoring the frame |

A node's own code is the environment: a declaration says which nodes may raise, raise
something fatal, or suspend, and TLC tries every choice. Routes choose every non-empty set
of successors. The failure of a resumed drive is modelled by keeping `saved` until the run
completes, as `_drive_resumed` writes it back; Suspension.tla models that write itself.
Three history variables remember what the properties need: `rounds` (how often a closing node
has run since its cycle was entered), `finished` and `interrupted`. They are saved and
restored with the frame, so that they mean the same across a failed resume.

**RunLife.tla** is the abstract specification of a run that may stop: driven, stopped, over
or lost. **Suspension.tla** is the protocol that implements it: any number of callers on one
run directory, two file names, and a claim by rename. A state is a number, the stop it is of.
`whole` is whether the last state written is all on disk, since `write_state` opens the file
in place. `Crash` kills a process anywhere; `Interrupt` is a `KeyboardInterrupt` before the drive.
`IsOneRun` is the refinement: `Life` maps the files and the workers to RunLife's state.

**Shelf.tla** is the same kind of protocol for shelved questions, with two differences that
matter: several questions share one file, and the run that asked may itself be suspended and
resumed, and it writes the file without claiming it.

**Calls.tla** is what bounds the calls of a run. One unit is one item of a fan-out: an agent
loop that asks its model, runs a tool that may ask it too or fetch an embedding, or delegates.

| Action | Code |
|---|---|
| `Open`, `Close` | `RunContext.scoped_budget` around a fan-out |
| `Begin` | `WorkPool.map`, at the width of the node and of the run |
| `TakeStep`, `RefuseRun`, `RefuseNode` | the three outcomes of `one_step` |
| `AskBackend`, `Return`, `Raise` | `call_model` inside a slot, and `_call_model` after it |
| `Charge`, `Release` | `charge`, then the end of `one_step`: two steps, as in the code |
| `AskTool`, `RunTool`, `Throttle`, `EndTool` | `_call_waiting_out_a_throttle` and `fold_spend` |
| `Retrieve`, `ChargeRetrieval` | `_call_retrieval_model`, a step of the run and of no node |
| `Delegate`, `EndDelegate` | `_delegate`, which folds what the whole run spent meanwhile |

Only the axis of steps is there; tokens, cost and time are checked at the same places and are documented to
overshoot. `made` counts what the accounts are compared with.

**FanOut.tla** is `_fan_out` over any number of stops: the state that travels with a
suspension (`done`, `held`, `asked`), what the pool makes of each item, and who is handed the
answer. `kind` chooses between an AgentNode, whose item goes on from its call, and a Deterministic
node, whose function runs again (`_FixedPointCaller`). A drive that failed, in the node or after it (`EndInFailure`, `FailLater`), wrote the
last suspension back: it is resumed from `saved`, what the last stop wrote down, and the histories forget what the failed drive did. Three histories remember the questions that
were put, the calls handed an answer, and the calls an item has behind it. Calls.tla and
FanOut.tla are two views of one fan-out: what it spends, and what it remembers.

**Replay.tla** is the way of a tool call through the cassette: occurrence numbers, reserved
for the calls of a turn that overlap (`Reserve`) or taken one by one (`Take`); the look-up, the live call, what is filed and
under which key; a call that stops the run and is answered in a later process (`Suspend`, `Deliver`).
A strand is a node or an item. Runs are recorded into one file one after another, as
`EvalSuite.record` does, and a last one replays it. A failure that is filed in words for the model is an answer like another. Any other
takes its number and files nothing: it ends the run (`Fail`), or the node begins again (`Retry`, a RetryPolicy), or the run goes on without it (`Leave`: `on_error`, or a tolerated
item), or the function catches it (`Catch`). The node's calls are counted on from there, and `whole` remembers that it happened. An answer is one of a small set; a model call is keyed on the messages,
which are these answers, so it replays exactly when they do.

**Evaluation.tla** is `EvalSuite.run`: rollouts through a pool, `future.result()` in their order, what cancels the rest,
and on disk the directory of each run, as the number of runs its trajectory holds and the end its manifest names.
`Kill` stops the process anywhere, `Interrupt` is a KeyboardInterrupt, `Answer` is `Pipeline.resume` of a rollout that
stopped, and `ResumeFrom` is `run(resume_from=...)`, or `ResumeRaises` where scoring what it found raises. A wiring error (`Break`) shows in a run, or
when what the last one returned is scored, after its manifest was closed as completed. At which step a rollout fails by itself (`fails`: a turn, the reading of its answer, or none) is a constant of the behaviour, since
its seed is derived from the evaluation's: an evaluation that is resumed has to come out as one that ran through.

**MCWalk**, **MCCalls**, **MCReplay** and **MCEvaluation** hold the instances of those modules. Shelf,
Suspension and FanOut need none: their constants are sets. The `*Proofs` modules hold the proofs.

Mutants. Beside a definition stands, where a property is checked, a variant with a plausible mistake in
it (named in a comment "Mutant of ..."). No specification uses one. Each shows that its
property can fail.

## The runs

| Run | Instance | Distinct states | Shows |
|---|---|---|---|
| `walk` | seven pipelines of 4 to 6 nodes, ceiling 2 | 5 537 | the walk's safety and that every drive ends |
| `suspension` | 3 callers, at most 2 stops | 3 329 | the claim protocol, and that it implements RunLife |
| `shelf` | 2 questions, 2 calls, 2 looks, at most 1 stop | 27 624 | who holds which question, and that calls end |
| `calls` | 3 items of 2 nodes, run budget 3, node total 2, ceiling 2 | 204 200 | budgets and slots over everything that overlaps |
| `fan_out` | 3 items of 2 calls, 2 at once, 1 failure tolerated, 2 stops | 521 856 | what an item is handed and what it does again |
| `replay` | 2 nodes, 4 calls, 2 answers, 2 recorded runs, 1 stop each, 1 failure gone on from | 1 398 904 | that a replay is the recorded run |
| `evaluation` | 3 rollouts, one of 2 turns, 2 at once, 3 attempts | 763 738 | what is on disk after a crash, and what is scored |

Five more runs each check one property that the code does not have
([below](#where-the-code-departs-from-what-it-says)).

*The properties of `walk`.* `OverlapIsDeclared`: two nodes run at once only where one group
lists both. `ArmsAreIndependent`: a node never runs beside one it is still to receive from,
though a group lists both (pipeline `Groups` does). `FinishedNodesRest`: a completed node is
not run again until its cycle is reopened, over any stops and resumes. `InputsSettled`: every
forward in-edge has resolved, one carries a value, and each that does was put there in this
round. `CountsAreRounds` and `LoopBound`: the code's count of a closing node is the number of
its runs, and never exceeds `max_iterations`. `TerminalReached`: the walk never runs dry.
`EveryDriveEnds`: under fairness each drive completes, fails or stops.

*The properties of `calls`.* `StepsNeverOvershoot`: charged calls and calls on their way never pass `max_steps`.
`TotalBindsEveryItem`: no item of a node asks its model once the node's total is used up, whoever used it. `NothingIsForgotten`: an open account
holds every call that is over. `AtMostCeilingInFlight`: requests and running tools together keep to the ceiling, a tool that asks a model
counting once. `EverythingIsGivenBack`: after refusals, failures and throttles at any point no step and no slot is left.
`EveryItemEnds`: nobody waits for a slot its own caller holds.

*The properties of `fan_out`.* `EachItemCompletesOnce`; `NoCallIsMadeAgain`, of an AgentNode, also where an item was drained
while it held a call, or stopped twice; `AnswersReachTheirCall`; `ToleranceHolds`: a node that finishes has an outcome of every item and no more
failures than it tolerates, counted once each over all its drives.

*The properties of `replay`.* `NumberedByPlace`: an agent's call takes its number from its place, not from arrival.
`EveryAnswerIsOnFile`: what a recorded run went on with is in the file under its key. `ReplayIsServed`: a file that holds a whole run, one recorded to its end that went on from no failure, never lacks an
answer, so a replay never stops to ask. Without "from no failure" it is false, which `retried` shows. `ReplayIsTheRun`: an agent is handed the recorded run's answers, whatever was recorded into the file afterwards.

*The properties of `evaluation`.* `OneRunInATrajectory`: no rollout of one run is run into an old trajectory. `NumbersHold`: an
evaluation that ends has the right result for every rollout that nothing else brought to an end. `EveryCallEnds`.

*Why these pipelines.* Between them they have every construct the walk tells apart: overlapping
arms with and without a handler and retries (`Fan`), two groups that share a node and a route
that raises (`Groups`), a resume that fails and one that is stopped by a budget (`Chain`), a
loop in a loop that stops inside its closing node (`Nested`), a loop over overlapping arms
whose join stands before them in the list (`LoopedFan`), an error edge into a repairing loop (`Repair`), a route that goes back
along several edges at once, of which `_reopen` leaves none (`SeveralBack`). Ceiling 2 against
groups of three gives queued units, so draining happens. Loop bounds 2 and 3 give a first, a
middle and a last round. No counter needs a bound of its own: visits and attempts are bounded by the loops and
by the retry policies, and there is no bound on the number of resumes.

*Why these bounds.* In `suspension`, three callers give one that drives, one that claims and one that is
refused; two stops give a state that is older than another. In `shelf`, two calls and two questions give
calls for the same and for different questions, each shelf of two, one or none; two looks give
the first, the second and the refusal. In `calls`, a run budget smaller than what the items want, a node total smaller still, and
a third item outside the node's account make each refusal happen while another call is in flight; one call inside a tool or a
delegation (`InnerMax`) and two attempts (`Attempts`) are enough for a nested call and for a throttle. In `fan_out`, three items at width two leave one that is
queued when the others stop; two calls each let an item stop on its second; two stops give a drain of an item that
already holds a call. In `replay`, the agent makes two identical overlapping calls and then asks, the function asks, and of two recorded
runs the second meets the first one's file, in each mode; one failure (`MaxFailures`) is gone on from, in a node that is new or one that was resumed, and `MaxAsked` leaves room
for the numbers a node that begins again takes; answers are symmetric. A function that makes a call before it asks is in `MCReplay_looks`,
with one recorded run (it passes with 373 959 states), and in `rerun` and `retried`. In `evaluation`, three attempts allow a resume of a resume, and `Failings` gives
a rollout that may fail in its run, one in either turn or in the reading of its answer, and one in the reading alone.

*Deadlock* is checked in `walk`, where a run that is over stutters in `Over`. In the other runs the system may really stop
(every process has been killed or has finished, a run is over and has been replayed, nobody answers), so it is not.

*Fairness.* `Walk`: weak fairness of `Drive`. Node code returns or raises in the end (a
node that hangs hangs its run, and only the model clients have timeouts), and the
operating system schedules threads. Nothing is assumed of `Resume`: a person may never answer.
`Suspension`: a worker that has claimed goes on to drive or refuse, and a write returns, since
both are straight-line code. Nothing says that a worker claims or that a drive ends. `Shelf`: a
call that was made runs on. `Calls`: weak fairness of the opening and closing of a node and of each item's
steps: threads are scheduled, a call comes back or raises (clients have timeouts) and `Close` is the end of a `with`. `BoundedSemaphore` is not
fair, and weak fairness is enough all the same, because every item ends. `Evaluation`: the pool's threads, the main thread's collecting and
the end of its `with` go on. Nothing makes a person answer or call the evaluation again. `FanOut` and `Replay` state no fairness and no liveness.

## The proofs

All for arbitrary constants, subject to the named assumptions of the modules (the ceiling is a
positive number, every declaration is `Accepted`, bounds are naturals, the calls of a turn are in the
order `ordered` gives them).

| Theorem | States |
|---|---|
| `WalkProofs!TypeCorrect` | `Spec => []TypeOK` |
| `WalkProofs!OverlapOnlyDeclared` | `Spec => []OverlapIsDeclared` |
| `WalkProofs!CompletedWorkRests` | `ClosersRunAlone /\ Spec => []FinishedNodesRest` |
| `WalkProofs!ArmsRunApart` | `LoopsEndTogether /\ Spec => []ArmsAreIndependent` |
| `WalkProofs!InputsAreThisRounds` | `LoopsEndTogether /\ BackEdgesCloseCycles /\ Spec => []InputsSettled` |
| `RoundProofs!RoundsAreCounted`, `LoopsAreBounded` | `CountsAreRounds` and `LoopBound`, with `NaturalLoops` besides |
| `RoundProofs!RunsReachTheirEnd` | `TerminalReached`, with `RoundsEnd`, `SuccessLeadsOn` and `StopsStandApart` besides the first two |
| `SuspensionProofs!TypeCorrect`, `NeverTwoDrivers`, `ResumesGoOn`, `RunsStayResumable` | the four invariants of `Suspension` |
| `SuspensionProofs!Implements` | `Spec => IsOneRun` |
| `ShelfProofs!TypeCorrect`, `OneHolder`, `AnsweredStaysOff` | the three invariants of `Shelf` |
| `CallsProofs!TypesHold`, `StepsBound`, `CeilingBound`, `NothingLeftBehind`, `AccountsHoldTheirCalls`, `TotalsBind` | all six invariants of `calls` |
| `FanOutProofs!TypesHold`, `OneReturn`, `NothingTwice`, `AnswersArrive`, `ToleranceBinds` | all five properties of `fan_out` |
| `EvaluationProofs!TypesHold`, `TrajectoriesAreSingle`, `ResumedNumbersHold` | the three invariants of `evaluation` |
| `ReplayProofs!PlacesGiveNumbers` | `Spec => []NumberedByPlace` |
| `ReplayProofs!TypesHold`, `AnswersStayOnFile`, `AgentsReplay` | `TypeOK`, `EveryAnswerIsOnFile`, `ReplayIsTheRun` of `replay` |
| `ReplayProofs!ReplaysLackNothing` | `AsksOnce /\ Spec => []ReplayIsServed`, of whole runs |

*Walk.* `TypeOK` of the edge state needs that what is fired are edges of the graph: lemma
`DeclaredEdges` derives it from the declaration, and `GraphOf` is used only through such
facts. `OverlapIsDeclared` is not inductive, because a resumed batch is whatever the saved frame had in
progress: the invariant says that a chosen batch, the units of a running one, the stopped
nodes of the frame and those of the saved frame are each pairwise declared. `FinishedNodesRest`
needs that finished nodes are among `done` in the frame and in the saved one, and that stopped
and chosen nodes are not finished. It rests on `ClosersRunAlone`: where a group lists a closing node with a
member of its cycle, the round it reopens can find that member still settling. TLC satisfies the hypothesis in
every checked pipeline; `Graph` does not refuse such a group.

*What a node waits for.* `ArmsAreIndependent` is about whole paths, and the edge state knows only the in-edges of a node. The
invariant that closes the gap is `FlowInv`: a node that is active (of the batch, or stopped) or done has had all its
forward in-edges resolved, and an edge is resolved by a node that is done with its run. So nothing forward of an active node is ready, by a path of any length. Going back to a head could break it from the side, by taking back edges
of a cycle while something beyond the cycle has begun; `LoopsEndTogether`, that every way out of a
cycle leads where the node that closes it leads, rules that out. `InputsSettled` adds `CarryInv`: an edge with a value into an active node comes from
a node that is finished in this round, and a reopened cycle takes back the edge with the node.

*Counts.* `visits` is counted when a node begins, `rounds` when it has run, and between the two a
node can be drained, stopped, saved and entered again. `CountInv` says how far they are apart for each closing node, wherever it stands; it
needs that a node the run stopped inside stays as it was stopped until it runs on (`StopInv`), and that
a cycle something of which has begun was entered at its head (`StartInv`), since the count starts again only when an edge enters from outside.
`NaturalLoops` says that loops are those of a program text: one head each, entered there, nested or
disjoint. Without it the two properties are false: `MCWalk_overlapping.cfg` shows two loops that overlap and never end.

*The end of a run.* `LiveInv`: as long as no unit raised what ends the run, a node that is done has resolved every edge out of it; if it finished
and is not the last, one of them carries a value; and if it did not finish it was skipped, and none leads to it. So when
nothing is ready, the last node has finished. `UnitInv` says what a batch may hold when it settles: a unit was drained only where another raised or stopped. The hypotheses say
what else is needed. `SuccessLeadsOn`: a node that returns has a successor, and not its handler alone; `MCWalk_deadend.cfg` shows the
run that otherwise ends with no path. `StopsStandApart`: what may overlap a node that stops is in no
loop and raises nothing that ends the run. Else a drained node stays done in a later round (`MCWalk_drained.cfg`), or a failure is
dropped in favour of a stop (`MCWalk_swallowed.cfg`), and what waits for them never runs. `RoundsEnd`, that no forward edges go round, holds of the back edges of every
depth-first walk; it is a hypothesis because that is an induction over the walk `DfsStep`, which the provers do not do.

Every hypothesis is a condition on the declared graphs alone. `OrdinaryLoops` in MCWalk assumes all of them of the
pipelines of `walk`, so that TLC evaluates them there: the theorems and the run are about the same graphs. `NaturalLoops` alone is left out for `SeveralBack`,
whose loop has two heads: there `CountsAreRounds` and `LoopBound` are checked and not proved. No pipeline of the run has loops that overlap without nesting.

*Suspension.* A strengthening says that at most one worker is past its claim, that a worker that
reads, holds or drives does so alone, and that whatever is on disk or in a worker's hands is of the last stop. The step
simulation to RunLife is one case per action.

*Shelf.* `HeldByOne` and `AnsweredIsOff` follow from `OnePlace`: until the asking run is
resumed, what is outstanding is on the shelf or with one call, never both. A claim file left
by a settling or a killed call stays on disk and may be renamed over by the next claim, or deleted under it; it does no
harm to these two properties, since taking the shelf is what makes a call the one holder. After
a resume neither is promised by the code, as the run writes the shelf whoever holds it: both properties say so (`Resumed`).

*Calls.* The counters of the code are sums over threads, and the invariant says of which: `inFlight` is the number of threads that
have taken a step (`BudgetInv`), a node's is the number of its items that have (`AccountInv`), and `free` and the holders of slots
make the ceiling (`SlotInv`). A step is charged before it is given back, so `spent` and the *unpaid* threads bound the run, not `spent`
and `inFlight`. At ceiling 1 there are no slots and `SlotInv` says instead that one thread runs.
`NothingIsForgotten` compares an account with the calls of all items of its node. These are counted as the size of a set of (item, call) pairs, so that
one more call of one item is one more element, and needs no induction over items. `FoldInv` carries what an item has made and
not yet folded in, a delegation's against what the run had spent when it opened. `TotalBindsEveryItem` follows for a node whose total is used up, since a step is then refused.

*FanOut.* A resume goes back to `saved`, so each invariant is stated of the state and of what was saved. `FailuresInv` places the counter between the failures an outcome holds and those an item of this drive raised: a resume
counts again from the outcomes, and a failure dropped with a stop is in neither count. `AnswersArrive` needs that
the item that was asked is the least of those left and begins first (`OrderInv`, which needs the least element of a set of numbers: `LeastItem`),
so that it is handed its answer before anything can stop the node again. `NothingTwice` needs
that the calls behind an item are before the one it is at, or holds (`BehindInv`).

*Evaluation.* A queued rollout of one turn has no trajectory on disk (`QueuedInv`), because `Found` either keeps or removes what a call finds there.
`NumbersHold` is not inductive, since it is about the report: `RightInv` says that what is on disk, in a job and in
the resumed results has the end its seed gives it, unless it was spoiled.

*Replay.* `NumberedByPlace` needs that an agent's calls are taken in their order and that its counters are what it took
(`NumbersInv`, lemma `TakenInOrder`); a reservation takes a whole group, which is an interval of the places. It is said of runs that are `whole`: a node that begins again takes later numbers.

*The cassette.* Numbers give keys: no two calls of a run share a key, and no call under way or waiting has one that is answered
in this run (`CountsAt`, `SoloAt`; lemma `KeysApart`). A file only grows behind the answer that came first (`Grows`), so in the run that began the file, and in those it served,
each answer is first under its key (`FirstAt`), also the one that is filed after a stop. A heard run keeps that (`HeardInv`), and `ReplayIsTheRun` follows. That every
key is one the file has room for is where the bounds enter: a strand makes each call once for each pass over its program, and passes by the stops and failures, which `MaxAsked` caps in the guard of `Count`.
`ReplayIsServed` needs the converse, that no number is skipped. For an agent the places are the numbers. A `Deterministic` function that runs again leaves numbers behind, all
of them filed, but for the call it had stopped at, whose number is filed when that call is answered. That is `ServedAt`, and it is where
`AsksOnce` is used: a function with two calls that may ask can stop at the second while the first still waits,
and the first number is never filed ([below](#where-the-code-departs-from-what-it-says)).

Every invariant the runs check, and the refinement, is a theorem. Only model-checked: all liveness (`EveryDriveEnds`,
`ClaimsAreResolved`, `CallsEnd`, `EveryItemEnds`, `EveryCallEnds`), since TLAPS has no fairness or ENABLED. That `LoopsEndTogether`,
`NaturalLoops` and the other hypotheses hold of a graph is evaluated by TLC for each of the checked pipelines, not derived from `Accepted`: `Graph` accepts graphs
of which they are false.

## Where the code departs from what it says

Five runs show it, one property each:

| Run | What happens | What is said |
|---|---|---|
| `held` | two arms stopped together; on resume one stops again before the other begins: the other's held state is in no file | `docs/pipeline.md:406`, `core.py:1704` |
| `shelf_twice` | a call claims the shelf that another wrote back and answers a question no longer on it | `docs/product.md:184` "cannot answer one question twice" |
| `retried` | a call that failed took a number and filed nothing; retried, diverted, tolerated or caught, the run completes, and its replay misses that number | `docs/run-envelope.md:429` "A cassette replays the run it recorded", `:492` "that run was invalid" |
| `rerun` | the calls a function makes again after a resume are filed under later numbers, and a replay serves the first | `context.py:1148` "keeps a suspended run replayable" |
| `turns` | `resume_from` finds none of the runs of a rollout with turns, and runs them into the trajectories that are there | `docs/evaluation.md:1729` "only the missing ones are run" |

These are stated as properties too, and their configurations are kept to run by hand:

| Configuration | What happens | What is said |
|---|---|---|
| `MCWalk_drained` | in a later round of a loop, an arm drained by the other's stop stays done and is never chosen again | `edges.py:254` "the walk chooses it again" |
| `MCWalk_swallowed` | one arm suspends, another raises: the error is dropped | `docs/pipeline.md:269` "A node that raises ends the run" |
| `MCWalk_overlapping` | loops that overlap without nesting reset each other's count and never end | `core.py:1956` "the bound holds even where a route would go round again" |
| `MCWalk_deadend` | a node with no successor but a handler is accepted; when it succeeds nothing is chosen, and the run ends with "No path through this pipeline reached" the last node | `docs/pipeline.md:82` "Give every branch a successor leading to a single final node", `core.py:1548` "Every route selects at least one successor" |
| `Suspension_interrupted` | Ctrl-C during `resume(wait=True)` leaves the run claimed for good | `core.py:714` "leaves the suspension where it found it" |
| `Shelf_resumed` | a resumed run overwrites the shelf of its first drive | `core.py:1289` "outlives the run that asked it" |
| `MCCalls_overcharged` | a delegation that overlaps other items charges its node with what they spent meanwhile | `docs/pipeline.md:1028` |
| `MCCalls_early` | a call is charged before its step is given back, and another one is refused with a step left | `context.py:610`, `docs/pipeline.md:1247` "ten items sharing `max_steps=30` make thirty calls" |
| `FanOut_unanswered` | an item that holds a call is run again with the answer `None`, though another item was asked | `docs/pipeline.md:408` |
| `MCEvaluation_numbers` | a rollout that was interrupted or is waiting for a person is scored as failed by `resume_from` | `docs/evaluation.md:1730` |
| `MCEvaluation_lost` | a rollout that raised is met only after those before it: by then any number of later ones have finished, and their results are lost | `runner.py:660` "at most `concurrency` are lost" |
| `MCEvaluation_unread` | a rollout whose answer cannot be read is a failed one where it ran, and on `resume_from` the reading raises out of the call | `docs/evaluation.md:1729` "scored from their trajectories" |
| `MCReplay_hole` | a function that asks twice overwrites its waiting call: a number is never filed, and a replay lacks it | `context.py:1148` "keeps a suspended run replayable" |

`shelf_twice`, `retried`, `rerun`, `turns`, `MCWalk_deadend`, `Suspension_interrupted`, `Shelf_resumed`, `MCEvaluation_numbers` and `MCEvaluation_unread` were also seen by running the program.
`NoQuestionIsLost` (`Shelf_resumed`) fails in a second way, without any resume: a call that claims between the write and the unlink of `settle_shelf`
has its claim file deleted.

Met while modelling, with no property of its own:

- A `Deterministic` function that asks two questions is asked its first one again after the second stop: it is a call made before the one that stopped, and such calls
  are made a second time, as `docs/pipeline.md:408-410` says.
- An answer that is on file behind another one is not counted as diverged when it comes again (`cassette.py`, `store`).
- After a resume, `already` of a fan-out counts items that ended on their node's budget, which a drive does not count.
- A failure of an item is dropped where an item before it stops the node.
- An evaluation killed before any rollout ended leaves a directory that `resume_from` refuses as used (`docs/evaluation.md:1741`).
- Retrieval calls are charged to the run and never to a node, and what a tool spent before it raised reaches no node.

## Not modelled

- *Graph and walk.* Slices of a pipeline (cut edges, `LeftTheSlice`), the schema agreement of `shapes.py`, a pipeline used as a node, whose frames nest (`frame.below`),
  and what edges carry: `Join`, the `NodeFailure`, `ValueCodec`. An error
  edge that goes back (`graph.py:543`): no instance has one.
- *Suspension.* A write-back that itself fails (`core.py:808`) and an interrupt between a drive's own
  `write_state` and its `raise`. *Shelf.* A torn or failing write; the asking run being killed, which
  then writes no shelf; `answer_shelved` for a subject that two questions share (refused at once); what `pipeline=` does with an answer, which is a run of its own.
- *Calls.* Tokens, cost and time, which are measured after a call and are documented to overshoot; streams; pacing of a published allowance.
- *FanOut.* The frames inside a delegate or a nested pipeline; an overlapped tool that raises beside one that stops (`agent.py:879`).
- *Replay.* In a replay nothing fails but the look-up: a tool is not called, and what a node's own code raises there is left out, as is a function that
  swallows a `CassetteMiss`. A retry of a fan-out begins all its items again, and the model one strand at a time. How an answer is encoded, embeddings, inspection, merged files, and model calls, whose key is the messages.
- *Evaluation.* Judging, figures and statistics (pure functions over finished records), stores of a rollout, limits on spending, and the simulated user,
  whose history is read before the model answers and only changes wording.
- *Stores of memory, conversations and the URL cache.* Each is one file for a key, staged under a name of its writer and renamed: a reader sees the old or the new one, the last writer
  wins, and there is no protocol beyond that.
- *Trajectory and manifest.* Sequence numbers are given under the lock that writes the line; Evaluation.tla keeps only how many runs a file holds and how its manifest ends.
- *MCP.* The session is a thread around a library that is not in this repository.
- View, conformance, command line, adapters, schemas, prompts, tools: no state whose order matters, or I/O.

## The plan

1. *(done)* Graph, EdgeState, Walk, then Suspension with RunLife, then Shelf: the pipeline
   subsystem, which everything else runs under.
2. *(done)* **Calls**: budgets, scopes, slots. **Replay**: occurrence numbers and the cassette.
3. *(done)* **FanOut**: items that stop together, and calls that are handed answers.
4. *(done)* **Evaluation**: rollouts, and `resume_from` after a crash.
5. *(left)* FanOut composed with the stopped nodes of Walk, so that the state of an item is lost where the frame loses it (`held`); a delegate's own frame.
6. *(done)* The conditions on a graph under which `ArmsAreIndependent`, `InputsSettled`, `CountsAreRounds`, `LoopBound` and
   `TerminalReached` hold, and their theorems; `NothingIsForgotten` and `TotalBindsEveryItem`.
7. *(left)* The axes of tokens and cost in Calls, with the overshoot the docs allow as the property.
