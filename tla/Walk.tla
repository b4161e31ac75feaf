-------------------------------- MODULE Walk --------------------------------
(***************************************************************************)
(* One run of a pipeline: the walk over its graph (pipeline/core.py,       *)
(* Pipeline._walk and what it calls), the batches it hands to the run's    *)
(* pool (concurrency.py, WorkPool.map), and the suspended state a later    *)
(* `resume` continues from.                                                *)
(*                                                                         *)
(* Besides what Graph reads, a declaration says what the nodes' own code   *)
(* may do, which the walk does not decide:                                 *)
(*   d.raises          nodes that may raise                                *)
(*   d.fatal           nodes that may raise CassetteMiss or BudgetExceeded *)
(*   d.suspends        nodes that may suspend, holding state to go on from *)
(*   d.attempts        the RetryPolicy of the nodes that declare one       *)
(*   d.suspend_before  nodes the run stops before                          *)
(*   d.route_raises    nodes whose route may raise or select nothing       *)
(*   d.stop_when       whether the caller's stop_when may return true      *)
(*   d.budget          whether the run's budget may be spent               *)
(***************************************************************************)
EXTENDS EdgeState

CONSTANTS Pipelines,  \* the declarations a run may be of, by name
          Ceiling,    \* Pipeline.run(concurrency=...)
          NoState     \* no suspension is on disk

ASSUME CeilingAssumption == Ceiling \in Nat \ {0}

ASSUME PipelinesAssumption == \A p \in DOMAIN Pipelines : Accepted(Pipelines[p])

VARIABLES
  pipeline,     \* which declaration this run is of
  phase,        \* where the walk is
  edges,        \* the frame's _EdgeState
  produced,     \* the nodes whose output the frame holds
  in_progress,  \* the stopped nodes, which a resumed walk runs first
  node_state,   \* those of them that left held state in the frame
  held,         \* the held state the walk took off a restored frame
  batch,        \* the nodes chosen to run, then those left to settle
  resumed,      \* whether the batch is what a restored frame had in progress
  unit,         \* what became of each node of the batch
  attempt,      \* which attempt each running node is on
  saved,        \* suspension.json, or NoState
  rounds,       \* history: runs of a closing node since its cycle was entered
  finished,     \* history: nodes that completed since their cycle reopened
  interrupted   \* history: nodes stopped part-way and not continued since

frame == <<edges, produced, in_progress, node_state>>
units == <<batch, resumed, unit, attempt>>
history == <<rounds, finished, interrupted>>
vars == <<pipeline, phase, frame, held, units, saved, history>>

Graphs == [p \in DOMAIN Pipelines |-> GraphOf(Pipelines[p])]

decl == Pipelines[pipeline]
graph == Graphs[pipeline]

Ended == {"completed", "no_path", "failed", "suspended"}

Is(status) == {n \in graph.nodes : unit[n] \in status}

Before(m, n) == graph.order[m] < graph.order[n]

\* n comes first of the nodes in S, in the order of the list.
IsFirst(n, S) == n \in S /\ \A m \in S \ {n} : Before(n, m)

Idle == /\ batch' = {}
        /\ resumed' = FALSE
        /\ unit' = [n \in graph.nodes |-> "idle"]
        /\ attempt' = [n \in graph.nodes |-> 0]

Init ==
  /\ pipeline \in DOMAIN Pipelines
  /\ phase = "walking"
  /\ edges = NewEdges(graph)
  /\ produced = {} /\ in_progress = {} /\ node_state = {} /\ held = {}
  /\ batch = {} /\ resumed = FALSE
  /\ unit = [n \in graph.nodes |-> "idle"]
  /\ attempt = [n \in graph.nodes |-> 0]
  /\ saved = NoState
  /\ rounds = [c \in DOMAIN graph.cycles |-> 0]
  /\ finished = {} /\ interrupted = {}

-----------------------------------------------------------------------------
(* Choosing what runs next *)

ReadyNodes == {n \in graph.nodes : n \notin edges.done /\ Ready(graph, edges, n)}

\* Mutant of IsBatch: a node joins where one of those chosen may overlap it.
IsBatchOfAny(S) ==
  \A n \in ReadyNodes :
    n \in S <=> \/ \A m \in ReadyNodes : ~Before(m, n)
                \/ \E m \in S : Before(m, n) /\ MayOverlap(graph, m, n)

\* The first ready node, and every later one that may overlap all chosen.
IsBatch(S) ==
  \A n \in ReadyNodes :
    n \in S <=> \A m \in S : Before(m, n) => MayOverlap(graph, m, n)

\* Nothing is ready: the run has produced what it returns, or there is no path.
EndWalk ==
  /\ phase = "walking" /\ in_progress = {} /\ ReadyNodes = {}
  /\ IF graph.terminal \in produced
     THEN phase' = "completed" /\ saved' = NoState
     ELSE phase' = "no_path" /\ UNCHANGED saved
  /\ UNCHANGED <<pipeline, frame, held, units, history>>

\* Mutant of Skip: a skipped node can be chosen again.
SkipEdges(nodes) == ResolveAllAbsent(graph, edges, nodes)

\* A node nothing reached is done, and leaves nothing on its own edges.
Skip(nodes) ==
  [ResolveAllAbsent(graph, edges, nodes) EXCEPT !.done = @ \union nodes]

\* The batch is chosen, and the nodes nothing reached are settled out of it.
ChooseBatch ==
  /\ phase = "walking" /\ in_progress = {} /\ ReadyNodes # {}
  /\ \E S \in SUBSET ReadyNodes :
       LET skipped == {n \in S : AllAbsent(graph, edges, n)}
       IN  /\ IsBatch(S)
           /\ edges' = Skip(skipped)
           /\ batch' = S \ skipped
           /\ phase' = IF S = skipped THEN "walking" ELSE "chosen"
  /\ UNCHANGED <<pipeline, produced, in_progress, node_state, held, resumed,
                 unit, attempt, saved, history>>

BudgetSpent ==
  /\ phase = "chosen" /\ decl.budget
  /\ phase' = "failed"
  /\ Idle
  /\ UNCHANGED <<pipeline, frame, held, saved, history>>

Frame == [edges |-> edges, produced |-> produced, in_progress |-> in_progress,
          node_state |-> node_state, rounds |-> rounds, finished |-> finished,
          interrupted |-> interrupted]

\* The first node of the batch declares suspend_before, or stop_when is true.
StopBefore ==
  /\ phase = "chosen"
  /\ \E n \in batch :
       /\ IsFirst(n, batch)
       /\ n \in decl.suspend_before \/ decl.stop_when
       /\ in_progress' = {n}
  /\ phase' = "suspended"
  /\ saved' = [Frame EXCEPT !.in_progress = in_progress']
  /\ Idle
  /\ UNCHANGED <<pipeline, edges, produced, node_state, held, history>>

\* The nodes are queued on the pool, and entered unless the run stopped
\* inside them.
QueueUnits(nodes, stopped) ==
  /\ phase' = "running"
  /\ batch' = nodes
  /\ resumed' = stopped
  /\ edges' = Enter(edges, IF stopped THEN nodes \ edges.done ELSE nodes)
  /\ unit' = [n \in graph.nodes |-> IF n \in nodes THEN "queued" ELSE "idle"]
  /\ attempt' = [n \in graph.nodes |-> IF n \in nodes THEN 1 ELSE 0]

\* The batch runs up to the next node the run is to stop before.
StartBatch ==
  /\ phase = "chosen"
  /\ \E nodes \in (SUBSET batch) \ {{}} :
       /\ nodes \intersect decl.suspend_before = {}
       /\ \A n \in nodes, m \in batch \ nodes : Before(n, m)
       /\ \A n \in batch \ nodes :
            IsFirst(n, batch \ nodes) => n \in decl.suspend_before \/ decl.stop_when
       /\ QueueUnits(nodes, FALSE)
  /\ UNCHANGED <<pipeline, produced, in_progress, node_state, held, saved, history>>

\* The nodes a restored frame had in progress run before anything is chosen.
StartStopped ==
  /\ phase = "walking" /\ in_progress # {}
  /\ QueueUnits(in_progress, TRUE)
  /\ in_progress' = {}
  /\ UNCHANGED <<pipeline, produced, node_state, held, saved, history>>

-----------------------------------------------------------------------------
(* The units of a batch on the pool *)

\* Units start in the order they were submitted, as many at once as fit.
\* A run stopped inside a node and continued is one run of it.
UnitStarts(n) ==
  /\ phase = "running" /\ unit[n] = "queued"
  /\ IsFirst(n, Is({"queued"}))
  /\ Cardinality(Is({"running"})) < Ceiling
  /\ unit' = [unit EXCEPT ![n] = "running"]
  /\ rounds' = [c \in DOMAIN rounds |->
                  rounds[c] + (IF c = n /\ n \notin interrupted THEN 1 ELSE 0)]
  /\ interrupted' = interrupted \ {n}
  /\ UNCHANGED <<pipeline, phase, frame, held, batch, resumed, attempt, saved, finished>>

LastAttempt(n) ==
  attempt[n] = (IF n \in DOMAIN decl.attempts THEN decl.attempts[n] ELSE 1)

UnitReturns(n) ==
  /\ phase = "running" /\ unit[n] = "running"
  /\ unit' = [unit EXCEPT ![n] = "returned"]
  /\ UNCHANGED <<pipeline, phase, frame, held, batch, resumed, attempt, saved, history>>

\* An attempt raised and the node declares another.
UnitRetries(n) ==
  /\ phase = "running" /\ unit[n] = "running"
  /\ n \in decl.raises /\ ~LastAttempt(n)
  /\ attempt' = [attempt EXCEPT ![n] = @ + 1]
  /\ UNCHANGED <<pipeline, phase, frame, held, batch, resumed, unit, saved, history>>

\* The last attempt raised and the node declares where the failure goes.
UnitDiverts(n) ==
  /\ phase = "running" /\ unit[n] = "running"
  /\ n \in decl.raises /\ LastAttempt(n) /\ n \in DOMAIN graph.on_error
  /\ unit' = [unit EXCEPT ![n] = "failure"]
  /\ UNCHANGED <<pipeline, phase, frame, held, batch, resumed, attempt, saved, history>>

\* What a raising unit leaves behind: the units not begun do not begin.
Stops(n, status) ==
  unit' = [m \in graph.nodes |-> IF m = n THEN status
                                 ELSE IF unit[m] = "queued" THEN "drained" ELSE unit[m]]

\* A fatal exception is neither retried nor diverted.
UnitRaises(n) ==
  /\ phase = "running" /\ unit[n] = "running"
  /\ \/ n \in decl.raises /\ LastAttempt(n) /\ n \notin DOMAIN graph.on_error
     \/ n \in decl.fatal
  /\ Stops(n, "raised")
  /\ UNCHANGED <<pipeline, phase, frame, held, batch, resumed, attempt, saved, history>>

UnitSuspends(n) ==
  /\ phase = "running" /\ unit[n] = "running" /\ n \in decl.suspends
  /\ Stops(n, "suspended")
  /\ interrupted' = interrupted \union {n}
  /\ UNCHANGED <<pipeline, phase, frame, held, batch, resumed, attempt, saved,
                 rounds, finished>>

-----------------------------------------------------------------------------
(* Settling a batch, in the order it was taken *)

MapReturned == phase = "running" /\ Is({"queued", "running"}) = {}

Settling(n, status) ==
  /\ MapReturned /\ IsFirst(n, batch) /\ unit[n] = status
  /\ batch' = batch \ {n}

\* Mutant of Exhausted: one more round than declared.
ExhaustedLate(n) ==
  n \in DOMAIN graph.cycles /\ edges.visits[n] > graph.cycles[n].max_iterations

\* A closing node whose cycle has reached its count takes `then` whatever its
\* route would have said.
Exhausted(n) ==
  n \in DOMAIN graph.cycles /\ edges.visits[n] >= graph.cycles[n].max_iterations

Selections(n) ==
  IF Exhausted(n) THEN {{graph.cycles[n].then}}
  ELSE IF n \notin graph.routed THEN {ToSet(graph.successors[n])}
  ELSE (SUBSET ToSet(graph.successors[n])) \ {{}}

\* History: what the edges taken out of n enter from outside, and reopen.
Follow(n, targets) ==
  /\ rounds' = [c \in DOMAIN rounds |->
       LET body == graph.cycles[c].body
       IN  IF n \notin body /\ targets \intersect body # {} THEN 0 ELSE rounds[c]]
  /\ finished' = (finished \union {n}) \
       (IF n \in DOMAIN graph.cycles /\ targets \intersect graph.cycles[n].back # {}
        THEN graph.cycles[n].body ELSE {})
  /\ UNCHANGED interrupted

SettleReturned(n) ==
  /\ Settling(n, "returned")
  /\ \E chosen \in Selections(n) :
       /\ edges' = Advance(graph, edges, n, chosen)
       /\ Follow(n, chosen)
  /\ produced' = produced \union {n}
  /\ UNCHANGED <<pipeline, phase, in_progress, node_state, held, resumed, unit,
                 attempt, saved>>

SettleFailure(n) ==
  /\ Settling(n, "failure")
  /\ edges' = Divert(graph, edges, n)
  /\ Follow(n, {graph.on_error[n]})
  /\ UNCHANGED <<pipeline, phase, produced, in_progress, node_state, held, resumed,
                 unit, attempt, saved>>

SettleDrained(n) ==
  /\ Settling(n, "drained")
  /\ edges' = Unenter(edges, n)
  /\ UNCHANGED <<pipeline, phase, produced, in_progress, node_state, held, resumed,
                 unit, attempt, saved, history>>

SettleSuspended(n) ==
  /\ Settling(n, "suspended")
  /\ in_progress' = in_progress \union {n}
  /\ node_state' = node_state \union {n}
  /\ UNCHANGED <<pipeline, phase, edges, produced, held, resumed, unit, attempt,
                 saved, history>>

SettleRaised(n) ==
  /\ Settling(n, "raised")
  /\ UNCHANGED <<pipeline, phase, frame, held, resumed, unit, attempt, saved, history>>

\* The route runs as the node is settled. What it raises ends the run there.
RouteRaises(n) ==
  /\ Settling(n, "returned") /\ n \in decl.route_raises /\ ~Exhausted(n)
  /\ phase' = "failed"
  /\ UNCHANGED <<pipeline, frame, held, resumed, unit, attempt, saved, history>>

\* A suspension is raised before an error of the same batch is.
BatchSettled ==
  /\ MapReturned /\ batch = {}
  /\ IF Is({"suspended"}) # {}
     THEN phase' = "suspended" /\ saved' = Frame /\ UNCHANGED <<resumed, unit, attempt, batch>>
     ELSE IF Is({"raised"}) # {}
     THEN phase' = "failed" /\ UNCHANGED <<saved, resumed, unit, attempt, batch>>
     ELSE phase' = "walking" /\ Idle /\ UNCHANGED saved
  /\ UNCHANGED <<pipeline, frame, held, history>>

-----------------------------------------------------------------------------
(* Continuing a run that stopped. A resumed drive that fails writes the    *)
(* state it started from back, so it can be resumed again.                 *)

Resume ==
  /\ phase \in Ended /\ saved # NoState
  /\ phase' = "walking"
  /\ edges' = saved.edges /\ produced' = saved.produced
  /\ in_progress' = saved.in_progress
  /\ held' = saved.node_state /\ node_state' = {}
  /\ rounds' = saved.rounds /\ finished' = saved.finished
  /\ interrupted' = saved.interrupted
  /\ Idle
  /\ UNCHANGED <<pipeline, saved>>

\* The run is over.
Over == phase \in Ended /\ saved = NoState /\ UNCHANGED vars

UnitStep(n) ==
  \/ UnitStarts(n) \/ UnitReturns(n) \/ UnitRetries(n)
  \/ UnitDiverts(n) \/ UnitRaises(n) \/ UnitSuspends(n)

SettleStep(n) ==
  \/ SettleReturned(n) \/ SettleFailure(n) \/ SettleDrained(n)
  \/ SettleSuspended(n) \/ SettleRaised(n) \/ RouteRaises(n)

Drive ==
  \/ EndWalk \/ ChooseBatch \/ BudgetSpent \/ StopBefore
  \/ StartBatch \/ StartStopped \/ BatchSettled
  \/ \E n \in graph.nodes : UnitStep(n) \/ SettleStep(n)

Next == Drive \/ Resume \/ Over

Spec == Init /\ [][Next]_vars

\* A node's code returns or raises in the end, and the threads of a drive are
\* scheduled. Nothing says that anybody resumes a suspended run.
FairSpec == Spec /\ WF_vars(Drive)

-----------------------------------------------------------------------------
(* What the walk promises *)

Statuses == {"idle", "queued", "running", "returned", "failure", "raised",
             "suspended", "drained"}

\* The variables have their types, and no edge has both fired and not.
TypeOK ==
  /\ pipeline \in DOMAIN Pipelines
  /\ phase \in Ended \union {"walking", "chosen", "running"}
  /\ IsEdgeState(graph, edges)
  /\ produced \subseteq graph.nodes /\ node_state \subseteq graph.nodes
  /\ held \subseteq graph.nodes
  /\ in_progress \subseteq graph.nodes /\ batch \subseteq graph.nodes
  /\ resumed \in BOOLEAN
  /\ unit \in [graph.nodes -> Statuses] /\ attempt \in [graph.nodes -> Nat]
  /\ rounds \in [DOMAIN graph.cycles -> Nat]
  /\ finished \subseteq graph.nodes /\ interrupted \subseteq graph.nodes
  /\ saved # NoState =>
       /\ IsEdgeState(graph, saved.edges)
       /\ saved.in_progress \subseteq graph.nodes
       /\ saved.produced \subseteq graph.nodes
       /\ saved.node_state \subseteq graph.nodes
       /\ saved.rounds \in [DOMAIN graph.cycles -> Nat]
       /\ saved.finished \subseteq graph.nodes
       /\ saved.interrupted \subseteq graph.nodes

\* Nodes run at the same time only where one concurrent_nodes group lists
\* them, in a resumed batch as in any other (Graph.may_overlap,
\* Pipeline._batch: "a group is entered only when the pipeline said each pair
\* in it may run at the same time").
OverlapIsDeclared ==
  \A m, n \in Is({"running"}) : m # n => MayOverlap(graph, m, n)

Downstream ==
  [p \in DOMAIN Pipelines |->
     [n \in Graphs[p].nodes |-> Reachable(Graphs[p].pairs \ Graphs[p].back, n)]]

\* A node never runs at the same time as one whose output it is still to
\* receive, whatever the groups list (_EdgeState.ready).
ArmsAreIndependent ==
  \A m, n \in Is({"running"}) : n \notin Downstream[pipeline][m]

\* A node that completed is not run again until a cycle around it is taken
\* back to its head, whatever stopped and was resumed in between
\* (Pipeline._walk: "a node the run stopped inside is not charged or counted
\* a second time").
FinishedNodesRest == Is({"running"}) \intersect finished = {}

\* No group lists the node that closes a cycle with another node of the cycle.
ClosersRunAlone ==
  \A p \in DOMAIN Pipelines :
    LET g == Graphs[p]
    IN  \A c \in DOMAIN g.cycles, m \in g.nodes :
          m \in g.cycles[c].body => ~MayOverlap(g, c, m)

\* What a round of a loop follows: the edges that close no cycle.
Forward(g) == g.pairs \ g.back

\* Every way out of a cycle leads where the node that closes it leads.
LoopsEndTogether ==
  \A p \in DOMAIN Pipelines :
    LET g == Graphs[p]
    IN  \A c \in DOMAIN g.cycles, e \in Forward(g) :
          e[1] \in g.cycles[c].body /\ e[2] \notin g.cycles[c].body
            => e[2] \in Reachable(Forward(g), c)

\* Every back edge closes a cycle: its target leads forward to its source. And
\* no failure is sent along one.
BackEdgesCloseCycles ==
  \A p \in DOMAIN Pipelines :
    LET g == Graphs[p]
    IN  /\ g.back \subseteq g.pairs
        /\ \A e \in g.back : e[1] # e[2] => e[1] \in Reachable(Forward(g), e[2])
        /\ \A n \in DOMAIN g.on_error : <<n, g.on_error[n]>> \notin g.back

\* The node that c goes back to.
HeadOf(g, c) == CHOOSE h \in g.cycles[c].back : TRUE

\* A round ends: no node leads back to itself by edges that close no cycle. (It
\* holds whatever the graph, the back edges being those of a depth-first walk.)
RoundsEnd ==
  \A p \in DOMAIN Pipelines : \A n \in Graphs[p].nodes :
    n \notin Reachable(Forward(Graphs[p]), n)

\* A node that returned, and is not the one the run ends at, has somewhere to go:
\* its successors, and not its handler alone (Pipeline._walk: "Every route
\* selects at least one successor").
SuccessLeadsOn ==
  \A p \in DOMAIN Pipelines : \A n \in Graphs[p].nodes \ {Graphs[p].terminal} :
    Graphs[p].successors[n] # <<>>

\* What may overlap a node that stops is in no cycle, and raises nothing that
\* ends the run.
StopsStandApart ==
  \A p \in DOMAIN Pipelines :
    LET g == Graphs[p]
    IN  \A m \in Pipelines[p].suspends, n \in g.nodes :
          MayOverlap(g, m, n) =>
            /\ \A c \in DOMAIN g.cycles : n \notin g.cycles[c].body
            /\ n \notin Pipelines[p].fatal
            /\ n \in Pipelines[p].raises => n \in DOMAIN g.on_error

\* Loops are the loops of a program text: a round ends and leads forward to the
\* entry by no edge; a cycle has one head, is the innermost around it and is
\* entered there, by no failure; and of two cycles that share a node one holds
\* the other. (The first two hold of the back edges of any depth-first walk.)
LoopsAreNatural(g) ==
  LET body(c) == g.cycles[c].body
  IN  /\ \A e \in Forward(g) : e[2] # g.entry
      /\ \A c \in DOMAIN g.cycles :
           /\ g.cycles[c].back = {HeadOf(g, c)}
           /\ g.around[HeadOf(g, c)] = c
           /\ \A e \in g.pairs : e[1] \notin body(c) /\ e[2] \in body(c) => e[2] = HeadOf(g, c)
           /\ \A n \in DOMAIN g.on_error : g.on_error[n] \in body(c) => n \in body(c)
      /\ \A c, o \in DOMAIN g.cycles :
           \/ body(c) \intersect body(o) = {}
           \/ body(c) \subseteq body(o)
           \/ body(o) \subseteq body(c)
NaturalLoops == RoundsEnd /\ \A p \in DOMAIN Pipelines : LoopsAreNatural(Graphs[p])

\* A node runs once every in-edge that does not close a cycle has resolved,
\* one of its in-edges carries a value, and what they carry was put there since
\* the cycles around were reopened: by a node that is finished, not by a run of
\* it in an earlier round (_EdgeState.ready, all_absent and _reopen).
InputsSettled ==
  \A n \in Is({"running"}) :
    /\ Ready(graph, edges, n) /\ ~AllAbsent(graph, edges, n)
    /\ \A s \in graph.in_edges[n] : <<s, n>> \in edges.fired \ graph.back => s \in finished

\* The count a closing node is bounded by is the number of times it has run
\* since its cycle was entered from outside (Graph, Loop.max_iterations,
\* _EdgeState._note_entries: "the cycle was entered from outside it, so its
\* count starts again").
CountsAreRounds ==
  \A c \in Is({"running"}) \intersect DOMAIN rounds : edges.visits[c] = rounds[c]

\* A bounded cycle goes round no more often than its Loop says, whatever its
\* route returns (Pipeline._chosen: "the bound holds even where a route would
\* go round again").
LoopBound == \A c \in DOMAIN rounds : rounds[c] <= graph.cycles[c].max_iterations

\* A run whose nodes all answered, failed where a handler is declared, or
\* stopped and were resumed, produces what it returns: the walk never comes to
\* an end with no path to its final node (Pipeline._walk).
TerminalReached == phase # "no_path"

\* A drive ends: the run completes, fails or stops to be resumed.
EveryDriveEnds == (phase \notin Ended) ~> (phase \in Ended)

\* A node drained before it began can be chosen when the stopped run goes on
\* (_EdgeState.unenter: "the walk chooses it again").
DrainedRunsAgain ==
  phase = "suspended" => Is({"drained"}) \intersect saved.edges.done = {}

\* A node that raises and declares no handler ends the run
\* (docs/pipeline.md, 1.5): a run is not reported as stopped over it.
NoFailureIsLost == phase = "suspended" => Is({"raised"}) = {}

\* What a node held when it stopped is on disk until the node goes on with it
\* (docs/pipeline.md: a resumed node makes only the calls it had not made).
StoppedWorkIsSaved ==
  phase = "suspended" =>
    interrupted \subseteq saved.in_progress \intersect saved.node_state
=============================================================================
