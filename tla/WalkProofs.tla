----------------------------- MODULE WalkProofs -----------------------------
(***************************************************************************)
(* What holds of the walk for every accepted pipeline and every ceiling:   *)
(* the types, that nodes overlap only where a group lists them, and that a *)
(* node which completed is not run again before its cycle is taken back.   *)
(* Where loops are closed as they say, a node also runs beside none it is  *)
(* to receive from, and what it receives was put there in this round.      *)
(***************************************************************************)
EXTENDS Walk, TLAPS

(* The graph *)

\* What a node declares to follow it, and its handler, are edges of the graph.
LEMMA DeclaredEdges ==
  ASSUME NEW d, Accepted(d), NEW n \in Nodes(d)
  PROVE  /\ \A t \in ToSet(Successors(d)[n]) : <<n, t>> \in Pairs(Edges(d))
         /\ n \in DOMAIN d.on_error => <<n, d.on_error[n]>> \in Pairs(Edges(d))
<1> DEFINE to == Successors(d)[n]
<1>1. to \in Seq(ToSet(to))
  <2>1. CASE n \in DOMAIN d.successors
    BY <2>1 DEF Accepted, IsDeclaration, Successors
  <2>2. CASE n \notin DOMAIN d.successors
    <3>1. PICK x : to = <<>> \/ to = <<x>>
      BY <2>2 DEF Successors
    <3>2. CASE to = <<>>
      BY <3>2
    <3>3. CASE to = <<x>>
      <4>1. x \in ToSet(to)
        BY <3>3 DEF ToSet
      <4> HIDE DEF to
      <4>2. <<x>> \in Seq(ToSet(to))
        BY <4>1
      <4> QED BY <4>2, <3>3
    <3> QED BY <3>1, <3>2, <3>3
  <2> QED BY <2>1, <2>2
<1>2. DOMAIN Edges(d) = Nodes(d)
  BY DEF Edges
<1>3. \A t \in ToSet(Edges(d)[n]) : <<n, t>> \in Pairs(Edges(d))
  BY <1>2 DEF Pairs
<1>4. ToSet(to) \subseteq ToSet(Edges(d)[n])
  <2>1. CASE n \in DOMAIN d.on_error /\ d.on_error[n] \notin ToSet(to)
    <3>1. Edges(d)[n] = Append(to, d.on_error[n])
      BY <2>1 DEF Edges
    <3>2. \A i \in DOMAIN to : i \in DOMAIN Append(to, d.on_error[n])
                               /\ Append(to, d.on_error[n])[i] = to[i]
      BY <1>1
    <3> QED BY <3>1, <3>2 DEF ToSet
  <2>2. CASE ~(n \in DOMAIN d.on_error /\ d.on_error[n] \notin ToSet(to))
    BY <2>2 DEF Edges
  <2> QED BY <2>1, <2>2
<1>5. n \in DOMAIN d.on_error => d.on_error[n] \in ToSet(Edges(d)[n])
  <2>1. CASE n \in DOMAIN d.on_error /\ d.on_error[n] \notin ToSet(to)
    <3>1. Edges(d)[n] = Append(to, d.on_error[n])
      BY <2>1 DEF Edges
    <3>2. /\ Len(to) + 1 \in DOMAIN Append(to, d.on_error[n])
          /\ Append(to, d.on_error[n])[Len(to) + 1] = d.on_error[n]
      BY <1>1
    <3> QED BY <3>1, <3>2 DEF ToSet
  <2>2. CASE ~(n \in DOMAIN d.on_error /\ d.on_error[n] \notin ToSet(to))
    BY <2>2, <1>4
  <2> QED BY <2>1, <2>2
<1> QED BY <1>3, <1>4, <1>5

\* What the proofs use of a graph.
IsGraph(g) ==
  /\ \A n \in g.nodes : \A t \in ToSet(g.successors[n]) : <<n, t>> \in g.pairs
  /\ \A n \in g.nodes : n \in DOMAIN g.on_error => <<n, g.on_error[n]>> \in g.pairs
  /\ \A c \in DOMAIN g.cycles : g.cycles[c].then \in ToSet(g.successors[c])
  /\ \A m, n : MayOverlap(g, m, n) <=> MayOverlap(g, n, m)
  /\ \A m, n \in g.nodes : m # n => g.order[m] < g.order[n] \/ g.order[n] < g.order[m]

\* The graph of every accepted pipeline is one.
LEMMA AcceptedIsGraph ==
  ASSUME NEW p \in DOMAIN Pipelines
  PROVE  IsGraph(Graphs[p])
<1> DEFINE d == Pipelines[p]
           g == Graphs[p]
<1>1. Accepted(d)
  BY PipelinesAssumption
<1>2. /\ g.nodes = Nodes(d) /\ g.successors = Successors(d)
      /\ g.on_error = d.on_error /\ g.pairs = Pairs(Edges(d))
      /\ g.cycles = Cycles(d)
  BY DEF Graphs, GraphOf, GraphWith
<1>3. \A c \in DOMAIN Cycles(d) : Cycles(d)[c].then \in ToSet(Successors(d)[c])
  <2>1. \A c \in DOMAIN Cycles(d) : Cycles(d)[c].then = d.loop[c].then
    BY DEF Cycles, CyclesClosed
  <2>2. ThenLeavesTheCycle(d)
    BY <1>1 DEF Accepted
  <2> QED BY <2>1, <2>2 DEF ThenLeavesTheCycle
<1>4. \A m, n : {m, n} = {n, m}
  OBVIOUS
<1>5. \A m, n : MayOverlap(g, m, n) <=> MayOverlap(g, n, m)
  BY <1>4 DEF MayOverlap
<1>6. \A n \in Nodes(d) :
        /\ \A t \in ToSet(Successors(d)[n]) : <<n, t>> \in Pairs(Edges(d))
        /\ n \in DOMAIN d.on_error => <<n, d.on_error[n]>> \in Pairs(Edges(d))
  BY <1>1, DeclaredEdges
<1>7. \A n \in g.nodes : \A t \in ToSet(g.successors[n]) : <<n, t>> \in g.pairs
  BY <1>2, <1>6
<1>8. \A n \in g.nodes : n \in DOMAIN g.on_error => <<n, g.on_error[n]>> \in g.pairs
  BY <1>2, <1>6
<1>9. \A c \in DOMAIN g.cycles : g.cycles[c].then \in ToSet(g.successors[c])
  BY <1>2, <1>3
<1>10. \A m, n \in g.nodes : m # n => g.order[m] < g.order[n] \/ g.order[n] < g.order[m]
  <2>1. \A n \in Nodes(d) : Order(d, n) \in DOMAIN d.nodes /\ d.nodes[Order(d, n)] = n
    BY DEF Nodes, Order, ToSet
  <2>2. DOMAIN d.nodes \subseteq Nat
    <3>1. d.nodes \in Seq(ToSet(d.nodes))
      BY <1>1 DEF Accepted, IsDeclaration
    <3> QED BY <3>1
  <2>3. \A m, n \in Nodes(d) : m # n => Order(d, m) < Order(d, n) \/ Order(d, n) < Order(d, m)
    <3> SUFFICES ASSUME NEW m \in Nodes(d), NEW n \in Nodes(d), m # n
                 PROVE  Order(d, m) < Order(d, n) \/ Order(d, n) < Order(d, m)
      OBVIOUS
    <3>1. Order(d, m) \in Nat /\ Order(d, n) \in Nat /\ Order(d, m) # Order(d, n)
      BY <2>1, <2>2
    <3> QED BY <3>1
  <2>4. g.nodes = Nodes(d) /\ g.order = [n \in Nodes(d) |-> Order(d, n)]
    BY DEF Graphs, GraphOf, GraphWith
  <2> QED BY <2>3, <2>4
<1> QED BY <1>5, <1>7, <1>8, <1>9, <1>10 DEF IsGraph

-----------------------------------------------------------------------------
(* The operations on edges keep an edge state one *)

LEMMA NewEdgesType ==
  ASSUME NEW g
  PROVE  IsEdgeState(g, NewEdges(g))
BY DEF IsEdgeState, NewEdges

LEMMA EnterType ==
  ASSUME NEW g, NEW e, IsEdgeState(g, e), NEW S \in SUBSET g.nodes
  PROVE  IsEdgeState(g, Enter(e, S))
<1>1. [n \in DOMAIN e.visits |-> e.visits[n] + (IF n \in S THEN 1 ELSE 0)]
        \in [g.nodes -> Nat]
  BY DEF IsEdgeState
<1> QED BY <1>1 DEF IsEdgeState, Enter

LEMMA UnenterType ==
  ASSUME NEW g, NEW e, IsEdgeState(g, e), NEW n \in g.nodes
  PROVE  IsEdgeState(g, Unenter(e, n))
<1>1. [e.visits EXCEPT ![n] = 0] \in [g.nodes -> Nat]
  BY DEF IsEdgeState
<1>2. CASE e.visits[n] <= 1
  BY <1>1, <1>2 DEF IsEdgeState, Unenter
<1>3. CASE ~(e.visits[n] <= 1)
  <2>1. [e.visits EXCEPT ![n] = @ - 1] \in [g.nodes -> Nat]
    BY <1>3 DEF IsEdgeState
  <2> QED BY <2>1, <1>3 DEF IsEdgeState, Unenter
<1> QED BY <1>2, <1>3

LEMMA FireType ==
  ASSUME NEW g, NEW e, IsEdgeState(g, e), NEW S \in SUBSET g.pairs
  PROVE  IsEdgeState(g, Fire(e, S)) /\ IsEdgeState(g, LeaveAbsent(e, S))
BY DEF IsEdgeState, Fire, LeaveAbsent

LEMMA SkipType ==
  ASSUME NEW g, NEW e, IsEdgeState(g, e), NEW S \in SUBSET g.nodes
  PROVE  IsEdgeState(g, [ResolveAllAbsent(g, e, S) EXCEPT !.done = @ \union S])
<1>1. IsEdgeState(g, ResolveAllAbsent(g, e, S))
  BY FireType DEF ResolveAllAbsent, OutOf
<1> QED BY <1>1 DEF IsEdgeState

LEMMA DivertType ==
  ASSUME NEW g, NEW e, IsEdgeState(g, e), IsGraph(g),
         NEW n \in g.nodes, n \in DOMAIN g.on_error
  PROVE  IsEdgeState(g, Divert(g, e, n))
<1> DEFINE handler == {<<n, g.on_error[n]>>}
<1>1. handler \subseteq g.pairs
  BY DEF IsGraph
<1>2. OutOf(g, {n}) \ handler \subseteq g.pairs
  BY DEF OutOf
<1>3. IsEdgeState(g, LeaveAbsent(e, OutOf(g, {n}) \ handler))
  BY <1>2, FireType
<1> QED BY <1>1, <1>3, FireType DEF Divert

LEMMA AdvanceType ==
  ASSUME NEW g, NEW e, IsEdgeState(g, e), NEW n \in g.nodes, NEW chosen,
         {n} \X chosen \subseteq g.pairs
  PROVE  IsEdgeState(g, Advance(g, e, n, chosen))
<1>k. PICK kept : kept = KeptBack(g, n, chosen)
  OBVIOUS
<1> DEFINE taken   == {n} \X chosen
           settled == Fire(LeaveAbsent(e, OutOf(g, {n}) \ taken), taken)
           counted == NoteEntries(g, settled, n, chosen)
<1>1. OutOf(g, {n}) \ taken \subseteq g.pairs
  BY DEF OutOf
<1>2. IsEdgeState(g, LeaveAbsent(e, OutOf(g, {n}) \ taken))
  BY <1>1, FireType
<1>3. IsEdgeState(g, settled)
  BY <1>2, FireType
<1> HIDE DEF settled
<1>4. IsEdgeState(g, counted)
  BY <1>3 DEF IsEdgeState, NoteEntries
<1> HIDE DEF counted
<1>5. IsEdgeState(g, Reopen(g, counted, n, kept))
  BY <1>4 DEF IsEdgeState, Reopen
<1> QED BY <1>k, <1>4, <1>5 DEF Advance, settled, counted

-----------------------------------------------------------------------------
(* Types *)

\* A pipeline's declaration never changes during a run.
LEMMA PipelineStays ==
  ASSUME [Next]_vars
  PROVE  pipeline' = pipeline /\ graph' = graph /\ decl' = decl
<1>1. pipeline' = pipeline
  BY DEF Next, vars, Drive, Resume, Over, UnitStep, SettleStep, EndWalk, ChooseBatch,
     BudgetSpent, StopBefore, StartBatch, StartStopped, BatchSettled, UnitStarts,
     UnitReturns, UnitRetries, UnitDiverts, UnitRaises, UnitSuspends, SettleReturned,
     SettleFailure, SettleDrained, SettleSuspended, SettleRaised, RouteRaises
<1> QED BY <1>1 DEF graph, decl

\* What a returned node may select are edges of the graph.
LEMMA SelectionsAreEdges ==
  ASSUME IsGraph(graph), NEW n \in graph.nodes, NEW chosen \in Selections(n)
  PROVE  {n} \X chosen \subseteq graph.pairs
<1>1. chosen \subseteq ToSet(graph.successors[n])
  <2>1. CASE Exhausted(n)
    BY <2>1 DEF Selections, Exhausted, IsGraph
  <2>2. CASE ~Exhausted(n)
    BY <2>2 DEF Selections
  <2> QED BY <2>1, <2>2
<1> QED BY <1>1 DEF IsGraph

\* A unit fails over only where its node declares a handler.
FailuresHandled == \A n \in Is({"failure"}) : n \in DOMAIN graph.on_error

LEMMA InitType == Init => TypeOK /\ FailuresHandled
<1> SUFFICES ASSUME Init PROVE TypeOK /\ FailuresHandled
  OBVIOUS
<1>1. IsEdgeState(graph, edges)
  BY NewEdgesType DEF Init
<1> QED BY <1>1 DEF Init, TypeOK, Statuses, Ended, FailuresHandled, Is

LEMMA NextFailures == TypeOK /\ FailuresHandled /\ [Next]_vars => FailuresHandled'
<1> SUFFICES ASSUME TypeOK, FailuresHandled, [Next]_vars PROVE FailuresHandled'
  OBVIOUS
<1>p. pipeline' = pipeline /\ graph' = graph /\ decl' = decl
  BY PipelineStays
<1>1. \/ \A n \in graph.nodes : unit'[n] = "failure" => unit[n] = "failure"
      \/ \E n \in graph.nodes : UnitDiverts(n)
  <2>1. ASSUME NEW n \in graph.nodes, UnitStep(n), ~UnitDiverts(n)
        PROVE  \A m \in graph.nodes : unit'[m] = "failure" => unit[m] = "failure"
    BY <2>1 DEF UnitStep, UnitStarts, UnitReturns, UnitRetries, UnitRaises,
       UnitSuspends, Stops, TypeOK
  <2>2. ASSUME NEW n \in graph.nodes, SettleStep(n)
        PROVE  unit' = unit
    BY <2>2 DEF SettleStep, SettleReturned, SettleFailure, SettleDrained,
       SettleSuspended, SettleRaised, RouteRaises
  <2>3. CASE StartBatch \/ StartStopped
    <3>1. ASSUME NEW nodes, NEW stopped, QueueUnits(nodes, stopped)
          PROVE  unit' = [n \in graph.nodes |-> IF n \in nodes THEN "queued" ELSE "idle"]
      BY <3>1 DEF QueueUnits
    <3>2. \E nodes : unit' = [n \in graph.nodes |-> IF n \in nodes THEN "queued" ELSE "idle"]
      BY <2>3, <3>1 DEF StartBatch, StartStopped
    <3> QED BY <3>2
  <2>4. CASE BudgetSpent \/ StopBefore \/ Resume
    BY <2>4, <1>p DEF BudgetSpent, StopBefore, Resume, Idle
  <2>5. CASE BatchSettled
    BY <2>5, <1>p DEF BatchSettled, Idle
  <2>6. CASE EndWalk \/ ChooseBatch \/ UNCHANGED vars
    BY <2>6 DEF EndWalk, ChooseBatch, vars, units
  <2> QED BY <2>1, <2>2, <2>3, <2>4, <2>5, <2>6 DEF Next, Drive, Over
<1>2. CASE \A n \in graph.nodes : unit'[n] = "failure" => unit[n] = "failure"
  BY <1>2, <1>p DEF FailuresHandled, Is
<1>3. CASE \E n \in graph.nodes : UnitDiverts(n)
  BY <1>3, <1>p DEF FailuresHandled, Is, UnitDiverts, TypeOK
<1> QED BY <1>1, <1>2, <1>3

LEMMA NextType == TypeOK /\ FailuresHandled /\ [Next]_vars => TypeOK'
<1> SUFFICES ASSUME TypeOK, FailuresHandled, [Next]_vars PROVE TypeOK'
  OBVIOUS
<1>g. IsGraph(graph)
  BY AcceptedIsGraph DEF TypeOK, graph
<1>p. pipeline' = pipeline /\ graph' = graph /\ decl' = decl
  BY PipelineStays
<1> USE <1>p
<1>1. CASE EndWalk
  BY <1>1 DEF TypeOK, EndWalk, frame, units, history, Ended
<1>2. CASE ChooseBatch
  <2>1. PICK S \in SUBSET ReadyNodes :
          LET skipped == {n \in S : AllAbsent(graph, edges, n)}
          IN  /\ edges' = Skip(skipped)
              /\ batch' = S \ skipped
              /\ phase' = IF S = skipped THEN "walking" ELSE "chosen"
    BY <1>2 DEF ChooseBatch
  <2>2. S \subseteq graph.nodes
    BY DEF ReadyNodes
  <2>3. IsEdgeState(graph, edges')
    BY <2>1, <2>2, SkipType DEF TypeOK, Skip
  <2> QED BY <1>2, <2>1, <2>2, <2>3 DEF TypeOK, ChooseBatch, history
<1>3. CASE BudgetSpent
  BY <1>3 DEF TypeOK, BudgetSpent, Idle, frame, history, Ended, Statuses
<1>4. CASE StopBefore
  <2>1. PICK n \in batch : in_progress' = {n}
    BY <1>4 DEF StopBefore
  <2>2. saved' = [Frame EXCEPT !.in_progress = in_progress']
    BY <1>4 DEF StopBefore
  <2>3. saved' = [edges |-> edges, produced |-> produced, in_progress |-> in_progress',
                  node_state |-> node_state, rounds |-> rounds, finished |-> finished,
                  interrupted |-> interrupted]
    BY <2>2 DEF Frame
  <2>4. UNCHANGED <<edges, produced, node_state, held, rounds, finished, interrupted>>
    BY <1>4 DEF StopBefore, history
  <2>5. phase' = "suspended" /\ Idle
    BY <1>4 DEF StopBefore
  <2> QED BY <2>1, <2>3, <2>4, <2>5 DEF TypeOK, Idle, Ended, Statuses
<1>5. ASSUME NEW nodes \in SUBSET graph.nodes, NEW stopped \in BOOLEAN,
             QueueUnits(nodes, stopped)
      PROVE  /\ phase' = "running" /\ batch' \subseteq graph.nodes /\ resumed' \in BOOLEAN
             /\ IsEdgeState(graph, edges') /\ unit' \in [graph.nodes -> Statuses]
             /\ attempt' \in [graph.nodes -> Nat]
  <2>1. IsEdgeState(graph, edges')
    BY <1>5, EnterType DEF QueueUnits, TypeOK
  <2> QED BY <1>5, <2>1 DEF QueueUnits, Statuses
<1>6. CASE StartBatch
  <2>1. PICK nodes \in SUBSET batch : QueueUnits(nodes, FALSE)
    BY <1>6 DEF StartBatch
  <2>2. nodes \subseteq graph.nodes
    BY DEF TypeOK
  <2> QED BY <1>6, <2>1, <2>2, <1>5 DEF TypeOK, StartBatch, history
<1>7. CASE StartStopped
  <2>1. QueueUnits(in_progress, TRUE) /\ in_progress \subseteq graph.nodes
    BY <1>7 DEF StartStopped, TypeOK
  <2> QED BY <1>7, <2>1, <1>5 DEF TypeOK, StartStopped, history
<1>8. CASE BatchSettled
  <2>1. CASE Is({"suspended"}) # {}
    <3>1. phase' = "suspended" /\ saved' = Frame
      BY <1>8, <2>1 DEF BatchSettled
    <3> QED BY <1>8, <2>1, <3>1 DEF TypeOK, BatchSettled, frame, history, Frame, Ended
  <2>2. CASE Is({"suspended"}) = {}
    <3>1. \/ phase' = "failed" /\ UNCHANGED <<saved, resumed, unit, attempt, batch>>
          \/ phase' = "walking" /\ Idle /\ UNCHANGED saved
      BY <1>8, <2>2 DEF BatchSettled
    <3>2. UNCHANGED <<frame, held, history>>
      BY <1>8 DEF BatchSettled
    <3>3. CASE phase' = "failed" /\ UNCHANGED <<saved, resumed, unit, attempt, batch>>
      BY <3>2, <3>3 DEF TypeOK, frame, history, Ended
    <3>4. CASE phase' = "walking" /\ Idle /\ UNCHANGED saved
      BY <3>2, <3>4 DEF TypeOK, frame, history, Idle, Statuses
    <3> QED BY <3>1, <3>3, <3>4
  <2> QED BY <2>1, <2>2
<1>9. ASSUME NEW n \in graph.nodes, UnitStep(n)
      PROVE  TypeOK'
  <2>1. CASE UnitStarts(n)
    BY <2>1 DEF TypeOK, UnitStarts, frame, Statuses
  <2>2. CASE UnitReturns(n)
    BY <2>2 DEF TypeOK, UnitReturns, frame, history, Statuses
  <2>3. CASE UnitRetries(n)
    BY <2>3 DEF TypeOK, UnitRetries, frame, history, Statuses
  <2>4. CASE UnitDiverts(n)
    BY <2>4 DEF TypeOK, UnitDiverts, frame, history, Statuses
  <2>5. CASE UnitRaises(n)
    BY <2>5 DEF TypeOK, UnitRaises, Stops, frame, history, Statuses
  <2>6. CASE UnitSuspends(n)
    BY <2>6 DEF TypeOK, UnitSuspends, Stops, frame, Statuses
  <2> QED BY <1>9, <2>1, <2>2, <2>3, <2>4, <2>5, <2>6 DEF UnitStep
<1>10. ASSUME NEW n \in graph.nodes, SettleStep(n)
       PROVE  TypeOK'
  <2>1. CASE SettleReturned(n)
    <3>1. PICK chosen \in Selections(n) :
            /\ edges' = Advance(graph, edges, n, chosen)
            /\ Follow(n, chosen)
      BY <2>1 DEF SettleReturned
    <3>2. IsEdgeState(graph, edges')
      BY <3>1, <1>g, SelectionsAreEdges, AdvanceType DEF TypeOK
    <3>3. rounds' \in [DOMAIN graph.cycles -> Nat] /\ finished' \subseteq graph.nodes
          /\ interrupted' = interrupted
      BY <3>1 DEF TypeOK, Follow
    <3> QED BY <2>1, <3>2, <3>3 DEF TypeOK, SettleReturned, Settling
  <2>2. CASE SettleFailure(n)
    <3>1. n \in DOMAIN graph.on_error
      BY <2>2 DEF SettleFailure, Settling, FailuresHandled, Is
    <3>2. IsEdgeState(graph, edges')
      BY <2>2, <3>1, <1>g, DivertType DEF TypeOK, SettleFailure
    <3>3. rounds' \in [DOMAIN graph.cycles -> Nat] /\ finished' \subseteq graph.nodes
          /\ interrupted' = interrupted
      BY <2>2 DEF TypeOK, Follow, SettleFailure
    <3> QED BY <2>2, <3>2, <3>3 DEF TypeOK, SettleFailure, Settling
  <2>3. CASE SettleDrained(n)
    <3>1. IsEdgeState(graph, edges')
      BY <2>3, UnenterType DEF TypeOK, SettleDrained
    <3> QED BY <2>3, <3>1 DEF TypeOK, SettleDrained, Settling, history
  <2>4. CASE SettleSuspended(n)
    BY <2>4 DEF TypeOK, SettleSuspended, Settling, history
  <2>5. CASE SettleRaised(n)
    BY <2>5 DEF TypeOK, SettleRaised, Settling, frame, history
  <2>6. CASE RouteRaises(n)
    BY <2>6 DEF TypeOK, RouteRaises, Settling, frame, history, Ended
  <2> QED BY <1>10, <2>1, <2>2, <2>3, <2>4, <2>5, <2>6 DEF SettleStep
<1>11. CASE Resume
  BY <1>11 DEF TypeOK, Resume, Idle, Statuses
<1>12. CASE UNCHANGED vars
  BY <1>12 DEF TypeOK, vars, frame, units, history
<1> QED BY <1>1, <1>2, <1>3, <1>4, <1>6, <1>7, <1>8, <1>9, <1>10, <1>11, <1>12
        DEF Next, Drive, Over

\* In every run of every accepted pipeline, under every ceiling, the variables
\* have their types and no edge is resolved as having both fired and not.
THEOREM TypeCorrect == Spec => []TypeOK
<1>1. TypeOK /\ FailuresHandled /\ [Next]_vars => (TypeOK /\ FailuresHandled)'
  BY NextType, NextFailures
<1> QED BY InitType, <1>1, PTL DEF Spec

-----------------------------------------------------------------------------
(* Overlap *)

\* Any two of the nodes share a group.
Pairwise(S) == \A m, n \in S : m # n => MayOverlap(graph, m, n)

\* The nodes that may still run are those of the batch, and the nodes of the
\* batch, like those the run stopped inside, may overlap. A batch is settled
\* one node at a time, so what has stopped and what is left are taken together:
\* that is what the next resume runs at once.
OverlapInv ==
  /\ Is({"queued", "running"}) \subseteq (IF phase = "running" THEN batch ELSE {})
  /\ phase = "chosen" => in_progress = {} /\ Pairwise(batch)
  /\ Pairwise(in_progress)
  /\ phase = "running" => Pairwise(batch \union in_progress)
  /\ saved # NoState => Pairwise(saved.in_progress)

\* What completed is done, and neither chosen again nor in progress. The nodes
\* of a batch stay done while it is settled.
RestInv ==
  /\ finished \subseteq edges.done
  /\ in_progress \intersect finished = {}
  /\ phase \in {"chosen", "running"} => batch \intersect finished = {}
  /\ phase = "running" => batch \subseteq edges.done /\ batch \intersect in_progress = {}
  /\ saved # NoState => /\ saved.finished \subseteq saved.edges.done
                       /\ saved.in_progress \intersect saved.finished = {}

LEMMA InitOverlap == Init => OverlapInv
BY DEF Init, OverlapInv, Pairwise, Is

LEMMA NextOverlap == TypeOK /\ OverlapInv /\ [Next]_vars => OverlapInv'
<1> SUFFICES ASSUME TypeOK, OverlapInv, [Next]_vars PROVE OverlapInv'
  OBVIOUS
<1>g. IsGraph(graph)
  BY AcceptedIsGraph DEF TypeOK, graph
<1>p. pipeline' = pipeline /\ graph' = graph /\ decl' = decl
  BY PipelineStays
<1> USE <1>p
<1>1. CASE EndWalk
  BY <1>1 DEF OverlapInv, EndWalk, frame, units, Pairwise, Is
<1>2. CASE ChooseBatch
  <2>1. PICK S \in SUBSET ReadyNodes :
          /\ IsBatch(S)
          /\ batch' \subseteq S
          /\ phase' = "walking" \/ phase' = "chosen"
    BY <1>2 DEF ChooseBatch
  <2>2. Pairwise(S)
    <3> SUFFICES ASSUME NEW m \in S, NEW n \in S, m # n PROVE MayOverlap(graph, m, n)
      BY DEF Pairwise
    <3>1. Before(m, n) \/ Before(n, m)
      BY <1>g DEF IsGraph, Before, ReadyNodes
    <3>2. Before(m, n) => MayOverlap(graph, m, n)
      BY <2>1 DEF IsBatch
    <3>3. Before(n, m) => MayOverlap(graph, n, m)
      BY <2>1 DEF IsBatch
    <3> QED BY <3>1, <3>2, <3>3, <1>g DEF IsGraph
  <2>3. /\ phase = "walking" /\ in_progress = {}
        /\ UNCHANGED <<in_progress, unit, saved>>
    BY <1>2 DEF ChooseBatch
  <2> QED BY <2>1, <2>2, <2>3 DEF OverlapInv, Pairwise, Is
<1>3. CASE BudgetSpent
  BY <1>3 DEF OverlapInv, BudgetSpent, Idle, frame, Pairwise, Is
<1>4. CASE StopBefore
  <2>1. PICK n \in batch : in_progress' = {n}
    BY <1>4 DEF StopBefore
  <2>2. phase' = "suspended" /\ saved'.in_progress = in_progress' /\ Idle
    BY <1>4 DEF StopBefore, Frame
  <2> QED BY <2>1, <2>2 DEF OverlapInv, Idle, Pairwise, Is
<1>5. ASSUME NEW nodes, NEW stopped, QueueUnits(nodes, stopped)
      PROVE  /\ phase' = "running" /\ batch' = nodes
             /\ Is({"queued", "running"})' \subseteq nodes
  BY <1>5 DEF QueueUnits, Is
<1>6. CASE StartBatch
  <2>1. PICK nodes \in SUBSET batch : QueueUnits(nodes, FALSE)
    BY <1>6 DEF StartBatch
  <2>2. phase = "chosen" /\ in_progress' = in_progress /\ saved' = saved
    BY <1>6 DEF StartBatch
  <2>3. phase' = "running" /\ batch' = nodes /\ Is({"queued", "running"})' \subseteq nodes
    BY <2>1, <1>5
  <2> QED BY <2>2, <2>3 DEF OverlapInv, Pairwise
<1>7. CASE StartStopped
  <2>1. QueueUnits(in_progress, TRUE) /\ in_progress' = {} /\ saved' = saved
    BY <1>7 DEF StartStopped
  <2>2. /\ phase' = "running" /\ batch' = in_progress
        /\ Is({"queued", "running"})' \subseteq in_progress
    BY <2>1, <1>5
  <2> QED BY <2>1, <2>2 DEF OverlapInv, Pairwise
<1>8. CASE BatchSettled
  <2>1. /\ Is({"queued", "running"})' = {}
        /\ in_progress' = in_progress
        /\ phase' \notin {"chosen", "running"}
        /\ saved' \in {saved, Frame}
    <3>1. Is({"queued", "running"}) = {} /\ unit' = unit => Is({"queued", "running"})' = {}
      BY DEF Is
    <3>2. Idle => Is({"queued", "running"})' = {}
      BY DEF Idle, Is
    <3> QED BY <1>8, <3>1, <3>2 DEF BatchSettled, MapReturned, frame
  <2>2. Frame.in_progress = in_progress
    BY DEF Frame
  <2>3. saved' # NoState => Pairwise(saved'.in_progress)
    BY <2>1, <2>2 DEF OverlapInv
  <2> QED BY <2>1, <2>3 DEF OverlapInv, Pairwise
<1>9. ASSUME NEW n \in graph.nodes, UnitStep(n)
      PROVE  OverlapInv'
  <2>1. /\ phase = "running" /\ phase' = "running"
        /\ UNCHANGED <<batch, in_progress, saved>>
        /\ unit[n] \in {"queued", "running"}
    BY <1>9 DEF UnitStep, UnitStarts, UnitReturns, UnitRetries, UnitDiverts,
       UnitRaises, UnitSuspends, frame
  <2>2. \A m \in graph.nodes \ {n} :
          unit'[m] \in {"queued", "running"} => unit[m] \in {"queued", "running"}
    BY <1>9 DEF UnitStep, UnitStarts, UnitReturns, UnitRetries, UnitDiverts,
       UnitRaises, UnitSuspends, Stops, TypeOK
  <2>3. Is({"queued", "running"})' \subseteq Is({"queued", "running"})
    BY <2>1, <2>2 DEF Is
  <2> QED BY <2>1, <2>3 DEF OverlapInv, Pairwise
<1>10. ASSUME NEW n \in graph.nodes, SettleStep(n)
       PROVE  OverlapInv'
  <2>1. /\ phase = "running" /\ phase' \in {"running", "failed"}
        /\ Is({"queued", "running"}) = {}
        /\ n \in batch /\ batch' \subseteq batch
        /\ in_progress' \subseteq in_progress \union {n}
        /\ UNCHANGED <<unit, saved>>
    BY <1>10 DEF SettleStep, SettleReturned, SettleFailure, SettleDrained,
       SettleSuspended, SettleRaised, RouteRaises, Settling, MapReturned, IsFirst, frame
  <2>2. Is({"queued", "running"})' = {}
    BY <2>1 DEF Is
  <2> QED BY <2>1, <2>2 DEF OverlapInv, Pairwise
<1>11. CASE Resume
  <2>1. /\ saved # NoState /\ saved' = saved /\ phase' = "walking"
        /\ in_progress' = saved.in_progress /\ Idle
    BY <1>11 DEF Resume
  <2> QED BY <2>1 DEF OverlapInv, Idle, Pairwise, Is
<1>12. CASE UNCHANGED vars
  BY <1>12 DEF vars, frame, units, OverlapInv, Pairwise, Is
<1> QED BY <1>1, <1>2, <1>3, <1>4, <1>6, <1>7, <1>8, <1>9, <1>10, <1>11, <1>12
        DEF Next, Drive, Over

\* In every run of every accepted pipeline, whatever stopped and was resumed in
\* between, two nodes run at the same time only where a concurrent_nodes group
\* lists both.
THEOREM OverlapOnlyDeclared == Spec => []OverlapIsDeclared
<1>1. TypeOK /\ FailuresHandled /\ OverlapInv /\ [Next]_vars
        => (TypeOK /\ FailuresHandled /\ OverlapInv)'
  BY NextType, NextFailures, NextOverlap
<1>2. OverlapInv => OverlapIsDeclared
  BY DEF OverlapInv, OverlapIsDeclared, Pairwise, Is
<1> QED BY InitType, InitOverlap, <1>1, <1>2, PTL DEF Spec

-----------------------------------------------------------------------------
(* Nodes that completed *)

\* A node that is sent back along a back edge is sent to a head of its cycle.
LEMMA BackEdgesLeadToHeads ==
  ASSUME NEW p \in DOMAIN Pipelines, NEW c \in DOMAIN Graphs[p].cycles, NEW targets,
         BackTo(Graphs[p], c, targets) # {}
  PROVE  targets \intersect Graphs[p].cycles[c].back # {}
<1> DEFINE d == Pipelines[p]
           g == Graphs[p]
<1>1. g.back = BackEdges(d) /\ g.cycles = Cycles(d)
  BY DEF Graphs, GraphOf, GraphWith
<1>2. Cycles(d)[c].back = {e[2] : e \in {x \in BackEdges(d) : x[1] = c}}
  BY <1>1 DEF Cycles, CyclesClosed
<1>3. PICK t \in targets : <<c, t>> \in BackEdges(d)
  BY <1>1 DEF BackTo
<1>4. t \in Cycles(d)[c].back
  BY <1>2, <1>3
<1> QED BY <1>1, <1>4

\* Which nodes the operations leave done.
LEMMA UnenterDone ==
  ASSUME NEW g, NEW e, IsEdgeState(g, e), NEW n \in g.nodes
  PROVE  e.done \ {n} \subseteq Unenter(e, n).done
BY DEF IsEdgeState, Unenter

LEMMA FireDone ==
  ASSUME NEW g, NEW e, IsEdgeState(g, e), NEW S
  PROVE  Fire(e, S).done = e.done /\ LeaveAbsent(e, S).done = e.done
BY DEF IsEdgeState, Fire, LeaveAbsent

LEMMA DivertDone ==
  ASSUME NEW g, NEW e, IsEdgeState(g, e), NEW n
  PROVE  Divert(g, e, n).done = e.done
<1> DEFINE handler == {<<n, g.on_error[n]>>}
           left    == LeaveAbsent(e, OutOf(g, {n}) \ handler)
<1>1. left.done = e.done /\ IsEdgeState(g, left)
  <2>1. OutOf(g, {n}) \ handler \subseteq g.pairs
    BY DEF OutOf
  <2> QED BY <2>1, FireDone, FireType
<1>2. Divert(g, e, n) = Fire(left, handler)
  BY DEF Divert
<1> QED BY <1>1, <1>2, FireDone

LEMMA AdvanceDone ==
  ASSUME NEW g, NEW e, IsEdgeState(g, e), NEW n, NEW chosen,
         {n} \X chosen \subseteq g.pairs
  PROVE  LET reopens == n \in DOMAIN g.cycles /\ BackTo(g, n, chosen) # {}
         IN  /\ reopens => Advance(g, e, n, chosen).done = e.done \ g.cycles[n].body
             /\ ~reopens => Advance(g, e, n, chosen).done = e.done
<1>k. PICK kept : kept = KeptBack(g, n, chosen)
  OBVIOUS
<1> DEFINE taken   == {n} \X chosen
           left    == LeaveAbsent(e, OutOf(g, {n}) \ taken)
           settled == Fire(left, taken)
           counted == NoteEntries(g, settled, n, chosen)
<1>1. IsEdgeState(g, left) /\ left.done = e.done
  <2>1. OutOf(g, {n}) \ taken \subseteq g.pairs
    BY DEF OutOf
  <2> QED BY <2>1, FireDone, FireType
<1>2. IsEdgeState(g, settled) /\ settled.done = e.done
  BY <1>1, FireDone, FireType
<1> HIDE DEF settled
<1>3. IsEdgeState(g, counted) /\ counted.done = e.done
  BY <1>2 DEF IsEdgeState, NoteEntries
<1> HIDE DEF counted
<1>4. Reopen(g, counted, n, kept).done = e.done \ g.cycles[n].body
  BY <1>3 DEF IsEdgeState, Reopen
<1>5. Advance(g, e, n, chosen) =
        IF n \in DOMAIN g.cycles /\ BackTo(g, n, chosen) # {}
        THEN Reopen(g, counted, n, kept) ELSE counted
  BY <1>k DEF Advance, counted, settled
<1> QED BY <1>3, <1>4, <1>5

LEMMA InitRest == Init => RestInv
BY DEF Init, RestInv, NewEdges

LEMMA NextRest ==
  ClosersRunAlone /\ TypeOK /\ OverlapInv /\ RestInv /\ [Next]_vars
    => RestInv'
<1> SUFFICES ASSUME ClosersRunAlone, TypeOK, OverlapInv, RestInv, [Next]_vars
             PROVE  RestInv'
  OBVIOUS
<1>g. IsGraph(graph)
  BY AcceptedIsGraph DEF TypeOK, graph
<1>p. pipeline' = pipeline /\ graph' = graph /\ decl' = decl
  BY PipelineStays
<1> USE <1>p
<1>1. CASE EndWalk
  BY <1>1 DEF RestInv, EndWalk, frame, units, history
<1>2. CASE ChooseBatch
  <2>1. PICK S \in SUBSET ReadyNodes :
          LET skipped == {n \in S : AllAbsent(graph, edges, n)}
          IN  /\ edges' = Skip(skipped)
              /\ batch' = S \ skipped
              /\ phase' = IF S = skipped THEN "walking" ELSE "chosen"
    BY <1>2 DEF ChooseBatch
  <2> DEFINE skipped == {n \in S : AllAbsent(graph, edges, n)}
  <2>2. edges'.done = edges.done \union skipped
    BY <2>1 DEF Skip, ResolveAllAbsent, LeaveAbsent, TypeOK, IsEdgeState
  <2>3. batch' \subseteq S /\ phase' # "running"
    BY <2>1
  <2>4. S \intersect edges.done = {}
    BY DEF ReadyNodes
  <2>5. UNCHANGED <<in_progress, finished, saved>>
    BY <1>2 DEF ChooseBatch, history
  <2> QED BY <2>2, <2>3, <2>4, <2>5 DEF RestInv
<1>3. CASE BudgetSpent
  BY <1>3 DEF RestInv, BudgetSpent, frame, history
<1>4. CASE StopBefore
  <2>1. PICK n \in batch : in_progress' = {n}
    BY <1>4 DEF StopBefore
  <2>2. /\ phase = "chosen" /\ phase' = "suspended"
        /\ saved'.in_progress = in_progress' /\ saved'.edges = edges
        /\ saved'.finished = finished
        /\ UNCHANGED <<edges, finished>>
    BY <1>4 DEF StopBefore, Frame, history
  <2> QED BY <2>1, <2>2 DEF RestInv
<1>5. ASSUME NEW nodes \in SUBSET graph.nodes, NEW stopped \in BOOLEAN,
             QueueUnits(nodes, stopped)
      PROVE  phase' = "running" /\ batch' = nodes /\ edges'.done = edges.done \union nodes
  <2>1. nodes \ edges.done \subseteq graph.nodes
    OBVIOUS
  <2>2. \A S \in SUBSET graph.nodes : Enter(edges, S).done = edges.done \union S
    BY DEF TypeOK, IsEdgeState, Enter
  <2> QED BY <1>5, <2>1, <2>2 DEF QueueUnits
<1>6. CASE StartBatch
  <2>1. PICK nodes \in SUBSET batch : QueueUnits(nodes, FALSE)
    BY <1>6 DEF StartBatch
  <2>2. phase' = "running" /\ batch' = nodes /\ edges'.done = edges.done \union nodes
    BY <2>1, <1>5 DEF TypeOK
  <2>3. phase = "chosen" /\ UNCHANGED <<in_progress, finished, saved>>
    BY <1>6 DEF StartBatch, history
  <2> QED BY <2>1, <2>2, <2>3 DEF RestInv, OverlapInv
<1>7. CASE StartStopped
  <2>1. /\ phase' = "running" /\ batch' = in_progress
        /\ edges'.done = edges.done \union in_progress
    BY <1>7, <1>5 DEF StartStopped, TypeOK
  <2>2. in_progress' = {} /\ UNCHANGED <<finished, saved>>
    BY <1>7 DEF StartStopped, history
  <2> QED BY <2>1, <2>2 DEF RestInv
<1>8. CASE BatchSettled
  <2>1. /\ UNCHANGED <<edges, in_progress, finished>>
        /\ phase' \notin {"chosen", "running"}
        /\ saved' \in {saved, Frame}
    BY <1>8 DEF BatchSettled, frame, history
  <2>2. Frame.edges = edges /\ Frame.finished = finished /\ Frame.in_progress = in_progress
    BY DEF Frame
  <2>3. saved' = Frame => /\ saved'.finished \subseteq saved'.edges.done
                          /\ saved'.in_progress \intersect saved'.finished = {}
    BY <2>2 DEF RestInv
  <2> QED BY <2>1, <2>3 DEF RestInv
<1>9. ASSUME NEW n \in graph.nodes, UnitStep(n)
      PROVE  RestInv'
  <2>1. UNCHANGED <<phase, edges, in_progress, batch, saved, finished>>
    BY <1>9 DEF UnitStep, UnitStarts, UnitReturns, UnitRetries, UnitDiverts,
       UnitRaises, UnitSuspends, frame, history
  <2> QED BY <2>1 DEF RestInv
<1>10. ASSUME NEW n \in graph.nodes, SettleStep(n)
       PROVE  RestInv'
  <2>1. /\ phase = "running" /\ n \in batch /\ batch' = batch \ {n} /\ saved' = saved
        /\ phase' \in {"running", "failed"}
    <3>1. phase = "running" /\ n \in batch /\ batch' = batch \ {n}
      BY <1>10 DEF SettleStep, SettleReturned, SettleFailure, SettleDrained,
         SettleSuspended, SettleRaised, RouteRaises, Settling, MapReturned, IsFirst
    <3>2. saved' = saved /\ phase' \in {phase, "failed"}
      BY <1>10 DEF SettleStep, SettleReturned, SettleFailure, SettleDrained,
         SettleSuspended, SettleRaised, RouteRaises
    <3> QED BY <3>1, <3>2
  <2>2. n \in edges.done /\ n \notin in_progress /\ n \notin finished
    BY <2>1 DEF RestInv
  <2>3. CASE SettleReturned(n)
    <3>1. PICK chosen \in Selections(n) :
            /\ edges' = Advance(graph, edges, n, chosen)
            /\ Follow(n, chosen)
      BY <2>3 DEF SettleReturned
    <3> DEFINE reopens == n \in DOMAIN graph.cycles /\ BackTo(graph, n, chosen) # {}
               body    == graph.cycles[n].body
    <3>2. edges'.done = IF reopens THEN edges.done \ body ELSE edges.done
      <4>1. {n} \X chosen \subseteq graph.pairs
        BY <1>g, SelectionsAreEdges
      <4>2. edges' = Advance(graph, edges, n, chosen)
        BY <3>1
      <4>3. IsEdgeState(graph, edges)
        BY DEF TypeOK
      <4> HIDE DEF reopens, body
      <4>4. /\ reopens => Advance(graph, edges, n, chosen).done = edges.done \ body
            /\ ~reopens => Advance(graph, edges, n, chosen).done = edges.done
        BY <4>1, <4>3, AdvanceDone DEF reopens, body
      <4> QED BY <4>2, <4>4
    <3>3. finished' \subseteq finished \union {n}
      BY <3>1 DEF Follow
    <3>4. reopens => finished' \intersect body = {}
      <4> SUFFICES ASSUME reopens PROVE finished' \intersect body = {}
        OBVIOUS
      <4>1. chosen \intersect graph.cycles[n].back # {}
        BY BackEdgesLeadToHeads DEF graph, TypeOK
      <4> QED BY <3>1, <4>1 DEF Follow
    <3>5. reopens => (batch \ {n}) \intersect body = {}
      <4> SUFFICES ASSUME reopens, NEW m \in batch \ {n}, m \in body PROVE FALSE
        OBVIOUS
      <4>1. MayOverlap(graph, n, m)
        BY <2>1 DEF OverlapInv, Pairwise
      <4>2. ~MayOverlap(graph, n, m)
        BY DEF ClosersRunAlone, TypeOK, graph
      <4> QED BY <4>1, <4>2
    <3>6. UNCHANGED <<phase, in_progress>>
      BY <2>3 DEF SettleReturned
    <3> HIDE DEF reopens, body
    <3> QED BY <2>1, <2>2, <3>2, <3>3, <3>4, <3>5, <3>6 DEF RestInv
  <2>4. CASE SettleFailure(n)
    <3>1. edges'.done = edges.done
      BY <2>4, DivertDone DEF TypeOK, SettleFailure
    <3>2. finished' \subseteq finished \union {n} /\ in_progress' = in_progress
      BY <2>4 DEF SettleFailure, Follow
    <3> QED BY <2>1, <2>2, <3>1, <3>2 DEF RestInv
  <2>5. CASE SettleDrained(n)
    <3>1. edges.done \ {n} \subseteq edges'.done
      BY <2>5, UnenterDone DEF TypeOK, SettleDrained
    <3>2. UNCHANGED <<in_progress, finished>>
      BY <2>5 DEF SettleDrained, history
    <3> QED BY <2>1, <2>2, <3>1, <3>2 DEF RestInv
  <2>6. CASE SettleSuspended(n)
    BY <2>1, <2>2, <2>6 DEF RestInv, SettleSuspended, history
  <2>7. CASE SettleRaised(n) \/ RouteRaises(n)
    BY <2>1, <2>7 DEF RestInv, SettleRaised, RouteRaises, frame, history
  <2> QED BY <1>10, <2>3, <2>4, <2>5, <2>6, <2>7 DEF SettleStep
<1>11. CASE Resume
  BY <1>11 DEF RestInv, Resume
<1>12. CASE UNCHANGED vars
  BY <1>12 DEF RestInv, vars, frame, units, history
<1> QED BY <1>1, <1>2, <1>3, <1>4, <1>6, <1>7, <1>8, <1>9, <1>10, <1>11, <1>12
        DEF Next, Drive, Over

\* Where no group lists a node closing a cycle with another node of its cycle,
\* a node that completed is not run again before a cycle around it is taken back
\* to its head, whatever failed, stopped and was resumed in between.
THEOREM CompletedWorkRests == ClosersRunAlone /\ Spec => []FinishedNodesRest
<1>1. ClosersRunAlone /\ TypeOK /\ FailuresHandled /\ OverlapInv /\ RestInv /\ [Next]_vars
        => (TypeOK /\ FailuresHandled /\ OverlapInv /\ RestInv)'
  BY NextType, NextFailures, NextOverlap, NextRest
<1>2. OverlapInv /\ RestInv => FinishedNodesRest
  BY DEF OverlapInv, RestInv, FinishedNodesRest, Is
<1>3. ClosersRunAlone => ClosersRunAlone'
  BY DEF ClosersRunAlone
<1> QED BY InitType, InitOverlap, InitRest, <1>1, <1>2, <1>3, PTL DEF Spec

(* Reaching *)

LEMMA ReachTransitive ==
  ASSUME NEW E, NEW a, NEW b \in Reachable(E, a), NEW c \in Reachable(E, b)
  PROVE  c \in Reachable(E, a)
BY DEF Reachable

LEMMA ReachEdge ==
  ASSUME NEW E, NEW a, NEW b, <<a, b>> \in E
  PROVE  b \in Reachable(E, a)
<1>1. b \in {x[2] : x \in E}
  OBVIOUS
<1>2. \A S : (\A x \in E : x[1] \in S \union {a} => x[2] \in S) => b \in S
  OBVIOUS
<1> QED BY <1>1, <1>2 DEF Reachable

\* A set that holds what m leads to, and what its members lead to, holds all
\* that m reaches.
LEMMA ReachClosed ==
  ASSUME NEW E, NEW m, NEW S,
         \A x \in E : x[1] \in S \union {m} => x[2] \in S
  PROVE  Reachable(E, m) \subseteq S
<1> DEFINE T == S \intersect {x[2] : x \in E}
<1>1. T \in SUBSET {x[2] : x \in E}
  OBVIOUS
<1>2. \A x \in E : x[1] \in T \union {m} => x[2] \in T
  OBVIOUS
<1> HIDE DEF T
<1>3. \A t \in Reachable(E, m) : t \in T
  BY <1>1, <1>2 DEF Reachable
<1> QED BY <1>3 DEF T

-----------------------------------------------------------------------------
(* The graph of an accepted pipeline *)

\* What these proofs use of a graph, besides IsGraph.
IsFlow(g) ==
  /\ g.pairs \subseteq g.nodes \X g.nodes
  /\ \A n \in g.nodes : g.in_edges[n] = {m \in g.nodes : <<m, n>> \in g.pairs}
  /\ \A c \in DOMAIN g.cycles :
       /\ c \in g.cycles[c].body
       /\ \A m \in g.cycles[c].body : m # c => c \in Reachable(Forward(g), m)
       /\ g.cycles[c].back = {e[2] : e \in {x \in g.back : x[1] = c}}

\* Every edge leads to a node of the list.
LEMMA EdgesLeadToNodes ==
  ASSUME NEW d, Accepted(d), NEW n \in Nodes(d)
  PROVE  ToSet(Edges(d)[n]) \subseteq Nodes(d)
<1>0. /\ d.nodes \in Seq(ToSet(d.nodes)) /\ d.nodes # <<>> /\ Nodes(d) = ToSet(d.nodes)
      /\ TargetsKnown(d)
  BY DEF Accepted, IsDeclaration, Nodes
<1> DEFINE to == Successors(d)[n]
<1>1. ToSet(to) \subseteq Nodes(d) /\ to \in Seq(ToSet(to))
  <2>1. CASE n \in DOMAIN d.successors
    <3>1. to = d.successors[n]
      BY <2>1 DEF Successors
    <3> QED BY <2>1, <3>1, <1>0 DEF TargetsKnown, Accepted, IsDeclaration
  <2>2. CASE n \notin DOMAIN d.successors /\ n = Last(d.nodes)
    <3>1. to = <<>>
      BY <2>2 DEF Successors
    <3> QED BY <3>1 DEF ToSet
  <2>3. CASE n \notin DOMAIN d.successors /\ n # Last(d.nodes)
    <3>1. to = <<d.nodes[Order(d, n) + 1]>>
      BY <2>3 DEF Successors
    <3>2. Order(d, n) \in DOMAIN d.nodes /\ d.nodes[Order(d, n)] = n
      BY <1>0 DEF Order, ToSet
    <3>3. DOMAIN d.nodes = 1 .. Len(d.nodes) /\ Len(d.nodes) \in Nat
      BY <1>0
    <3>4. Order(d, n) # Len(d.nodes)
      BY <3>2, <2>3 DEF Last
    <3>5. Order(d, n) + 1 \in DOMAIN d.nodes
      BY <3>2, <3>3, <3>4
    <3>6. PICK x : x = d.nodes[Order(d, n) + 1]
      OBVIOUS
    <3>7. x \in Nodes(d)
      BY <3>5, <3>6, <1>0 DEF ToSet
    <3>8. to = <<x>>
      BY <3>1, <3>6
    <3> HIDE DEF to
    <3>9. ToSet(to) = {x}
      BY <3>8 DEF ToSet
    <3>10. to \in Seq({x})
      BY <3>8
    <3> QED BY <3>7, <3>9, <3>10
  <2> QED BY <2>1, <2>2, <2>3
<1>2. CASE n \in DOMAIN d.on_error /\ d.on_error[n] \notin ToSet(to)
  <2>1. Edges(d)[n] = Append(to, d.on_error[n])
    BY <1>2 DEF Edges
  <2>2. d.on_error[n] \in Nodes(d)
    BY <1>0, <1>2 DEF TargetsKnown
  <2> HIDE DEF to
  <2>3. \A i \in DOMAIN Append(to, d.on_error[n]) :
          Append(to, d.on_error[n])[i] \in Nodes(d)
    <3> SUFFICES ASSUME NEW i \in DOMAIN Append(to, d.on_error[n])
                 PROVE  Append(to, d.on_error[n])[i] \in Nodes(d)
      OBVIOUS
    <3>1. i \in 1 .. Len(to) + 1 /\ Len(to) \in Nat /\ DOMAIN to = 1 .. Len(to)
      BY <1>1
    <3>2. CASE i = Len(to) + 1
      BY <1>1, <2>2, <3>1, <3>2
    <3>3. CASE i # Len(to) + 1
      <4>1. i \in DOMAIN to /\ Append(to, d.on_error[n])[i] = to[i]
        BY <1>1, <3>1, <3>3
      <4> QED BY <4>1, <1>1 DEF ToSet
    <3> QED BY <3>2, <3>3
  <2> QED BY <2>1, <2>3 DEF ToSet
<1>3. CASE ~(n \in DOMAIN d.on_error /\ d.on_error[n] \notin ToSet(to))
  BY <1>1, <1>3 DEF Edges
<1> QED BY <1>2, <1>3

LEMMA AcceptedFlows ==
  ASSUME NEW p \in DOMAIN Pipelines
  PROVE  IsFlow(Graphs[p])
<1> DEFINE d == Pipelines[p]
           g == Graphs[p]
<1>1. Accepted(d)
  BY PipelinesAssumption
<1>2. /\ g.nodes = Nodes(d) /\ g.pairs = Pairs(Edges(d)) /\ g.back = BackEdges(d)
      /\ g.cycles = Cycles(d)
  BY DEF Graphs, GraphOf, GraphWith
<1>e. g.in_edges = [n \in Nodes(d) |-> {m \in Nodes(d) : n \in ToSet(Edges(d)[m])}]
  <2>1. g = GraphWith(d, Edges(d), BackEdges(d), Cycles(d))
    BY DEF Graphs, GraphOf
  <2> DEFINE outs == Edges(d)
  <2> HIDE DEF g, d, outs
  <2>2. GraphWith(d, outs, BackEdges(d), Cycles(d)).in_edges
          = [n \in Nodes(d) |-> {m \in Nodes(d) : n \in ToSet(outs[m])}]
    BY DEF GraphWith
  <2> QED BY <2>1, <2>2 DEF outs
<1>3. DOMAIN Edges(d) = Nodes(d)
  BY DEF Edges
<1>4. \A m, n : <<m, n>> \in Pairs(Edges(d)) <=> m \in Nodes(d) /\ n \in ToSet(Edges(d)[m])
  <2> DEFINE outs == Edges(d)
  <2>1. DOMAIN outs = Nodes(d)
    BY <1>3
  <2> HIDE DEF outs, d
  <2> SUFFICES ASSUME NEW m, NEW n
               PROVE  <<m, n>> \in Pairs(outs) <=> m \in Nodes(d) /\ n \in ToSet(outs[m])
    BY DEF outs
  <2> QED BY <2>1 DEF Pairs
<1>5. Pairs(Edges(d)) \subseteq Nodes(d) \X Nodes(d)
  <2>1. \A m \in Nodes(d) : ToSet(Edges(d)[m]) \subseteq Nodes(d)
    BY <1>1, EdgesLeadToNodes
  <2> QED BY <2>1, <1>3 DEF Pairs
<1>6. \A n \in g.nodes : g.in_edges[n] = {m \in g.nodes : <<m, n>> \in g.pairs}
  <2> SUFFICES ASSUME NEW n \in Nodes(d)
               PROVE  {m \in Nodes(d) : n \in ToSet(Edges(d)[m])}
                        = {m \in Nodes(d) : <<m, n>> \in Pairs(Edges(d))}
    BY <1>2, <1>e
  <2> QED BY <1>4
<1>7. ASSUME NEW c \in DOMAIN g.cycles
      PROVE  /\ c \in g.cycles[c].body
             /\ \A m \in g.cycles[c].body : m # c => c \in Reachable(Forward(g), m)
             /\ g.cycles[c].back = {e[2] : e \in {x \in g.back : x[1] = c}}
  <2> DEFINE heads == {e[2] : e \in {x \in BackEdges(d) : x[1] = c}}
             E     == Pairs(Edges(d)) \ BackEdges(d)
  <2>1. g.cycles[c].body = Body(E, heads, c) /\ g.cycles[c].back = heads
    <3>1. c \in DOMAIN Cycles(d)
      BY <1>2, <1>7
    <3> HIDE DEF d
    <3>2. Cycles(d)[c].body = Body(E, heads, c) /\ Cycles(d)[c].back = heads
      BY <3>1 DEF Cycles, CyclesClosed
    <3> QED BY <3>2, <1>2
  <2>2. E = Forward(g)
    BY <1>2 DEF Forward
  <2> QED BY <2>1, <2>2, <1>2 DEF Body
<1> QED BY <1>2, <1>5, <1>6, <1>7 DEF IsFlow

-----------------------------------------------------------------------------
(* What the operations on edges resolve *)

LEMMA LeaveAbsentResolves ==
  ASSUME NEW g, NEW e, IsEdgeState(g, e), NEW S
  PROVE  /\ Resolved(LeaveAbsent(e, S)) = Resolved(e) \union S
         /\ LeaveAbsent(e, S).fired = e.fired \ S
         /\ LeaveAbsent(e, S).done = e.done
         /\ LeaveAbsent(e, S).visits = e.visits
BY DEF IsEdgeState, LeaveAbsent, Resolved

LEMMA FireResolves ==
  ASSUME NEW g, NEW e, IsEdgeState(g, e), NEW S
  PROVE  /\ Resolved(Fire(e, S)) = Resolved(e) \union S
         /\ Fire(e, S).fired = e.fired \union S
         /\ Fire(e, S).done = e.done
         /\ Fire(e, S).visits = e.visits
BY DEF IsEdgeState, Fire, Resolved

LEMMA EnterResolves ==
  ASSUME NEW g, NEW e, IsEdgeState(g, e), NEW S
  PROVE  /\ Resolved(Enter(e, S)) = Resolved(e)
         /\ Enter(e, S).fired = e.fired
         /\ Enter(e, S).done = e.done \union S
         /\ Enter(e, S).visits = [m \in g.nodes |-> e.visits[m] + (IF m \in S THEN 1 ELSE 0)]
BY DEF IsEdgeState, Enter, Resolved

LEMMA UnenterResolves ==
  ASSUME NEW g, NEW e, IsEdgeState(g, e), NEW n
  PROVE  /\ Resolved(Unenter(e, n)) = Resolved(e)
         /\ Unenter(e, n).fired = e.fired
         /\ Unenter(e, n).done \subseteq e.done /\ e.done \subseteq Unenter(e, n).done \union {n}
BY DEF IsEdgeState, Unenter, Resolved

\* What Skip does, of any graph and edge state.
Skipped(g, e, nodes) == [ResolveAllAbsent(g, e, nodes) EXCEPT !.done = @ \union nodes]

LEMMA SkipResolves ==
  ASSUME NEW g, NEW e, IsEdgeState(g, e), NEW S
  PROVE  /\ Resolved(Skipped(g, e, S)) = Resolved(e) \union OutOf(g, S)
         /\ Skipped(g, e, S).fired = e.fired \ OutOf(g, S)
         /\ Skipped(g, e, S).done = e.done \union S
         /\ Skipped(g, e, S).visits = e.visits
<1> DEFINE left == ResolveAllAbsent(g, e, S)
<1>1. /\ Resolved(left) = Resolved(e) \union OutOf(g, S) /\ left.fired = e.fired \ OutOf(g, S)
      /\ left.done = e.done /\ left.visits = e.visits
  BY LeaveAbsentResolves DEF ResolveAllAbsent
<1>2. left \in [fired : SUBSET g.pairs, absent : SUBSET g.pairs,
                visits : [g.nodes -> Nat], done : SUBSET g.nodes]
  <2>1. OutOf(g, S) \subseteq g.pairs
    BY DEF OutOf
  <2>2. IsEdgeState(g, left)
    BY <2>1, FireType DEF ResolveAllAbsent
  <2> QED BY <2>2 DEF IsEdgeState
<1> HIDE DEF left
<1> DEFINE skip == Skipped(g, e, S)
<1>3. /\ skip.fired = left.fired /\ skip.absent = left.absent /\ skip.visits = left.visits
      /\ skip.done = left.done \union S
  <2>1. skip = [left EXCEPT !.done = @ \union S]
    BY DEF left, Skipped
  <2> QED BY <2>1, <1>2
<1> QED BY <1>1, <1>3 DEF left, Resolved

\* A settled node resolves every edge out of it; those it chose fire.
LEMMA DivertResolves ==
  ASSUME NEW g, NEW e, IsEdgeState(g, e), NEW n, <<n, g.on_error[n]>> \in g.pairs
  PROVE  /\ Resolved(Divert(g, e, n)) = Resolved(e) \union OutOf(g, {n})
         /\ Divert(g, e, n).fired = (e.fired \ OutOf(g, {n})) \union {<<n, g.on_error[n]>>}
         /\ Divert(g, e, n).done = e.done
         /\ Divert(g, e, n).visits = e.visits
<1> DEFINE handler == {<<n, g.on_error[n]>>}
           left    == LeaveAbsent(e, OutOf(g, {n}) \ handler)
<1>1. handler \subseteq OutOf(g, {n})
  BY DEF OutOf
<1>2. /\ Resolved(left) = Resolved(e) \union (OutOf(g, {n}) \ handler)
      /\ left.fired = e.fired \ (OutOf(g, {n}) \ handler)
      /\ left.done = e.done /\ left.visits = e.visits
  BY LeaveAbsentResolves
<1>3. IsEdgeState(g, left)
  <2>1. OutOf(g, {n}) \ handler \subseteq g.pairs
    BY DEF OutOf
  <2> QED BY <2>1, FireType
<1> HIDE DEF left
<1>4. /\ Resolved(Fire(left, handler)) = Resolved(left) \union handler
      /\ Fire(left, handler).fired = left.fired \union handler
      /\ Fire(left, handler).done = left.done /\ Fire(left, handler).visits = left.visits
  BY <1>3, FireResolves
<1>5. Divert(g, e, n) = Fire(left, handler)
  BY DEF Divert, left
<1> QED BY <1>1, <1>2, <1>4, <1>5

\* What a node that returned and chose where to go on resolves, and what it
\* fires: it settles, or goes back to a head of its cycle.
Advanced(g, e, n, taken, after) ==
  /\ Resolved(after) = Resolved(e) \union OutOf(g, {n})
  /\ after.fired = (e.fired \ OutOf(g, {n})) \union taken

WentBack(g, e, n, taken, kept, after) ==
  LET stale == OutOf(g, g.cycles[n].body) \ kept
  IN  /\ Resolved(after) = (Resolved(e) \union OutOf(g, {n})) \ stale
      /\ after.fired = ((e.fired \ OutOf(g, {n})) \union taken) \ stale

LEMMA AdvanceResolves ==
  ASSUME NEW g, NEW e, IsEdgeState(g, e), NEW n, NEW chosen,
         {n} \X chosen \subseteq g.pairs
  PROVE  LET reopens == n \in DOMAIN g.cycles /\ BackTo(g, n, chosen) # {}
             taken   == {n} \X chosen
             after   == Advance(g, e, n, chosen)
         IN  /\ ~reopens => Advanced(g, e, n, taken, after) /\ after.done = e.done
             /\ reopens  => /\ WentBack(g, e, n, taken, KeptBack(g, n, chosen), after)
                            /\ after.done = e.done \ g.cycles[n].body
<1>0. PICK taken : taken = {n} \X chosen
  OBVIOUS
<1>k. PICK kept : kept = KeptBack(g, n, chosen)
  OBVIOUS
<1>a. PICK others : others = OutOf(g, {n}) \ taken
  OBVIOUS
<1> DEFINE left    == LeaveAbsent(e, others)
           settled == Fire(left, taken)
           counted == NoteEntries(g, settled, n, chosen)
<1>1. taken \subseteq OutOf(g, {n})
  BY <1>0 DEF OutOf
<1>2. /\ IsEdgeState(g, left)
      /\ Resolved(left) = Resolved(e) \union others
      /\ left.fired = e.fired \ others
  <2>1. others \subseteq g.pairs
    BY <1>a DEF OutOf
  <2>2. IsEdgeState(g, left)
    BY <2>1, FireType
  <2>3. /\ Resolved(left) = Resolved(e) \union others
        /\ left.fired = e.fired \ others
    BY LeaveAbsentResolves
  <2> QED BY <2>2, <2>3
<1> HIDE DEF left
<1>3. /\ IsEdgeState(g, settled)
      /\ Resolved(settled) = Resolved(left) \union taken
      /\ settled.fired = left.fired \union taken
  <2>1. IsEdgeState(g, settled)
    BY <1>0, <1>2, FireType
  <2>2. /\ Resolved(settled) = Resolved(left) \union taken
        /\ settled.fired = left.fired \union taken
    BY <1>2, FireResolves
  <2> QED BY <2>1, <2>2
<1>4. /\ Resolved(settled) = Resolved(e) \union OutOf(g, {n})
      /\ settled.fired = (e.fired \ OutOf(g, {n})) \union taken
  BY <1>a, <1>1, <1>2, <1>3
<1> HIDE DEF settled
<1>5. /\ IsEdgeState(g, counted)
      /\ Resolved(counted) = Resolved(settled) /\ counted.fired = settled.fired
  BY <1>3 DEF IsEdgeState, NoteEntries, Resolved
<1> HIDE DEF counted
<1>6. LET stale == OutOf(g, g.cycles[n].body) \ kept
      IN  /\ Resolved(Reopen(g, counted, n, kept)) = Resolved(counted) \ stale
          /\ Reopen(g, counted, n, kept).fired = counted.fired \ stale
  BY <1>5 DEF IsEdgeState, Reopen, Resolved
<1>7. Advance(g, e, n, chosen) =
        IF n \in DOMAIN g.cycles /\ BackTo(g, n, chosen) # {}
        THEN Reopen(g, counted, n, kept) ELSE counted
  BY <1>0, <1>a, <1>k DEF Advance, counted, settled, left
<1> DEFINE after == Advance(g, e, n, chosen)
           stale == OutOf(g, g.cycles[n].body) \ kept
<1>d. /\ (n \in DOMAIN g.cycles /\ BackTo(g, n, chosen) # {})
           => after.done = e.done \ g.cycles[n].body
      /\ ~(n \in DOMAIN g.cycles /\ BackTo(g, n, chosen) # {}) => after.done = e.done
  BY AdvanceDone
<1>8. ASSUME n \in DOMAIN g.cycles /\ BackTo(g, n, chosen) # {}
      PROVE  WentBack(g, e, n, taken, kept, after)
  <2>1. after = Reopen(g, counted, n, kept)
    BY <1>7, <1>8
  <2> HIDE DEF after, stale
  <2>2. /\ Resolved(after) = Resolved(counted) \ stale
        /\ after.fired = counted.fired \ stale
    BY <2>1, <1>6 DEF stale
  <2>3. /\ Resolved(after) = (Resolved(e) \union OutOf(g, {n})) \ stale
        /\ after.fired = ((e.fired \ OutOf(g, {n})) \union taken) \ stale
    BY <2>2, <1>4, <1>5
  <2> QED BY <2>3 DEF WentBack, stale
<1>9. ASSUME ~(n \in DOMAIN g.cycles /\ BackTo(g, n, chosen) # {})
      PROVE  Advanced(g, e, n, taken, after)
  <2>1. after = counted
    BY <1>7, <1>9
  <2> HIDE DEF after
  <2> QED BY <2>1, <1>4, <1>5 DEF Advanced
<1> QED BY <1>0, <1>d, <1>k, <1>8, <1>9

-----------------------------------------------------------------------------
(* Rounds flow forward *)

\* Of an edge state and the nodes that are chosen, run or are stopped: what is
\* done or active has had its forward in-edges resolved, and an edge is resolved
\* by a node that is done with its run.
Flows(g, e, active) ==
  /\ \A n \in e.done \union active : Ready(g, e, n)
  /\ \A x \in Forward(g) : x \in Resolved(e) => x[1] \in e.done \ active

\* What an active node leads to is not ready: the edges on the way are not
\* resolved.
LEMMA DownstreamWaits ==
  ASSUME NEW g, NEW e, NEW active, IsFlow(g), Flows(g, e, active), NEW m \in active
  PROVE  \A n \in Reachable(Forward(g), m) : n \in g.nodes /\ ~Ready(g, e, n)
<1> DEFINE S == {t \in g.nodes : ~Ready(g, e, t)}
<1>1. ASSUME NEW x \in Forward(g), x[1] \in S \union {m}
      PROVE  x[2] \in S
  <2>1. x \notin Resolved(e)
    BY <1>1 DEF Flows
  <2>2. x = <<x[1], x[2]>> /\ x[1] \in g.nodes /\ x[2] \in g.nodes /\ x \in g.pairs /\ x \notin g.back
    BY <1>1 DEF IsFlow, Forward
  <2>3. x[1] \in g.in_edges[x[2]]
    BY <2>2 DEF IsFlow
  <2> QED BY <2>1, <2>2, <2>3 DEF Ready
<1> HIDE DEF S
<1>2. Reachable(Forward(g), m) \subseteq S
  BY <1>1, ReachClosed
<1> QED BY <1>2 DEF S

LEMMA ActiveApart ==
  ASSUME NEW g, NEW e, NEW active, IsFlow(g), Flows(g, e, active), NEW m \in active,
         NEW n \in e.done \union active
  PROVE  n \notin Reachable(Forward(g), m)
BY DownstreamWaits DEF Flows

LEMMA FlowsFewer ==
  ASSUME NEW g, NEW e, NEW active, NEW fewer \in SUBSET active, Flows(g, e, active)
  PROVE  Flows(g, e, fewer)
BY DEF Flows

LEMMA FlowsEnter ==
  ASSUME NEW g, NEW e, NEW active, NEW S \in SUBSET active, IsEdgeState(g, e),
         Flows(g, e, active)
  PROVE  Flows(g, Enter(e, S), active)
<1>1. /\ Resolved(Enter(e, S)) = Resolved(e) /\ Enter(e, S).done = e.done \union S
  BY DEF IsEdgeState, Enter, Resolved
<1> QED BY <1>1 DEF Flows, Ready

\* A batch is chosen: those of it nothing reached are skipped.
LEMMA FlowsSkip ==
  ASSUME NEW g, NEW e, NEW S, NEW K \in SUBSET S, IsEdgeState(g, e), Flows(g, e, {}),
         \A n \in S : n \notin e.done /\ Ready(g, e, n)
  PROVE  Flows(g, Skipped(g, e, K), S \ K)
<1> DEFINE skip == Skipped(g, e, K)
<1>1. Resolved(skip) = Resolved(e) \union OutOf(g, K) /\ skip.done = e.done \union K
  BY SkipResolves
<1> HIDE DEF skip
<1>2. \A n \in skip.done \union (S \ K) : Ready(g, skip, n)
  BY <1>1 DEF Flows, Ready
<1>3. \A x \in Forward(g) : x \in Resolved(skip) => x[1] \in skip.done \ (S \ K)
  BY <1>1 DEF Flows, OutOf
<1> QED BY <1>2, <1>3 DEF Flows, skip

\* An active node that is done is settled, and goes back to no head.
LEMMA FlowsSettle ==
  ASSUME NEW g, NEW e, NEW active, NEW n \in active, Flows(g, e, active), n \in e.done,
         NEW after, after.done = e.done, Resolved(after) = Resolved(e) \union OutOf(g, {n})
  PROVE  Flows(g, after, active \ {n})
<1>1. \A m \in after.done \union (active \ {n}) : Ready(g, after, m)
  BY DEF Flows, Ready
<1>2. \A x \in Forward(g) : x \in Resolved(after) => x[1] \in after.done \ (active \ {n})
  BY DEF Flows, OutOf
<1> QED BY <1>1, <1>2 DEF Flows

\* Where every way out of its cycle leads where the closing node leads, nothing
\* outside a cycle that is being closed has received from it, and nothing in it
\* is active besides.
LEMMA ClosingAlone ==
  ASSUME NEW g, NEW e, NEW active, IsFlow(g), Flows(g, e, active),
         NEW c \in DOMAIN g.cycles, c \in active,
         \A x \in Forward(g) :
           x[1] \in g.cycles[c].body /\ x[2] \notin g.cycles[c].body
             => x[2] \in Reachable(Forward(g), c)
  PROVE  /\ active \intersect g.cycles[c].body = {c}
         /\ \A x \in Forward(g) :
              x[1] \in g.cycles[c].body /\ x[2] \in e.done \union active
                => x[2] \in g.cycles[c].body
         /\ \A x \in Forward(g) :
              x[1] \in g.cycles[c].body => x[2] \notin active \ {c}
<1>1. active \intersect g.cycles[c].body = {c}
  <2>1. c \in g.cycles[c].body
    BY DEF IsFlow
  <2>2. ASSUME NEW m \in active, m \in g.cycles[c].body, m # c PROVE FALSE
    <3>1. c \in Reachable(Forward(g), m)
      BY <2>2 DEF IsFlow
    <3> QED BY <3>1, ActiveApart
  <2> QED BY <2>1, <2>2
<1>2. ASSUME NEW x \in Forward(g), x[1] \in g.cycles[c].body, x[2] \in e.done \union active
      PROVE  x[2] \in g.cycles[c].body
  BY <1>2, ActiveApart
<1> QED BY <1>1, <1>2

LEMMA FlowsReopen ==
  ASSUME NEW g, NEW e, NEW active, IsFlow(g), Flows(g, e, active),
         NEW c \in DOMAIN g.cycles, c \in active, NEW kept, kept \intersect Forward(g) = {},
         e.done \union active \subseteq g.nodes,
         \A x \in Forward(g) :
           x[1] \in g.cycles[c].body /\ x[2] \notin g.cycles[c].body
             => x[2] \in Reachable(Forward(g), c),
         NEW after, after.done = e.done \ g.cycles[c].body,
         Resolved(after) = (Resolved(e) \union OutOf(g, {c}))
                             \ (OutOf(g, g.cycles[c].body) \ kept)
  PROVE  Flows(g, after, active \ {c})
<1> DEFINE body == g.cycles[c].body
<1>1. /\ active \intersect body = {c}
      /\ \A x \in Forward(g) : x[1] \in body /\ x[2] \in e.done \union active => x[2] \in body
      /\ \A x \in Forward(g) : x[1] \in body => x[2] \notin active \ {c}
  BY ClosingAlone
<1>2. \A x \in Forward(g) : x \in Resolved(after) <=> x \in Resolved(e) /\ x[1] \notin body
  <2>1. c \in body
    BY <1>1
  <2> QED BY <2>1 DEF OutOf, Forward
<1> HIDE DEF body
<1>3. ASSUME NEW m \in after.done \union (active \ {c}) PROVE Ready(g, after, m)
  <2> SUFFICES ASSUME NEW s \in g.in_edges[m], <<s, m>> \notin g.back
               PROVE  <<s, m>> \in Resolved(after)
    BY DEF Ready
  <2>1. m \in e.done \union active /\ m \notin body
    BY <1>1, <1>3 DEF body
  <2>2. <<s, m>> \in Resolved(e)
    BY <2>1 DEF Flows, Ready
  <2>3. s \in g.nodes /\ <<s, m>> \in g.pairs /\ <<s, m>> \in Forward(g)
    BY <2>1 DEF IsFlow, Forward
  <2>4. s \notin body
    BY <2>1, <2>3, <1>1
  <2> QED BY <2>2, <2>3, <2>4, <1>2
<1>4. ASSUME NEW x \in Forward(g), x \in Resolved(after) PROVE x[1] \in after.done \ (active \ {c})
  <2>1. x \in Resolved(e) /\ x[1] \notin body
    BY <1>2, <1>4
  <2> QED BY <2>1 DEF Flows, body
<1> QED BY <1>3, <1>4 DEF Flows

\* A drained node that is active is taken back.
LEMMA FlowsUnenter ==
  ASSUME NEW g, NEW e, NEW active, NEW n \in active, IsEdgeState(g, e), Flows(g, e, active)
  PROVE  Flows(g, Unenter(e, n), active \ {n})
<1> DEFINE after == Unenter(e, n)
<1>1. /\ Resolved(after) = Resolved(e)
      /\ after.done \subseteq e.done /\ e.done \subseteq after.done \union {n}
  BY UnenterResolves
<1> HIDE DEF after
<1>2. \A m \in after.done \union (active \ {n}) : Ready(g, after, m)
  BY <1>1 DEF Flows, Ready
<1>3. \A x \in Forward(g) : x \in Resolved(after) => x[1] \in after.done \ (active \ {n})
  BY <1>1 DEF Flows
<1> QED BY <1>2, <1>3 DEF Flows, after

\* In the walk the active nodes are the batch, once it is chosen, and the nodes
\* the run stopped inside. The frame of a drive that ended is not gone on with:
\* what is on disk is.
FlowInv ==
  /\ phase \notin Ended => Flows(graph, edges, batch \union in_progress)
  /\ phase = "chosen" => in_progress = {}
  /\ phase = "running" => batch \subseteq edges.done /\ batch \intersect in_progress = {}
  /\ saved # NoState => Flows(graph, saved.edges, saved.in_progress)

LEMMA InitFlow == Init => FlowInv
<1> SUFFICES ASSUME Init PROVE FlowInv
  OBVIOUS
<1>1. /\ phase = "walking" /\ batch = {} /\ in_progress = {} /\ saved = NoState
      /\ edges = NewEdges(graph)
  BY DEF Init
<1>2. edges.done = {} /\ Resolved(edges) = {}
  BY <1>1 DEF NewEdges, Resolved
<1> QED BY <1>1, <1>2 DEF FlowInv, Flows

\* What settling a returned node does to the edges: it follows the edges taken,
\* and goes back to a head of its cycle where one of them leads there.
Returned(n, taken, kept) ==
  /\ taken \subseteq OutOf(graph, {n})
  /\ Follow(n, {x[2] : x \in taken})
  /\ \/ /\ n \in DOMAIN graph.cycles => taken \intersect graph.back = {}
        /\ Advanced(graph, edges, n, taken, edges')
        /\ edges'.done = edges.done
     \/ /\ n \in DOMAIN graph.cycles /\ taken \intersect graph.back # {}
        /\ kept \subseteq taken \intersect graph.back
        /\ WentBack(graph, edges, n, taken, kept, edges')
        /\ edges'.done = edges.done \ graph.cycles[n].body

LEMMA ReturnedBy ==
  ASSUME TypeOK, NEW n \in graph.nodes, NEW chosen \in Selections(n),
         NEW kept, kept = KeptBack(graph, n, chosen),
         edges' = Advance(graph, edges, n, chosen), Follow(n, chosen),
         NEW taken, taken = {n} \X chosen
  PROVE  Returned(n, taken, kept)
<1>g. IsGraph(graph)
  BY AcceptedIsGraph DEF TypeOK, graph
<1>e. IsEdgeState(graph, edges)
  BY DEF TypeOK
<1>2. kept = KeptBack(graph, n, chosen)
  OBVIOUS
<1>3. taken = {n} \X chosen
  OBVIOUS
<1>4. taken \subseteq graph.pairs
  BY <1>g, <1>3, SelectionsAreEdges
<1>5. /\ taken \subseteq OutOf(graph, {n})
      /\ chosen = {x[2] : x \in taken}
      /\ BackTo(graph, n, chosen) = {} => taken \intersect graph.back = {}
      /\ BackTo(graph, n, chosen) # {} => taken \intersect graph.back # {}
      /\ kept \subseteq taken \intersect graph.back
  <2>1. taken \subseteq OutOf(graph, {n})
    BY <1>3, <1>4 DEF OutOf
  <2>2. chosen = {x[2] : x \in taken}
    <3>1. ASSUME NEW t \in chosen PROVE \E x \in taken : t = x[2]
      <4>1. <<n, t>> \in taken /\ <<n, t>>[2] = t
        BY <1>3
      <4> QED BY <4>1
    <3>2. \A x \in taken : x[2] \in chosen
      BY <1>3
    <3>3. \A t : t \in chosen <=> t \in {x[2] : x \in taken}
      BY <3>1, <3>2
    <3> QED BY <3>3
  <2>3. \A t : <<n, t>> \in taken <=> t \in chosen
    BY <1>3
  <2>4. \A x \in taken : x = <<n, x[2]>>
    BY <1>3
  <2>5. ASSUME BackTo(graph, n, chosen) = {} PROVE taken \intersect graph.back = {}
    BY <2>2, <2>4, <2>5 DEF BackTo
  <2>6. ASSUME BackTo(graph, n, chosen) # {} PROVE taken \intersect graph.back # {}
    BY <2>3, <2>6 DEF BackTo
  <2>7. kept \subseteq taken \intersect graph.back
    <3>1. \A x \in {n} \X BackTo(graph, n, chosen) : x = <<n, x[2]>> /\ x[2] \in BackTo(graph, n, chosen)
      OBVIOUS
    <3>2. {n} \X BackTo(graph, n, chosen) \subseteq taken \intersect graph.back
      BY <2>3, <3>1 DEF BackTo
    <3> QED BY <1>2, <3>2 DEF KeptBack
  <2> QED BY <2>1, <2>2, <2>5, <2>6, <2>7
<1>6. PICK after : after = Advance(graph, edges, n, chosen)
  OBVIOUS
<1> DEFINE reopens == n \in DOMAIN graph.cycles /\ BackTo(graph, n, chosen) # {}
<1>7. /\ ~reopens => Advanced(graph, edges, n, taken, after) /\ after.done = edges.done
      /\ reopens  => /\ WentBack(graph, edges, n, taken, kept, after)
                     /\ after.done = edges.done \ graph.cycles[n].body
  <2>0. {n} \X chosen \subseteq graph.pairs
    BY <1>3, <1>4
  <2>1. /\ ~reopens => /\ Advanced(graph, edges, n, {n} \X chosen, Advance(graph, edges, n, chosen))
                       /\ Advance(graph, edges, n, chosen).done = edges.done
        /\ reopens => /\ WentBack(graph, edges, n, {n} \X chosen, KeptBack(graph, n, chosen),
                                  Advance(graph, edges, n, chosen))
                      /\ Advance(graph, edges, n, chosen).done = edges.done \ graph.cycles[n].body
    BY <1>e, <2>0, AdvanceResolves
  <2> QED BY <1>2, <1>3, <1>6, <2>1
<1>8. after = edges' /\ Follow(n, {x[2] : x \in taken})
  BY <1>5, <1>6
<1> QED BY <1>5, <1>7, <1>8 DEF Returned

LEMMA ReturnedAdvances ==
  ASSUME TypeOK, NEW n \in graph.nodes, SettleReturned(n)
  PROVE  \E taken, kept : Returned(n, taken, kept)
<1>1. PICK chosen \in Selections(n) :
        /\ edges' = Advance(graph, edges, n, chosen)
        /\ Follow(n, chosen)
  BY DEF SettleReturned
<1>2. PICK kept : kept = KeptBack(graph, n, chosen)
  OBVIOUS
<1>3. PICK taken : taken = {n} \X chosen
  OBVIOUS
<1> QED BY <1>1, <1>2, <1>3, ReturnedBy

\* A returned node is settled: its edges are resolved, and its cycle is reopened
\* where it went back.
LEMMA FlowsReturned ==
  ASSUME LoopsEndTogether, TypeOK, NEW active, NEW n \in active, n \in edges.done,
         active \subseteq graph.nodes, Flows(graph, edges, active),
         NEW taken, NEW kept, Returned(n, taken, kept)
  PROVE  /\ Flows(graph, edges', active \ {n})
         /\ (active \ {n}) \intersect edges.done \subseteq edges'.done
<1>g. IsFlow(graph)
  BY AcceptedFlows DEF TypeOK, graph
<1>1. PICK after : after = edges'
  OBVIOUS
<1>2. CASE /\ Advanced(graph, edges, n, taken, edges')
           /\ edges'.done = edges.done
  <2>1. Flows(graph, after, active \ {n})
    BY <1>1, <1>2, FlowsSettle DEF Advanced
  <2> QED BY <1>1, <1>2, <2>1
<1>3. CASE /\ n \in DOMAIN graph.cycles /\ taken \intersect graph.back # {}
           /\ kept \subseteq taken \intersect graph.back
           /\ WentBack(graph, edges, n, taken, kept, edges')
           /\ edges'.done = edges.done \ graph.cycles[n].body
  <2>1. kept \intersect Forward(graph) = {}
    BY <1>3 DEF Forward
  <2>2. \A x \in Forward(graph) :
          x[1] \in graph.cycles[n].body /\ x[2] \notin graph.cycles[n].body
            => x[2] \in Reachable(Forward(graph), n)
    BY <1>3 DEF LoopsEndTogether, TypeOK, graph
  <2>3. edges.done \union active \subseteq graph.nodes
    BY DEF TypeOK, IsEdgeState
  <2>4. Resolved(after) = (Resolved(edges) \union OutOf(graph, {n}))
                            \ (OutOf(graph, graph.cycles[n].body) \ kept)
    BY <1>1, <1>3 DEF WentBack
  <2>5. Flows(graph, after, active \ {n})
    BY <1>1, <1>3, <1>g, <2>1, <2>2, <2>3, <2>4, FlowsReopen
  <2>6. active \intersect graph.cycles[n].body = {n}
    BY <1>3, <1>g, <2>2, ClosingAlone
  <2> QED BY <1>1, <1>3, <2>5, <2>6
<1> QED BY <1>2, <1>3 DEF Returned

LEMMA NextFlow ==
  LoopsEndTogether /\ TypeOK /\ FailuresHandled /\ FlowInv /\ [Next]_vars => FlowInv'
<1> SUFFICES ASSUME LoopsEndTogether, TypeOK, FailuresHandled, FlowInv, [Next]_vars
             PROVE  FlowInv'
  OBVIOUS
<1>g. IsGraph(graph) /\ IsFlow(graph) /\ IsEdgeState(graph, edges)
  BY AcceptedIsGraph, AcceptedFlows DEF TypeOK, graph
<1>p. pipeline' = pipeline /\ graph' = graph /\ decl' = decl
  BY PipelineStays
<1>1. CASE EndWalk
  BY <1>1, <1>p DEF FlowInv, EndWalk, Ended, frame
<1>2. CASE ChooseBatch
  <2>1. PICK S \in SUBSET ReadyNodes :
          LET skipped == {n \in S : AllAbsent(graph, edges, n)}
          IN  edges' = Skip(skipped) /\ batch' = S \ skipped
    BY <1>2 DEF ChooseBatch
  <2>2. PICK skipped \in SUBSET S :
          edges' = Skipped(graph, edges, skipped) /\ batch' = S \ skipped
    BY <2>1 DEF Skip, Skipped
  <2>3. /\ phase = "walking" /\ phase' \in {"walking", "chosen"} /\ in_progress = {}
        /\ in_progress' = {} /\ saved' = saved
    BY <1>2 DEF ChooseBatch
  <2>4. Flows(graph, edges, {})
    BY <2>3, FlowsFewer DEF FlowInv, Ended
  <2>5. \A n \in S : n \notin edges.done /\ Ready(graph, edges, n)
    BY DEF ReadyNodes
  <2>6. PICK after : after = edges'
    OBVIOUS
  <2>7. Flows(graph, after, S \ skipped)
    BY <1>g, <2>2, <2>4, <2>5, <2>6, FlowsSkip
  <2>8. batch' \union in_progress' = S \ skipped
    BY <2>2, <2>3
  <2> QED BY <1>p, <2>3, <2>6, <2>7, <2>8 DEF FlowInv
<1>3. CASE BudgetSpent
  BY <1>3, <1>p DEF FlowInv, BudgetSpent, Ended
<1>4. CASE StopBefore
  <2>1. PICK n \in batch : in_progress' = {n}
    BY <1>4 DEF StopBefore
  <2>2. /\ phase = "chosen" /\ phase' = "suspended"
        /\ saved'.in_progress = {n} /\ saved'.edges = edges
    BY <1>4, <2>1 DEF StopBefore, Frame
  <2>3. Flows(graph, edges, {n})
    BY <2>2, FlowsFewer DEF FlowInv, Ended
  <2> QED BY <1>p, <2>2, <2>3 DEF FlowInv, Ended
<1>5. ASSUME NEW nodes \in SUBSET graph.nodes, NEW stopped \in BOOLEAN,
             QueueUnits(nodes, stopped),
             NEW active, nodes \subseteq active, Flows(graph, edges, active)
      PROVE  /\ phase' = "running" /\ batch' = nodes
             /\ Flows(graph, edges', nodes) /\ nodes \subseteq edges'.done
  <2>1. PICK S \in SUBSET nodes :
          edges' = Enter(edges, S) /\ nodes \subseteq edges.done \union S
    BY <1>5 DEF QueueUnits
  <2>2. Flows(graph, edges, nodes)
    BY <1>5, FlowsFewer
  <2>3. Flows(graph, Enter(edges, S), nodes)
    BY <1>g, <2>2, FlowsEnter
  <2>4. Enter(edges, S).done = edges.done \union S
    BY <1>g DEF IsEdgeState, Enter
  <2> QED BY <1>5, <2>1, <2>3, <2>4 DEF QueueUnits
<1>6. CASE StartBatch
  <2>1. PICK nodes \in SUBSET batch : QueueUnits(nodes, FALSE)
    BY <1>6 DEF StartBatch
  <2>2. phase = "chosen" /\ in_progress = {} /\ in_progress' = {} /\ saved' = saved
    BY <1>6 DEF StartBatch, FlowInv
  <2>3. Flows(graph, edges, batch)
    BY <2>2, FlowsFewer DEF FlowInv, Ended
  <2>4. /\ phase' = "running" /\ batch' = nodes
        /\ Flows(graph, edges', nodes) /\ nodes \subseteq edges'.done
    BY <1>5, <2>1, <2>3 DEF TypeOK
  <2>5. batch' \union in_progress' = nodes
    BY <2>2, <2>4
  <2> QED BY <1>p, <2>2, <2>4, <2>5 DEF FlowInv
<1>7. CASE StartStopped
  <2>1. /\ QueueUnits(in_progress, TRUE) /\ in_progress' = {} /\ saved' = saved
        /\ phase = "walking"
    BY <1>7 DEF StartStopped
  <2>2. Flows(graph, edges, in_progress)
    BY <2>1, FlowsFewer DEF FlowInv, Ended
  <2>3. /\ phase' = "running" /\ batch' = in_progress
        /\ Flows(graph, edges', in_progress) /\ in_progress \subseteq edges'.done
    BY <1>5, <2>1, <2>2 DEF TypeOK
  <2>4. batch' \union in_progress' = in_progress
    BY <2>1, <2>3
  <2> QED BY <1>p, <2>1, <2>3, <2>4 DEF FlowInv
<1>8. CASE BatchSettled
  <2>1. /\ phase = "running" /\ batch = {} /\ UNCHANGED <<edges, in_progress>>
        /\ phase' \notin {"chosen", "running"} /\ saved' \in {saved, Frame}
        /\ batch' = {}
    BY <1>8 DEF BatchSettled, MapReturned, frame, Idle
  <2>2. Frame.edges = edges /\ Frame.in_progress = in_progress
    BY DEF Frame
  <2>3. Flows(graph, edges, in_progress)
    BY <2>1, FlowsFewer DEF FlowInv, Ended
  <2>4. saved' # NoState => Flows(graph, saved'.edges, saved'.in_progress)
    BY <2>1, <2>2, <2>3 DEF FlowInv
  <2>5. batch' \union in_progress' = in_progress
    BY <2>1
  <2> QED BY <1>p, <2>1, <2>3, <2>4, <2>5 DEF FlowInv
<1>9. ASSUME NEW n \in graph.nodes, UnitStep(n)
      PROVE  FlowInv'
  <2>1. UNCHANGED <<phase, edges, in_progress, batch, saved>>
    BY <1>9 DEF UnitStep, UnitStarts, UnitReturns, UnitRetries, UnitDiverts,
       UnitRaises, UnitSuspends, frame
  <2> QED BY <1>p, <2>1 DEF FlowInv
<1>10. ASSUME NEW n \in graph.nodes, SettleStep(n)
       PROVE  FlowInv'
  <2>1. /\ phase = "running" /\ n \in batch /\ batch' = batch \ {n} /\ saved' = saved
        /\ phase' \in {"running", "failed"} /\ unit' = unit
    <3>1. phase = "running" /\ n \in batch /\ batch' = batch \ {n}
      BY <1>10 DEF SettleStep, SettleReturned, SettleFailure, SettleDrained,
         SettleSuspended, SettleRaised, RouteRaises, Settling, MapReturned, IsFirst
    <3>2. saved' = saved /\ phase' \in {phase, "failed"} /\ unit' = unit
      BY <1>10 DEF SettleStep, SettleReturned, SettleFailure, SettleDrained,
         SettleSuspended, SettleRaised, RouteRaises
    <3> QED BY <3>1, <3>2
  <2> DEFINE active == batch \union in_progress
  <2>2. PICK nodes : nodes = active
    OBVIOUS
  <2>3. /\ Flows(graph, edges, nodes) /\ n \in nodes /\ n \in edges.done
        /\ n \notin in_progress /\ nodes \subseteq graph.nodes
        /\ batch \subseteq edges.done /\ batch \intersect in_progress = {}
    BY <2>1, <2>2 DEF FlowInv, Ended, TypeOK
  <2>4. nodes \ {n} = (batch \ {n}) \union in_progress
    BY <2>2, <2>3
  <2>5. PICK after : after = edges'
    OBVIOUS
  <2>s. ASSUME Flows(graph, after, nodes \ {n}), batch \ {n} \subseteq after.done,
               in_progress' = in_progress
        PROVE  FlowInv'
    <3>1. Flows(graph, edges', batch' \union in_progress')
      BY <2>1, <2>4, <2>5, <2>s
    <3>2. batch' \subseteq edges'.done /\ batch' \intersect in_progress' = {}
      BY <2>1, <2>3, <2>5, <2>s
    <3> QED BY <1>p, <2>1, <3>1, <3>2 DEF FlowInv
  <2>6. CASE SettleReturned(n)
    <3>1. PICK taken, kept : Returned(n, taken, kept)
      BY <2>6, ReturnedAdvances
    <3>2. /\ Flows(graph, edges', nodes \ {n})
          /\ (nodes \ {n}) \intersect edges.done \subseteq edges'.done
      BY <2>3, <3>1, FlowsReturned
    <3>3. in_progress' = in_progress
      BY <2>6 DEF SettleReturned
    <3> QED BY <2>s, <2>3, <2>4, <2>5, <3>2, <3>3
  <2>7. CASE SettleFailure(n)
    <3>1. <<n, graph.on_error[n]>> \in graph.pairs
      BY <1>g, <2>7 DEF SettleFailure, Settling, FailuresHandled, Is, IsGraph
    <3>2. /\ Resolved(Divert(graph, edges, n)) = Resolved(edges) \union OutOf(graph, {n})
          /\ Divert(graph, edges, n).done = edges.done
      BY <1>g, <3>1, DivertResolves
    <3>3. after = Divert(graph, edges, n) /\ in_progress' = in_progress
      BY <2>5, <2>7 DEF SettleFailure
    <3>4. Flows(graph, after, nodes \ {n})
      BY <2>3, <3>2, <3>3, FlowsSettle
    <3> QED BY <2>s, <2>3, <3>2, <3>3, <3>4
  <2>8. CASE SettleDrained(n)
    <3>1. after = Unenter(edges, n) /\ in_progress' = in_progress
      BY <2>5, <2>8 DEF SettleDrained
    <3>2. Flows(graph, after, nodes \ {n})
      BY <1>g, <2>3, <3>1, FlowsUnenter
    <3>3. edges.done \subseteq after.done \union {n}
      BY <1>g, <3>1, UnenterResolves
    <3> QED BY <2>s, <2>3, <3>1, <3>2, <3>3
  <2>9. CASE SettleSuspended(n)
    <3>1. edges' = edges /\ in_progress' = in_progress \union {n}
      BY <2>9 DEF SettleSuspended
    <3>2. batch' \union in_progress' = nodes
      BY <2>1, <2>2, <3>1
    <3> QED BY <1>p, <2>1, <2>3, <3>1, <3>2 DEF FlowInv
  <2>10. CASE SettleRaised(n)
    <3>1. edges' = edges /\ in_progress' = in_progress
      BY <2>10 DEF SettleRaised, frame
    <3>2. Flows(graph, after, nodes \ {n})
      BY <2>3, <2>5, <3>1, FlowsFewer
    <3> QED BY <2>s, <2>3, <2>5, <3>1, <3>2
  <2>11. CASE RouteRaises(n)
    BY <1>p, <2>11 DEF FlowInv, RouteRaises, Ended
  <2> QED BY <1>10, <2>6, <2>7, <2>8, <2>9, <2>10, <2>11 DEF SettleStep
<1>11. CASE Resume
  <2>1. /\ saved # NoState /\ saved' = saved /\ phase' = "walking" /\ edges' = saved.edges
        /\ in_progress' = saved.in_progress /\ batch' = {}
    BY <1>11 DEF Resume, Idle
  <2>2. batch' \union in_progress' = saved.in_progress
    BY <2>1
  <2> QED BY <1>p, <2>1, <2>2 DEF FlowInv
<1>12. CASE UNCHANGED vars
  BY <1>12, <1>p DEF FlowInv, vars, frame, units
<1> QED BY <1>1, <1>2, <1>3, <1>4, <1>6, <1>7, <1>8, <1>9, <1>10, <1>11, <1>12
        DEF Next, Drive, Over

\* In every run of every accepted pipeline whose loops end where the node that
\* closes them leads, and whatever the concurrent_nodes groups list, a node never
\* runs beside one whose output it is still to receive.
THEOREM ArmsRunApart == LoopsEndTogether /\ Spec => []ArmsAreIndependent
<1>1. LoopsEndTogether /\ TypeOK /\ FailuresHandled /\ OverlapInv /\ FlowInv /\ [Next]_vars
        => (TypeOK /\ FailuresHandled /\ OverlapInv /\ FlowInv)'
  BY NextType, NextFailures, NextOverlap, NextFlow
<1>2. TypeOK /\ OverlapInv /\ FlowInv => ArmsAreIndependent
  <2> SUFFICES ASSUME TypeOK, OverlapInv, FlowInv,
                      NEW m \in Is({"running"}), NEW n \in Is({"running"})
               PROVE  n \notin Downstream[pipeline][m]
    BY DEF ArmsAreIndependent
  <2>1. IsFlow(graph) /\ pipeline \in DOMAIN Pipelines
    BY AcceptedFlows DEF TypeOK, graph
  <2>2. phase = "running" /\ m \in batch /\ n \in batch /\ m \in graph.nodes
    BY DEF OverlapInv, Is
  <2>3. Flows(graph, edges, batch)
    BY <2>2, FlowsFewer DEF FlowInv, Ended
  <2>4. n \notin Reachable(Forward(graph), m)
    BY <2>1, <2>2, <2>3, ActiveApart
  <2>5. Downstream[pipeline][m] = Reachable(Forward(graph), m)
    BY <2>1, <2>2 DEF Downstream, graph, Forward
  <2> QED BY <2>4, <2>5
<1>3. LoopsEndTogether => LoopsEndTogether'
  BY DEF LoopsEndTogether
<1> QED BY InitType, InitOverlap, InitFlow, <1>1, <1>2, <1>3, PTL DEF Spec

-----------------------------------------------------------------------------
(* What the edges carry *)

\* Of an edge state, the active nodes and those that completed in this round:
\* something reached every active node, and a forward edge carries the output of
\* a node that completed.
Carries(g, e, active, completed) ==
  /\ \A n \in active : ~AllAbsent(g, e, n)
  /\ \A x \in Forward(g) : x \in e.fired => x[1] \in completed

\* What these proofs use of the back edges of a graph.
BackIsAround(g) == \A x \in g.back : x \in g.pairs /\ (x[1] # x[2] => x[1] \in Reachable(Forward(g), x[2]))

\* Nothing that reaches an active node comes out of an active node or one that
\* leads to one.
LEMMA ActiveInputs ==
  ASSUME NEW g, NEW e, NEW active, IsFlow(g), Flows(g, e, active), BackIsAround(g),
         NEW h \in active, NEW s, <<s, h>> \in e.fired, e.fired \subseteq g.pairs, s # h,
         NEW n \in active, n # h, s = n \/ n \in Reachable(Forward(g), s)
  PROVE  s # n /\ <<s, h>> \in Forward(g)
<1>1. <<s, h>> \notin g.back
  <2> SUFFICES ASSUME <<s, h>> \in g.back PROVE FALSE
    OBVIOUS
  <2>1. s \in Reachable(Forward(g), h)
    BY DEF BackIsAround
  <2>2. n \in Reachable(Forward(g), h)
    BY <2>1, ReachTransitive
  <2> QED BY <2>2, ActiveApart
<1>2. <<s, h>> \in Forward(g)
  BY <1>1 DEF Forward
<1>3. s \notin active
  BY <1>2 DEF Flows, Resolved
<1> QED BY <1>2, <1>3

\* What reaches a node of a batch is not the output of a node of the batch.
LEMMA FlowsChosen ==
  ASSUME NEW g, NEW e, NEW S, Flows(g, e, {}),
         \A n \in S : n \notin e.done /\ Ready(g, e, n)
  PROVE  Flows(g, e, S)
BY DEF Flows

LEMMA CarriesSkip ==
  ASSUME NEW g, NEW e, NEW S, NEW K \in SUBSET S, NEW completed, IsEdgeState(g, e),
         IsFlow(g), BackIsAround(g), Flows(g, e, {}), Carries(g, e, {}, completed),
         \A n \in S : n \notin e.done /\ Ready(g, e, n),
         K = {n \in S : AllAbsent(g, e, n)}
  PROVE  Carries(g, Skipped(g, e, K), S \ K, completed)
<1> DEFINE skip == Skipped(g, e, K)
<1>1. skip.fired = e.fired \ OutOf(g, K)
  BY SkipResolves
<1> HIDE DEF skip
<1>2. Flows(g, e, S)
  BY FlowsChosen
<1>3. ASSUME NEW h \in S \ K, AllAbsent(g, skip, h) PROVE FALSE
  <2>1. ~AllAbsent(g, e, h)
    BY <1>3
  <2>2. PICK s \in g.in_edges[h] : <<s, h>> \in e.fired
    BY <1>3, <2>1 DEF AllAbsent
  <2>3. <<s, h>> \notin skip.fired
    BY <1>3, <2>2 DEF AllAbsent
  <2>4. s \in K
    BY <1>1, <2>2, <2>3 DEF OutOf
  <2>5. e.fired \subseteq g.pairs /\ s # h
    BY <1>3, <2>4 DEF IsEdgeState
  <2>6. s # s
    BY <1>2, <2>2, <2>4, <2>5, ActiveInputs
  <2> QED BY <2>6
<1>4. \A x \in Forward(g) : x \in skip.fired => x[1] \in completed
  BY <1>1 DEF Carries
<1> QED BY <1>3, <1>4 DEF Carries, skip

LEMMA CarriesSettle ==
  ASSUME NEW g, NEW e, NEW active, NEW completed, IsEdgeState(g, e), IsFlow(g), BackIsAround(g),
         Flows(g, e, active), Carries(g, e, active, completed), NEW n \in active,
         NEW taken \in SUBSET OutOf(g, {n}), NEW after,
         after.fired = (e.fired \ OutOf(g, {n})) \union taken
  PROVE  Carries(g, after, active \ {n}, completed \union {n})
<1>1. ASSUME NEW h \in active \ {n}, AllAbsent(g, after, h) PROVE FALSE
  <2>1. PICK s \in g.in_edges[h] : <<s, h>> \in e.fired
    BY <1>1 DEF AllAbsent, Carries
  <2>2. <<s, h>> \notin after.fired
    BY <1>1, <2>1 DEF AllAbsent
  <2>3. s = n
    BY <2>1, <2>2 DEF OutOf
  <2>4. e.fired \subseteq g.pairs /\ s # h
    BY <1>1, <2>3 DEF IsEdgeState
  <2>5. s # n
    BY <1>1, <2>1, <2>3, <2>4, ActiveInputs
  <2> QED BY <2>3, <2>5
<1>2. \A x \in Forward(g) : x \in after.fired => x[1] \in completed \union {n}
  BY DEF Carries, OutOf
<1> QED BY <1>1, <1>2 DEF Carries

LEMMA CarriesReopen ==
  ASSUME NEW g, NEW e, NEW active, NEW completed, IsEdgeState(g, e), IsFlow(g), BackIsAround(g),
         Flows(g, e, active), Carries(g, e, active, completed),
         NEW c \in DOMAIN g.cycles, c \in active, NEW kept, kept \intersect Forward(g) = {},
         \A x \in Forward(g) :
           x[1] \in g.cycles[c].body /\ x[2] \notin g.cycles[c].body
             => x[2] \in Reachable(Forward(g), c),
         NEW taken \in SUBSET OutOf(g, {c}), NEW after,
         after.fired = ((e.fired \ OutOf(g, {c})) \union taken)
                         \ (OutOf(g, g.cycles[c].body) \ kept)
  PROVE  Carries(g, after, active \ {c}, (completed \union {c}) \ g.cycles[c].body)
<1> DEFINE body == g.cycles[c].body
<1>1. /\ active \intersect body = {c}
      /\ \A x \in Forward(g) : x[1] \in body => x[2] \notin active \ {c}
  BY ClosingAlone
<1>2. OutOf(g, {c}) \subseteq OutOf(g, body)
  BY <1>1 DEF OutOf
<1> HIDE DEF body
<1>3. ASSUME NEW h \in active \ {c}, AllAbsent(g, after, h) PROVE FALSE
  <2>1. PICK s \in g.in_edges[h] : <<s, h>> \in e.fired
    BY <1>3 DEF AllAbsent, Carries
  <2>2. <<s, h>> \notin after.fired
    BY <1>3, <2>1 DEF AllAbsent
  <2>3. s \in body
    BY <1>2, <2>1, <2>2 DEF OutOf, body
  <2>4. e.fired \subseteq g.pairs /\ s # h
    BY <1>1, <1>3, <2>3 DEF IsEdgeState
  <2>5. s = c \/ c \in Reachable(Forward(g), s)
    BY <2>3 DEF IsFlow, body
  <2>6. <<s, h>> \in Forward(g)
    BY <1>3, <2>1, <2>4, <2>5, ActiveInputs
  <2> QED BY <1>1, <1>3, <2>3, <2>6
<1>4. ASSUME NEW x \in Forward(g), x \in after.fired
      PROVE  x[1] \in (completed \union {c}) \ body
  <2>1. x \in g.pairs /\ x \notin kept
    BY <1>4 DEF Forward
  <2>2. x[1] \notin body
    BY <1>4, <2>1 DEF OutOf, body
  <2>3. x \in e.fired
    BY <1>4, <1>2, <2>1, <2>2 DEF OutOf
  <2> QED BY <1>4, <2>2, <2>3 DEF Carries
<1> QED BY <1>3, <1>4 DEF Carries, body

LEMMA CarriesFewer ==
  ASSUME NEW g, NEW e, NEW active, NEW fewer \in SUBSET active, NEW completed,
         Carries(g, e, active, completed)
  PROVE  Carries(g, e, fewer, completed)
BY DEF Carries

LEMMA CarriesSame ==
  ASSUME NEW g, NEW e, NEW active, NEW completed, Carries(g, e, active, completed),
         NEW after, after.fired = e.fired
  PROVE  Carries(g, after, active, completed)
BY DEF Carries, AllAbsent

CarryInv ==
  /\ phase \notin Ended => Carries(graph, edges, batch \union in_progress, finished)
  /\ saved # NoState => Carries(graph, saved.edges, saved.in_progress, saved.finished)

LEMMA InitCarry == Init => CarryInv
<1> SUFFICES ASSUME Init PROVE CarryInv
  OBVIOUS
<1>1. batch = {} /\ in_progress = {} /\ saved = NoState /\ edges = NewEdges(graph)
  BY DEF Init
<1>2. edges.fired = {}
  BY <1>1 DEF NewEdges
<1> QED BY <1>1, <1>2 DEF CarryInv, Carries

\* A node that goes back along no edge adds itself to what completed; one that
\* goes back takes no more than its cycle out of it.
LEMMA FollowCompletes ==
  ASSUME TypeOK, BackIsAround(graph), NEW n, NEW taken \in SUBSET OutOf(graph, {n}),
         Follow(n, {x[2] : x \in taken})
  PROVE  /\ (n \in DOMAIN graph.cycles => taken \intersect graph.back = {})
              => finished' = finished \union {n}
         /\ (n \in DOMAIN graph.cycles /\ taken \intersect graph.back # {})
              => finished' = (finished \union {n}) \ graph.cycles[n].body
<1>g. IsFlow(graph)
  BY AcceptedFlows DEF TypeOK, graph
<1> DEFINE targets == {x[2] : x \in taken}
<1>1. ASSUME n \in DOMAIN graph.cycles, NEW t
      PROVE  t \in targets \intersect graph.cycles[n].back <=> <<n, t>> \in taken \intersect graph.back
  <2>1. \A x \in taken : x = <<n, x[2]>>
    BY <1>g DEF OutOf, IsFlow
  <2>2. \A y \in graph.back : y = <<y[1], y[2]>>
    BY <1>g DEF IsFlow, BackIsAround
  <2>3. graph.cycles[n].back = {e[2] : e \in {x \in graph.back : x[1] = n}}
    BY <1>1, <1>g DEF IsFlow
  <2>4. t \in graph.cycles[n].back <=> <<n, t>> \in graph.back
    <3>1. ASSUME t \in graph.cycles[n].back PROVE <<n, t>> \in graph.back
      BY <3>1, <2>2, <2>3
    <3>2. ASSUME <<n, t>> \in graph.back PROVE t \in graph.cycles[n].back
      <4>1. <<n, t>> \in {x \in graph.back : x[1] = n} /\ <<n, t>>[2] = t
        BY <3>2
      <4> QED BY <4>1, <2>3
    <3> QED BY <3>1, <3>2
  <2>5. t \in targets <=> <<n, t>> \in taken
    <3>1. ASSUME <<n, t>> \in taken PROVE t \in targets
      <4>1. <<n, t>>[2] = t
        OBVIOUS
      <4> QED BY <3>1, <4>1
    <3> QED BY <2>1, <3>1
  <2> QED BY <2>4, <2>5
<1>2. \A x \in taken \intersect graph.back : x = <<n, x[2]>>
  BY <1>g DEF OutOf, IsFlow
<1>3. finished' = (finished \union {n}) \
        (IF n \in DOMAIN graph.cycles /\ targets \intersect graph.cycles[n].back # {}
         THEN graph.cycles[n].body ELSE {})
  BY DEF Follow
<1> HIDE DEF targets
<1>4. ASSUME n \in DOMAIN graph.cycles
      PROVE  targets \intersect graph.cycles[n].back = {} <=> taken \intersect graph.back = {}
  BY <1>1, <1>2, <1>4
<1> QED BY <1>3, <1>4

LEMMA NextCarry ==
  LoopsEndTogether /\ BackEdgesCloseCycles /\ TypeOK /\ FailuresHandled /\ FlowInv /\ CarryInv
    /\ [Next]_vars => CarryInv'
<1> SUFFICES ASSUME LoopsEndTogether, BackEdgesCloseCycles, TypeOK, FailuresHandled,
                    FlowInv, CarryInv, [Next]_vars
             PROVE  CarryInv'
  OBVIOUS
<1>g. IsGraph(graph) /\ IsFlow(graph) /\ IsEdgeState(graph, edges)
  BY AcceptedIsGraph, AcceptedFlows DEF TypeOK, graph
<1>b. BackIsAround(graph) /\ \A n \in DOMAIN graph.on_error : <<n, graph.on_error[n]>> \notin graph.back
  BY DEF BackEdgesCloseCycles, BackIsAround, TypeOK, graph
<1>p. pipeline' = pipeline /\ graph' = graph /\ decl' = decl
  BY PipelineStays
<1>1. CASE EndWalk
  BY <1>1, <1>p DEF CarryInv, EndWalk, Ended, frame
<1>2. CASE ChooseBatch
  <2>1. PICK S \in SUBSET ReadyNodes :
          LET skipped == {n \in S : AllAbsent(graph, edges, n)}
          IN  edges' = Skip(skipped) /\ batch' = S \ skipped
    BY <1>2 DEF ChooseBatch
  <2>2. PICK skipped \in SUBSET S :
          /\ skipped = {n \in S : AllAbsent(graph, edges, n)}
          /\ edges' = Skipped(graph, edges, skipped) /\ batch' = S \ skipped
    BY <2>1 DEF Skip, Skipped
  <2>3. /\ phase = "walking" /\ phase' \in {"walking", "chosen"} /\ in_progress = {}
        /\ in_progress' = {} /\ saved' = saved /\ finished' = finished
    BY <1>2 DEF ChooseBatch, history
  <2>4. Flows(graph, edges, {}) /\ Carries(graph, edges, {}, finished)
    BY <2>3, FlowsFewer, CarriesFewer DEF FlowInv, CarryInv, Ended
  <2>5. \A n \in S : n \notin edges.done /\ Ready(graph, edges, n)
    BY DEF ReadyNodes
  <2>6. PICK after : after = edges'
    OBVIOUS
  <2>7. Carries(graph, after, S \ skipped, finished)
    BY <1>g, <1>b, <2>2, <2>4, <2>5, <2>6, CarriesSkip
  <2>8. batch' \union in_progress' = S \ skipped
    BY <2>2, <2>3
  <2> QED BY <1>p, <2>3, <2>6, <2>7, <2>8 DEF CarryInv
<1>3. CASE BudgetSpent
  BY <1>3, <1>p DEF CarryInv, BudgetSpent, Ended
<1>4. CASE StopBefore
  <2>1. PICK n \in batch : in_progress' = {n}
    BY <1>4 DEF StopBefore
  <2>2. /\ phase = "chosen" /\ phase' = "suspended"
        /\ saved'.in_progress = {n} /\ saved'.edges = edges /\ saved'.finished = finished
    BY <1>4, <2>1 DEF StopBefore, Frame
  <2>3. Carries(graph, edges, {n}, finished)
    BY <2>2, CarriesFewer DEF CarryInv, Ended
  <2> QED BY <1>p, <2>2, <2>3 DEF CarryInv, Ended
<1>5. ASSUME NEW nodes \in SUBSET graph.nodes, NEW stopped \in BOOLEAN,
             QueueUnits(nodes, stopped),
             NEW active, nodes \subseteq active, Carries(graph, edges, active, finished)
      PROVE  /\ phase' = "running" /\ batch' = nodes
             /\ Carries(graph, edges', nodes, finished)
  <2>1. PICK S : edges' = Enter(edges, S)
    BY <1>5 DEF QueueUnits
  <2>2. Carries(graph, edges, nodes, finished)
    BY <1>5, CarriesFewer
  <2>3. Enter(edges, S).fired = edges.fired
    BY <1>g DEF IsEdgeState, Enter
  <2>4. Carries(graph, Enter(edges, S), nodes, finished)
    BY <2>2, <2>3, CarriesSame
  <2> QED BY <1>5, <2>1, <2>4 DEF QueueUnits
<1>6. CASE StartBatch
  <2>1. PICK nodes \in SUBSET batch : QueueUnits(nodes, FALSE)
    BY <1>6 DEF StartBatch
  <2>2. /\ phase = "chosen" /\ in_progress = {} /\ in_progress' = {} /\ saved' = saved
        /\ finished' = finished
    BY <1>6 DEF StartBatch, FlowInv, history
  <2>3. Carries(graph, edges, batch, finished)
    BY <2>2, CarriesFewer DEF CarryInv, Ended
  <2>4. phase' = "running" /\ batch' = nodes /\ Carries(graph, edges', nodes, finished)
    BY <1>5, <2>1, <2>3 DEF TypeOK
  <2>5. batch' \union in_progress' = nodes
    BY <2>2, <2>4
  <2> QED BY <1>p, <2>2, <2>4, <2>5 DEF CarryInv
<1>7. CASE StartStopped
  <2>1. /\ QueueUnits(in_progress, TRUE) /\ in_progress' = {} /\ saved' = saved
        /\ phase = "walking" /\ finished' = finished
    BY <1>7 DEF StartStopped, history
  <2>2. Carries(graph, edges, in_progress, finished)
    BY <2>1, CarriesFewer DEF CarryInv, Ended
  <2>3. /\ phase' = "running" /\ batch' = in_progress
        /\ Carries(graph, edges', in_progress, finished)
    BY <1>5, <2>1, <2>2 DEF TypeOK
  <2>4. batch' \union in_progress' = in_progress
    BY <2>1, <2>3
  <2> QED BY <1>p, <2>1, <2>3, <2>4 DEF CarryInv
<1>8. CASE BatchSettled
  <2>1. /\ phase = "running" /\ batch = {} /\ UNCHANGED <<edges, in_progress, finished>>
        /\ saved' \in {saved, Frame} /\ batch' = {}
    BY <1>8 DEF BatchSettled, MapReturned, frame, history, Idle
  <2>2. Frame.edges = edges /\ Frame.in_progress = in_progress /\ Frame.finished = finished
    BY DEF Frame
  <2>3. Carries(graph, edges, in_progress, finished)
    BY <2>1, CarriesFewer DEF CarryInv, Ended
  <2>4. saved' # NoState => Carries(graph, saved'.edges, saved'.in_progress, saved'.finished)
    BY <2>1, <2>2, <2>3 DEF CarryInv
  <2>5. batch' \union in_progress' = in_progress
    BY <2>1
  <2> QED BY <1>p, <2>1, <2>3, <2>4, <2>5 DEF CarryInv
<1>9. ASSUME NEW n \in graph.nodes, UnitStep(n)
      PROVE  CarryInv'
  <2>1. UNCHANGED <<phase, edges, in_progress, batch, saved, finished>>
    BY <1>9 DEF UnitStep, UnitStarts, UnitReturns, UnitRetries, UnitDiverts,
       UnitRaises, UnitSuspends, frame, history
  <2> QED BY <1>p, <2>1 DEF CarryInv
<1>10. ASSUME NEW n \in graph.nodes, SettleStep(n)
       PROVE  CarryInv'
  <2>1. /\ phase = "running" /\ n \in batch /\ batch' = batch \ {n} /\ saved' = saved
        /\ phase' \in {"running", "failed"} /\ unit' = unit
    <3>1. phase = "running" /\ n \in batch /\ batch' = batch \ {n}
      BY <1>10 DEF SettleStep, SettleReturned, SettleFailure, SettleDrained,
         SettleSuspended, SettleRaised, RouteRaises, Settling, MapReturned, IsFirst
    <3>2. saved' = saved /\ phase' \in {phase, "failed"} /\ unit' = unit
      BY <1>10 DEF SettleStep, SettleReturned, SettleFailure, SettleDrained,
         SettleSuspended, SettleRaised, RouteRaises
    <3> QED BY <3>1, <3>2
  <2>2. PICK nodes : nodes = batch \union in_progress
    OBVIOUS
  <2>3. /\ Flows(graph, edges, nodes) /\ Carries(graph, edges, nodes, finished)
        /\ n \in nodes /\ n \notin in_progress
    BY <2>1, <2>2 DEF FlowInv, CarryInv, Ended
  <2>4. nodes \ {n} = (batch \ {n}) \union in_progress
    BY <2>2, <2>3
  <2>5. PICK after : after = edges'
    OBVIOUS
  <2>s. ASSUME Carries(graph, after, nodes \ {n}, finished'), in_progress' = in_progress
        PROVE  CarryInv'
    <3>1. Carries(graph, edges', batch' \union in_progress', finished')
      BY <2>1, <2>4, <2>5, <2>s
    <3> QED BY <1>p, <2>1, <3>1 DEF CarryInv
  <2>6. CASE SettleReturned(n)
    <3>1. PICK taken, kept : Returned(n, taken, kept)
      BY <2>6, ReturnedAdvances
    <3>2. taken \subseteq OutOf(graph, {n}) /\ Follow(n, {x[2] : x \in taken})
      BY <3>1 DEF Returned
    <3>3. CASE /\ n \in DOMAIN graph.cycles => taken \intersect graph.back = {}
               /\ Advanced(graph, edges, n, taken, edges')
      <4>1. finished' = finished \union {n}
        BY <1>b, <3>2, <3>3, FollowCompletes
      <4>2. after.fired = (edges.fired \ OutOf(graph, {n})) \union taken
        BY <2>5, <3>3 DEF Advanced
      <4>3. Carries(graph, after, nodes \ {n}, finished \union {n})
        BY <1>g, <1>b, <2>3, <3>2, <4>2, CarriesSettle
      <4> QED BY <2>s, <2>6, <4>1, <4>3 DEF SettleReturned
    <3>4. CASE /\ n \in DOMAIN graph.cycles /\ taken \intersect graph.back # {}
               /\ kept \subseteq taken \intersect graph.back
               /\ WentBack(graph, edges, n, taken, kept, edges')
      <4>1. finished' = (finished \union {n}) \ graph.cycles[n].body
        BY <1>b, <3>2, <3>4, FollowCompletes
      <4>2. after.fired = ((edges.fired \ OutOf(graph, {n})) \union taken)
                            \ (OutOf(graph, graph.cycles[n].body) \ kept)
        BY <2>5, <3>4 DEF WentBack
      <4>3. kept \intersect Forward(graph) = {}
        BY <3>4 DEF Forward
      <4>4. \A x \in Forward(graph) :
              x[1] \in graph.cycles[n].body /\ x[2] \notin graph.cycles[n].body
                => x[2] \in Reachable(Forward(graph), n)
        BY <3>4 DEF LoopsEndTogether, TypeOK, graph
      <4>5. Carries(graph, after, nodes \ {n}, (finished \union {n}) \ graph.cycles[n].body)
        BY <1>g, <1>b, <2>3, <3>2, <3>4, <4>2, <4>3, <4>4, CarriesReopen
      <4> QED BY <2>s, <2>6, <4>1, <4>5 DEF SettleReturned
    <3> QED BY <3>1, <3>3, <3>4 DEF Returned
  <2>7. CASE SettleFailure(n)
    <3>1. PICK taken : taken = {<<n, graph.on_error[n]>>}
      OBVIOUS
    <3>2. n \in DOMAIN graph.on_error /\ taken \subseteq graph.pairs
      BY <1>g, <2>7, <3>1 DEF SettleFailure, Settling, FailuresHandled, Is, IsGraph
    <3>3. taken \subseteq OutOf(graph, {n}) /\ taken \intersect graph.back = {}
      BY <1>b, <3>1, <3>2 DEF OutOf
    <3>4. {graph.on_error[n]} = {x[2] : x \in taken}
      BY <3>1
    <3>5. finished' = finished \union {n}
      BY <1>b, <2>7, <3>3, <3>4, FollowCompletes DEF SettleFailure
    <3>6. Divert(graph, edges, n).fired = (edges.fired \ OutOf(graph, {n})) \union taken
      BY <1>g, <3>1, <3>2, DivertResolves
    <3>7. after = Divert(graph, edges, n) /\ in_progress' = in_progress
      BY <2>5, <2>7 DEF SettleFailure
    <3>8. Carries(graph, after, nodes \ {n}, finished \union {n})
      BY <1>g, <1>b, <2>3, <3>3, <3>6, <3>7, CarriesSettle
    <3> QED BY <2>s, <3>5, <3>7, <3>8
  <2>8. CASE SettleDrained(n)
    <3>1. after = Unenter(edges, n) /\ in_progress' = in_progress /\ finished' = finished
      BY <2>5, <2>8 DEF SettleDrained, history
    <3>2. after.fired = edges.fired
      BY <1>g, <3>1, UnenterResolves
    <3>3. Carries(graph, after, nodes, finished)
      BY <2>3, <3>2, CarriesSame
    <3> QED BY <2>s, <3>1, <3>3, CarriesFewer
  <2>9. CASE SettleSuspended(n)
    <3>1. edges' = edges /\ in_progress' = in_progress \union {n} /\ finished' = finished
      BY <2>9 DEF SettleSuspended, history
    <3>2. batch' \union in_progress' = nodes
      BY <2>1, <2>2, <3>1
    <3> QED BY <1>p, <2>1, <2>3, <3>1, <3>2 DEF CarryInv
  <2>10. CASE SettleRaised(n)
    <3>1. edges' = edges /\ in_progress' = in_progress /\ finished' = finished
      BY <2>10 DEF SettleRaised, frame, history
    <3>2. Carries(graph, after, nodes \ {n}, finished)
      BY <2>3, <2>5, <3>1, CarriesFewer
    <3> QED BY <2>s, <3>1, <3>2
  <2>11. CASE RouteRaises(n)
    BY <1>p, <2>11 DEF CarryInv, RouteRaises, Ended
  <2> QED BY <1>10, <2>6, <2>7, <2>8, <2>9, <2>10, <2>11 DEF SettleStep
<1>11. CASE Resume
  <2>1. /\ saved # NoState /\ saved' = saved /\ phase' = "walking" /\ edges' = saved.edges
        /\ in_progress' = saved.in_progress /\ batch' = {} /\ finished' = saved.finished
    BY <1>11 DEF Resume, Idle
  <2>2. batch' \union in_progress' = saved.in_progress
    BY <2>1
  <2> QED BY <1>p, <2>1, <2>2 DEF CarryInv
<1>12. CASE UNCHANGED vars
  BY <1>12, <1>p DEF CarryInv, vars, frame, units, history
<1> QED BY <1>1, <1>2, <1>3, <1>4, <1>6, <1>7, <1>8, <1>9, <1>10, <1>11, <1>12
        DEF Next, Drive, Over

\* In every run of every accepted pipeline whose loops end where the node that
\* closes them leads and whose back edges each close a cycle, a node runs once
\* all its forward in-edges have resolved and one of its in-edges carries a value,
\* and what they carry is the output of a node that completed in this round.
THEOREM InputsAreThisRounds ==
  LoopsEndTogether /\ BackEdgesCloseCycles /\ Spec => []InputsSettled
<1> DEFINE Hyp == LoopsEndTogether /\ BackEdgesCloseCycles
           All == TypeOK /\ FailuresHandled /\ OverlapInv /\ FlowInv /\ CarryInv
<1>1. Hyp /\ All /\ [Next]_vars => All'
  BY NextType, NextFailures, NextOverlap, NextFlow, NextCarry
<1>2. All => InputsSettled
  <2> SUFFICES ASSUME All, NEW n \in Is({"running"})
               PROVE  /\ Ready(graph, edges, n) /\ ~AllAbsent(graph, edges, n)
                      /\ \A s \in graph.in_edges[n] :
                           <<s, n>> \in edges.fired \ graph.back => s \in finished
    BY DEF InputsSettled
  <2>1. phase = "running" /\ n \in batch
    BY DEF OverlapInv, Is
  <2>2. /\ Flows(graph, edges, batch \union in_progress)
        /\ Carries(graph, edges, batch \union in_progress, finished)
    BY <2>1 DEF FlowInv, CarryInv, Ended
  <2>3. edges.fired \subseteq graph.pairs
    BY DEF TypeOK, IsEdgeState
  <2>4. Ready(graph, edges, n) /\ ~AllAbsent(graph, edges, n)
    BY <2>1, <2>2 DEF Flows, Carries
  <2>5. ASSUME NEW s \in graph.in_edges[n], <<s, n>> \in edges.fired \ graph.back
        PROVE  s \in finished
    BY <2>2, <2>3, <2>5 DEF Carries, Forward
  <2> QED BY <2>4, <2>5
<1>3. Hyp => Hyp'
  BY DEF LoopsEndTogether, BackEdgesCloseCycles
<1>4. Init => All
  BY InitType, InitOverlap, InitFlow, InitCarry
<1> HIDE DEF All, Hyp
<1>5. Hyp /\ Spec => []InputsSettled
  BY <1>1, <1>2, <1>3, <1>4, PTL DEF Spec
<1> QED BY <1>5 DEF Hyp
=============================================================================
