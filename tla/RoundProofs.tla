---------------------------- MODULE RoundProofs -----------------------------
(***************************************************************************)
(* The count that bounds a loop is the number of its rounds, and a loop    *)
(* goes round no more often than it says, for every accepted pipeline      *)
(* whose loops nest like those of a program text. And the walk comes to no *)
(* end without the output the run returns, where nodes lead on and those   *)
(* that stop stand apart.                                                  *)
(***************************************************************************)
EXTENDS WalkProofs, FiniteSetTheorems

(* The innermost cycle *)

LEMMA LeastNatural ==
  ASSUME NEW T \in SUBSET Nat, T # {}
  PROVE  \E m \in T : \A k \in T : m <= k
<1>1. PICK m \in T : \A k \in T : <<k, m>> \notin OpToRel(<, Nat)
  BY NatLessThanWellFounded, WFMin, Zenon
<1>2. \A k \in T : ~(k < m)
  BY <1>1 DEF OpToRel
<1>3. \A k \in T : m <= k
  BY <1>2
<1> QED BY <1>3

LEMMA NodesFinite ==
  ASSUME NEW d, Accepted(d)
  PROVE  IsFiniteSet(Nodes(d)) /\ \A n \in Nodes(d) : Order(d, n) \in Nat
<1>1. d.nodes \in Seq(ToSet(d.nodes))
  BY DEF Accepted, IsDeclaration
<1>2. PICK k \in Nat : DOMAIN d.nodes = 1 .. k
  BY <1>1
<1>3. PICK f : f = d.nodes
  OBVIOUS
<1>4. f \in Surjection(1 .. k, Nodes(d))
  BY <1>1, <1>2, <1>3 DEF Surjection, Nodes, ToSet
<1>5. IsFiniteSet(1 .. k)
  BY FS_Interval
<1>6. IsFiniteSet(Nodes(d))
  BY <1>4, <1>5, FS_Surjection
<1>7. ASSUME NEW n \in Nodes(d) PROVE Order(d, n) \in Nat
  <2>1. Order(d, n) \in DOMAIN d.nodes
    BY DEF Nodes, Order, ToSet
  <2> QED BY <2>1, <1>2
<1> QED BY <1>6, <1>7

\* The innermost cycle around a node of some cycle is one that holds it.
LEMMA InnermostHolds ==
  ASSUME NEW d, Accepted(d), NEW cycles, DOMAIN cycles \subseteq Nodes(d),
         \A c \in DOMAIN cycles : cycles[c].body \subseteq Nodes(d),
         NEW n, NEW c0 \in DOMAIN cycles, n \in cycles[c0].body
  PROVE  /\ InnermostAround(d, cycles, n) \in DOMAIN cycles
         /\ n \in cycles[InnermostAround(d, cycles, n)].body
<1> DEFINE holding == {c \in DOMAIN cycles : n \in cycles[c].body}
           size(c) == Cardinality(cycles[c].body)
           least(c) == \A o \in holding \ {c} :
                         \/ size(c) < size(o)
                         \/ size(c) = size(o) /\ Order(d, c) < Order(d, o)
<1>1. \A c \in holding : size(c) \in Nat /\ Order(d, c) \in Nat
  BY NodesFinite, FS_Subset, FS_CardinalityType
<1>2. \A c, o \in holding : c # o => Order(d, c) # Order(d, o)
  BY DEF Order, Nodes, ToSet
<1> HIDE DEF size
<1>3. PICK a \in holding : \A o \in holding : size(a) <= size(o)
  <2> DEFINE T == {size(c) : c \in holding}
  <2>1. T \in SUBSET Nat /\ T # {}
    BY <1>1
  <2>2. PICK m \in T : \A k \in T : m <= k
    BY <2>1, LeastNatural
  <2> QED BY <2>2
<1>4. PICK b \in holding : /\ size(b) = size(a)
                         /\ \A o \in holding : size(o) = size(a) => Order(d, b) <= Order(d, o)
  <2> DEFINE T == {Order(d, c) : c \in {x \in holding : size(x) = size(a)}}
  <2>1. T \in SUBSET Nat /\ T # {}
    BY <1>1, <1>3
  <2>2. PICK m \in T : \A k \in T : m <= k
    BY <2>1, LeastNatural
  <2> QED BY <2>2
<1>5. least(b)
  <2> SUFFICES ASSUME NEW o \in holding \ {b}
               PROVE  \/ size(b) < size(o)
                      \/ size(b) = size(o) /\ Order(d, b) < Order(d, o)
    OBVIOUS
  <2>1. size(b) \in Nat /\ size(o) \in Nat /\ Order(d, b) \in Nat /\ Order(d, o) \in Nat
    BY <1>1
  <2>2. size(b) <= size(o)
    BY <1>3, <1>4
  <2>3. CASE size(o) = size(a)
    <3>1. Order(d, b) <= Order(d, o) /\ Order(d, b) # Order(d, o)
      BY <1>2, <1>4, <2>3
    <3> QED BY <1>4, <2>1, <2>3, <3>1
  <2>4. CASE size(o) # size(a)
    BY <1>4, <2>1, <2>2, <2>4
  <2> QED BY <2>3, <2>4
<1>6. InnermostAround(d, cycles, n) = CHOOSE c \in holding : least(c)
  BY DEF InnermostAround, size
<1> HIDE DEF holding, least
<1>7. InnermostAround(d, cycles, n) \in holding
  BY <1>5, <1>6
<1> QED BY <1>7 DEF holding

-----------------------------------------------------------------------------
(* The graph of natural loops *)

\* What these proofs use of such a graph, besides IsFlow.
IsNatural(g) ==
  /\ \A n \in g.nodes : n \notin Reachable(Forward(g), n)
  /\ \A x \in Forward(g) : x[2] # g.entry
  /\ \A n \in g.nodes \ {g.entry} : g.in_edges[n] # {}
  /\ \A x \in g.back : x[1] \in DOMAIN g.cycles /\ x[2] = HeadOf(g, x[1])
  /\ \A c \in DOMAIN g.cycles :
       /\ g.cycles[c].body \subseteq g.nodes
       /\ HeadOf(g, c) \in g.cycles[c].body /\ <<c, HeadOf(g, c)>> \in g.back
       /\ \A m \in g.cycles[c].body : m # HeadOf(g, c) => m \in Reachable(Forward(g), HeadOf(g, c))
       /\ \A x \in g.pairs : x[1] \notin g.cycles[c].body /\ x[2] \in g.cycles[c].body
                               => x[2] = HeadOf(g, c)
       /\ \A n \in DOMAIN g.on_error : g.on_error[n] \in g.cycles[c].body => n \in g.cycles[c].body
       /\ g.cycles[c].then \notin g.cycles[c].body
       /\ g.cycles[c].max_iterations \in Nat \ {0}
       /\ g.cycles[c].body \subseteq DOMAIN g.around
       /\ g.around[HeadOf(g, c)] = c
  /\ \A t \in DOMAIN g.around :
       g.around[t] \in DOMAIN g.cycles /\ t \in g.cycles[g.around[t]].body
  /\ \A c, o \in DOMAIN g.cycles :
       \/ g.cycles[c].body \intersect g.cycles[o].body = {}
       \/ g.cycles[c].body \subseteq g.cycles[o].body
       \/ g.cycles[o].body \subseteq g.cycles[c].body

\* The body of a cycle lies between its head and the node that closes it.
LEMMA BodyBetween ==
  ASSUME NEW E, NEW h, NEW c, c = h \/ c \in Reachable(E, h)
  PROVE  /\ h \in Body(E, {h}, c)
         /\ \A m \in Body(E, {h}, c) : m # h => m \in Reachable(E, h)
BY DEF Body

LEMMA NaturalGraphs ==
  ASSUME NaturalLoops, BackEdgesCloseCycles, NEW p \in DOMAIN Pipelines
  PROVE  IsNatural(Graphs[p])
<1> DEFINE d == Pipelines[p]
           g == Graphs[p]
<1>1. Accepted(d) /\ IsFlow(g)
  BY PipelinesAssumption, AcceptedFlows
<1>2. /\ g.nodes = Nodes(d) /\ g.pairs = Pairs(Edges(d)) /\ g.back = BackEdges(d)
      /\ g.cycles = Cycles(d) /\ g.entry = Entry(d) /\ g.on_error = d.on_error
      /\ g.around = [n \in UNION {Cycles(d)[c].body : c \in DOMAIN Cycles(d)} |->
                       InnermostAround(d, Cycles(d), n)]
  BY DEF Graphs, GraphOf, GraphWith
<1>3. /\ \A n \in g.nodes : n \notin Reachable(Forward(g), n)
      /\ \A x \in Forward(g) : x[2] # g.entry
      /\ \A c \in DOMAIN g.cycles :
           /\ g.cycles[c].back = {HeadOf(g, c)}
           /\ g.around[HeadOf(g, c)] = c
           /\ \A x \in g.pairs : x[1] \notin g.cycles[c].body /\ x[2] \in g.cycles[c].body
                                   => x[2] = HeadOf(g, c)
           /\ \A n \in DOMAIN g.on_error :
                g.on_error[n] \in g.cycles[c].body => n \in g.cycles[c].body
      /\ \A c, o \in DOMAIN g.cycles :
           \/ g.cycles[c].body \intersect g.cycles[o].body = {}
           \/ g.cycles[c].body \subseteq g.cycles[o].body
           \/ g.cycles[o].body \subseteq g.cycles[c].body
  BY DEF NaturalLoops, LoopsAreNatural, RoundsEnd
<1>4. BackIsAround(g)
  BY DEF BackEdgesCloseCycles, BackIsAround
<1>5. ASSUME NEW n \in g.nodes \ {g.entry} PROVE g.in_edges[n] # {}
  <2>1. n \in Reachable(g.pairs, g.entry)
    BY <1>1, <1>2, <1>5 DEF Accepted, AllReached
  <2>2. PICK x \in g.pairs : x[2] = n
    BY <2>1 DEF Reachable
  <2>3. x[1] \in g.nodes /\ <<x[1], n>> \in g.pairs
    BY <1>1, <2>2 DEF IsFlow
  <2> QED BY <1>1, <1>5, <2>3 DEF IsFlow
<1>6. ASSUME NEW x \in g.back
      PROVE  x[1] \in DOMAIN g.cycles /\ x[2] = HeadOf(g, x[1])
  <2>1. x[1] \in DOMAIN g.cycles
    BY <1>1, <1>2, <1>6 DEF Accepted, CyclesBounded, LoopsCloseSomething
  <2>2. x[2] \in g.cycles[x[1]].back
    BY <1>1, <1>6, <2>1 DEF IsFlow
  <2> QED BY <1>3, <2>1, <2>2
<1>7. ASSUME NEW c \in DOMAIN g.cycles
      PROVE  /\ g.cycles[c].body \subseteq g.nodes
             /\ HeadOf(g, c) \in g.cycles[c].body /\ <<c, HeadOf(g, c)>> \in g.back
             /\ \A m \in g.cycles[c].body :
                  m # HeadOf(g, c) => m \in Reachable(Forward(g), HeadOf(g, c))
             /\ g.cycles[c].then \notin g.cycles[c].body
             /\ g.cycles[c].max_iterations \in Nat \ {0}
  <2>1. PICK h : h = HeadOf(g, c)
    OBVIOUS
  <2>2. g.cycles[c].back = {h}
    BY <1>3, <1>7, <2>1
  <2>3. <<c, h>> \in g.back /\ <<c, h>> \in g.pairs
    <3>1. PICK x \in g.back : x[1] = c /\ x[2] = h
      BY <1>1, <1>7, <2>2 DEF IsFlow
    <3>2. x \in g.pairs /\ x = <<x[1], x[2]>>
      BY <1>1, <1>4, <3>1 DEF BackIsAround, IsFlow
    <3> QED BY <3>1, <3>2
  <2>4. c \in g.nodes /\ h \in g.nodes
    BY <1>1, <2>3 DEF IsFlow
  <2>5. /\ g.cycles[c].body = Body(Forward(g), {h}, c)
        /\ g.cycles[c].then = d.loop[c].then
        /\ g.cycles[c].max_iterations = d.loop[c].max_iterations
        /\ c \in DOMAIN d.loop
    <3>1. c \in DOMAIN Cycles(d)
      BY <1>2, <1>7
    <3>2. Forward(g) = Pairs(Edges(d)) \ BackEdges(d)
      BY <1>2 DEF Forward
    <3>3. /\ Cycles(d)[c].body = Body(Pairs(Edges(d)) \ BackEdges(d), Cycles(d)[c].back, c)
          /\ Cycles(d)[c].then = d.loop[c].then
          /\ Cycles(d)[c].max_iterations = d.loop[c].max_iterations
          /\ c \in DOMAIN d.loop
      <4> HIDE DEF d
      <4> QED BY <3>1 DEF Cycles, CyclesClosed
    <3> QED BY <1>2, <2>2, <3>2, <3>3
  <2>6. c = h \/ c \in Reachable(Forward(g), h)
    BY <1>4, <2>3 DEF BackIsAround
  <2>7. /\ h \in g.cycles[c].body
        /\ \A m \in g.cycles[c].body : m # h => m \in Reachable(Forward(g), h)
    BY <2>5, <2>6, BodyBetween
  <2>8. \A m \in Reachable(Forward(g), h) : m \in g.nodes
    <3>1. \A x \in Forward(g) : x[2] \in g.nodes
      BY <1>1 DEF Forward, IsFlow
    <3> QED BY <3>1 DEF Reachable
  <2>9. d.loop[c].then \notin g.cycles[c].body /\ d.loop[c].max_iterations \in Nat \ {0}
    BY <1>1, <1>2, <1>7, <2>5 DEF Accepted, ThenLeavesTheCycle, LoopsGoRound
  <2> QED BY <2>1, <2>3, <2>4, <2>5, <2>7, <2>8, <2>9
<1>8. DOMAIN g.around = UNION {g.cycles[c].body : c \in DOMAIN g.cycles}
  BY <1>2
<1>9. ASSUME NEW t \in DOMAIN g.around
      PROVE  g.around[t] \in DOMAIN g.cycles /\ t \in g.cycles[g.around[t]].body
  <2>1. PICK c0 \in DOMAIN Cycles(d) : t \in Cycles(d)[c0].body
    BY <1>2, <1>8, <1>9
  <2>2. DOMAIN Cycles(d) \subseteq Nodes(d)
    <3>1. \A c \in DOMAIN g.cycles : c \in g.cycles[c].body
      BY <1>1 DEF IsFlow
    <3>2. \A c \in DOMAIN g.cycles : c \in g.nodes
      BY <1>7, <3>1
    <3> QED BY <1>2, <3>2
  <2>3. \A c \in DOMAIN Cycles(d) : Cycles(d)[c].body \subseteq Nodes(d)
    BY <1>2, <1>7
  <2>4. /\ InnermostAround(d, Cycles(d), t) \in DOMAIN Cycles(d)
        /\ t \in Cycles(d)[InnermostAround(d, Cycles(d), t)].body
    BY <1>1, <2>1, <2>2, <2>3, InnermostHolds
  <2>5. g.around[t] = InnermostAround(d, Cycles(d), t)
    BY <1>2, <1>9
  <2> QED BY <1>2, <2>4, <2>5
<1>10. \A c \in DOMAIN g.cycles : g.cycles[c].body \subseteq DOMAIN g.around
  BY <1>8
<1> HIDE DEF g
<1> QED BY <1>3, <1>5, <1>6, <1>7, <1>9, <1>10 DEF IsNatural, g

\* No forward edge leads from a cycle back to its head.
LEMMA NoWayBack ==
  ASSUME NEW g, IsNatural(g), IsFlow(g), NEW c \in DOMAIN g.cycles,
         NEW x \in Forward(g), x[2] = HeadOf(g, c)
  PROVE  x[1] \notin g.cycles[c].body
<1> SUFFICES ASSUME x[1] \in g.cycles[c].body PROVE FALSE
  OBVIOUS
<1>1. PICK h : h = HeadOf(g, c)
  OBVIOUS
<1>2. x = <<x[1], h>> /\ h \in g.nodes
  BY <1>1 DEF IsFlow, Forward
<1>3. h \in Reachable(Forward(g), x[1])
  BY <1>2, ReachEdge
<1>4. x[1] = h \/ x[1] \in Reachable(Forward(g), h)
  BY <1>1 DEF IsNatural
<1>5. h \in Reachable(Forward(g), h)
  BY <1>3, <1>4, ReachTransitive
<1> QED BY <1>2, <1>5 DEF IsNatural

\* Two nodes that close cycles around each other are one.
LEMMA SameCloser ==
  ASSUME NEW g, IsNatural(g), IsFlow(g), NEW c \in DOMAIN g.cycles, NEW o \in DOMAIN g.cycles,
         c \in g.cycles[o].body, o \in g.cycles[c].body
  PROVE  c = o
<1> SUFFICES ASSUME c # o PROVE FALSE
  OBVIOUS
<1>1. o \in Reachable(Forward(g), c) /\ c \in Reachable(Forward(g), o)
  BY DEF IsFlow
<1>2. c \in Reachable(Forward(g), c)
  BY <1>1, ReachTransitive
<1> QED BY <1>2 DEF IsNatural

\* Two cycles with one head are one.
LEMMA SameHead ==
  ASSUME NEW g, IsNatural(g), NEW c \in DOMAIN g.cycles, NEW o \in DOMAIN g.cycles,
         HeadOf(g, c) = HeadOf(g, o)
  PROVE  c = o
<1>1. \A k \in DOMAIN g.cycles : g.around[HeadOf(g, k)] = k
  BY DEF IsNatural
<1>2. g.around[HeadOf(g, c)] = c /\ g.around[HeadOf(g, o)] = o
  BY <1>1
<1> QED BY <1>2

\* What an unready node leads to is not ready.
LEMMA UnreadyDownstream ==
  ASSUME NEW g, NEW e, NEW active, IsFlow(g), Flows(g, e, active), NEW h, ~Ready(g, e, h)
  PROVE  \A n \in Reachable(Forward(g), h) : ~Ready(g, e, n)
<1> DEFINE S == {t \in g.nodes : ~Ready(g, e, t)}
<1>1. ASSUME NEW x \in Forward(g), x[1] \in S \union {h}
      PROVE  x[2] \in S
  <2>1. x[1] \notin e.done
    BY <1>1 DEF Flows
  <2>2. x \notin Resolved(e)
    BY <1>1, <2>1 DEF Flows
  <2>3. x = <<x[1], x[2]>> /\ x[1] \in g.nodes /\ x[2] \in g.nodes /\ x \in g.pairs /\ x \notin g.back
    BY <1>1 DEF IsFlow, Forward
  <2>4. x[1] \in g.in_edges[x[2]]
    BY <2>3 DEF IsFlow
  <2> QED BY <2>2, <2>3, <2>4 DEF Ready
<1> HIDE DEF S
<1>2. Reachable(Forward(g), h) \subseteq S
  BY <1>1, ReachClosed
<1> QED BY <1>2 DEF S

-----------------------------------------------------------------------------
(* Cycles that have begun *)

\* Something reached the head of c from outside: the node that closes it may run.
Begun(g, e, c) ==
  \/ HeadOf(g, c) = g.entry
  \/ \E x \in e.fired : x \in Forward(g) /\ x[2] = HeadOf(g, c)

\* What an edge back leads to is ready to run again, and no edge inside a cycle
\* carries anything before the cycle has begun.
Started(g, e) ==
  /\ \A x \in e.fired : x \in g.back => Ready(g, e, x[2])
  /\ \A c \in DOMAIN g.cycles, x \in e.fired : x[1] \in g.cycles[c].body => Begun(g, e, c)

\* The cycles around a node that something reached have begun.
LEMMA ReachedBegun ==
  ASSUME NEW g, NEW e, IsNatural(g), IsFlow(g), Started(g, e), e.fired \subseteq g.pairs,
         NEW c \in DOMAIN g.cycles, NEW n \in g.cycles[c].body, ~AllAbsent(g, e, n)
  PROVE  Begun(g, e, c)
<1>1. n \in g.nodes
  BY DEF IsNatural
<1>2. CASE n = g.entry
  <2>1. n \notin Reachable(Forward(g), HeadOf(g, c))
    BY <1>2 DEF IsNatural, Reachable
  <2> QED BY <1>2, <2>1 DEF IsNatural, Begun
<1>3. CASE n # g.entry
  <2>1. PICK s \in g.in_edges[n] : <<s, n>> \in e.fired
    BY <1>1, <1>3 DEF AllAbsent, IsNatural
  <2>2. CASE s \in g.cycles[c].body
    <3>1. <<s, n>>[1] \in g.cycles[c].body
      BY <2>2
    <3> QED BY <2>1, <3>1 DEF Started
  <2>3. CASE s \notin g.cycles[c].body
    <3>1. <<s, n>> \in g.pairs /\ <<s, n>>[1] = s /\ <<s, n>>[2] = n
      BY <2>1
    <3>2. n = HeadOf(g, c)
      BY <2>3, <3>1 DEF IsNatural
    <3>3. <<s, n>> \notin g.back
      <4> SUFFICES ASSUME <<s, n>> \in g.back PROVE FALSE
        OBVIOUS
      <4>1. s \in DOMAIN g.cycles /\ n = HeadOf(g, s)
        BY <3>1 DEF IsNatural
      <4>2. s = c
        BY <3>2, <4>1, SameHead
      <4> QED BY <2>3, <4>2 DEF IsFlow
    <3> QED BY <2>1, <3>1, <3>2, <3>3 DEF Begun, Forward
  <2> QED BY <2>2, <2>3
<1> QED BY <1>2, <1>3

LEMMA StartedSame ==
  ASSUME NEW g, NEW e, NEW after, Started(g, e), after.fired = e.fired, Resolved(after) = Resolved(e)
  PROVE  Started(g, after)
BY DEF Started, Begun, Ready

\* What began a cycle stays when nodes that are not done leave their edges.
LEMMA BegunStays ==
  ASSUME NEW g, NEW e, NEW active, Flows(g, e, active), NEW S,
         \A n \in S : n \notin e.done \ active, NEW after, e.fired \ OutOf(g, S) \subseteq after.fired,
         NEW c, Begun(g, e, c)
  PROVE  Begun(g, after, c)
<1>1. CASE HeadOf(g, c) = g.entry
  BY <1>1 DEF Begun
<1>2. CASE HeadOf(g, c) # g.entry
  <2>1. PICK x \in e.fired : x \in Forward(g) /\ x[2] = HeadOf(g, c)
    BY <1>2 DEF Begun
  <2>2. x[1] \notin S
    BY <2>1 DEF Flows, Resolved
  <2>3. x \in after.fired
    BY <2>1, <2>2 DEF OutOf
  <2> QED BY <2>1, <2>3 DEF Begun
<1> QED BY <1>1, <1>2

LEMMA StartedSkip ==
  ASSUME NEW g, NEW e, NEW K, IsEdgeState(g, e), Flows(g, e, {}), Started(g, e),
         K \intersect e.done = {}
  PROVE  Started(g, Skipped(g, e, K))
<1> DEFINE after == Skipped(g, e, K)
<1>1. Resolved(after) = Resolved(e) \union OutOf(g, K) /\ after.fired = e.fired \ OutOf(g, K)
  BY SkipResolves
<1> HIDE DEF after
<1>2. ASSUME NEW x \in after.fired, x \in g.back PROVE Ready(g, after, x[2])
  BY <1>1, <1>2 DEF Started, Ready
<1>3. ASSUME NEW c \in DOMAIN g.cycles, NEW x \in after.fired, x[1] \in g.cycles[c].body
      PROVE  Begun(g, after, c)
  <2>1. Begun(g, e, c)
    BY <1>1, <1>3 DEF Started
  <2> QED BY <1>1, <2>1, BegunStays
<1> QED BY <1>2, <1>3 DEF Started, after

LEMMA StartedSettle ==
  ASSUME NEW g, NEW e, NEW active, IsEdgeState(g, e), IsFlow(g), IsNatural(g),
         Flows(g, e, active), Started(g, e), NEW n \in active, ~AllAbsent(g, e, n),
         NEW taken \in SUBSET OutOf(g, {n}), taken \intersect g.back = {}, NEW after,
         after.fired = (e.fired \ OutOf(g, {n})) \union taken,
         Resolved(after) = Resolved(e) \union OutOf(g, {n})
  PROVE  Started(g, after)
<1>1. ASSUME NEW x \in after.fired, x \in g.back PROVE Ready(g, after, x[2])
  <2>1. x \in e.fired
    BY <1>1
  <2> QED BY <1>1, <2>1 DEF Started, Ready
<1>2. ASSUME NEW c \in DOMAIN g.cycles, NEW x \in after.fired, x[1] \in g.cycles[c].body
      PROVE  Begun(g, after, c)
  <2>1. Begun(g, e, c)
    <3>1. CASE x \in e.fired
      BY <1>2, <3>1 DEF Started
    <3>2. CASE x \in taken
      <4>1. n \in g.cycles[c].body /\ e.fired \subseteq g.pairs
        BY <1>2, <3>2 DEF OutOf, IsEdgeState
      <4> QED BY <4>1, ReachedBegun
    <3> QED BY <3>1, <3>2
  <2>2. e.fired \ OutOf(g, {n}) \subseteq after.fired
    OBVIOUS
  <2> QED BY <2>1, <2>2, BegunStays
<1> QED BY <1>1, <1>2 DEF Started


\* The head of a cycle is ready while a node of the cycle is.
LEMMA HeadReady ==
  ASSUME NEW g, NEW e, NEW active, IsFlow(g), IsNatural(g), Flows(g, e, active),
         NEW c \in DOMAIN g.cycles, NEW n \in g.cycles[c].body, Ready(g, e, n)
  PROVE  Ready(g, e, HeadOf(g, c))
<1>1. PICK h : h = HeadOf(g, c)
  OBVIOUS
<1>2. n = h \/ n \in Reachable(Forward(g), h)
  BY <1>1 DEF IsNatural
<1>3. ~Ready(g, e, h) => \A m \in Reachable(Forward(g), h) : ~Ready(g, e, m)
  BY UnreadyDownstream
<1> QED BY <1>1, <1>2, <1>3

\* An edge that carries something inside a cycle was put there after the head of
\* the cycle was ready.
LEMMA FiredReady ==
  ASSUME NEW g, NEW e, NEW active, IsFlow(g), IsNatural(g), Flows(g, e, active), Started(g, e),
         e.fired \subseteq g.pairs,
         NEW c \in DOMAIN g.cycles, NEW x \in e.fired, x[1] \in g.cycles[c].body
  PROVE  Ready(g, e, HeadOf(g, c))
<1>1. CASE x \in Forward(g)
  <2>1. Ready(g, e, x[1])
    BY <1>1 DEF Flows, Resolved
  <2> QED BY <2>1, HeadReady
<1>2. CASE x \in g.back
  <2>1. PICK c2 \in DOMAIN g.cycles : c2 = x[1] /\ x[2] = HeadOf(g, c2)
    BY <1>2 DEF IsNatural
  <2>2. Ready(g, e, HeadOf(g, c2))
    BY <1>2, <2>1 DEF Started
  <2>3. c2 \in g.cycles[c2].body /\ c2 \in g.cycles[c].body /\ c \in g.cycles[c].body
    BY <2>1 DEF IsFlow
  <2>4. CASE g.cycles[c2].body \subseteq g.cycles[c].body
    <3>1. HeadOf(g, c2) \in g.cycles[c].body
      BY <2>4 DEF IsNatural
    <3> QED BY <2>2, <3>1, HeadReady
  <2>5. CASE g.cycles[c].body \subseteq g.cycles[c2].body
    <3>1. c = c2
      BY <2>3, <2>5, SameCloser
    <3> QED BY <2>2, <3>1
  <2> QED BY <2>3, <2>4, <2>5 DEF IsNatural
<1> QED BY <1>1, <1>2 DEF Forward

\* While a node is active that closes a cycle, an edge from the cycle leads to
\* the head of another only where that one is ready inside it.
LEMMA EntryInside ==
  ASSUME NEW g, NEW e, NEW active, IsFlow(g), IsNatural(g), Flows(g, e, active),
         NEW o \in DOMAIN g.cycles, o \in active,
         \A x \in Forward(g) :
           x[1] \in g.cycles[o].body /\ x[2] \notin g.cycles[o].body
             => x[2] \in Reachable(Forward(g), o),
         NEW c \in DOMAIN g.cycles, Ready(g, e, HeadOf(g, c)),
         NEW y \in Forward(g), y[1] \in g.cycles[o].body, y[2] = HeadOf(g, c)
  PROVE  g.cycles[c].body \subseteq g.cycles[o].body /\ c # o
<1>1. y[2] \in g.cycles[o].body
  <2>1. \A n \in Reachable(Forward(g), o) : ~Ready(g, e, n)
    BY DownstreamWaits
  <2> QED BY <2>1
<1>2. y[2] \in g.cycles[c].body
  <2>1. HeadOf(g, c) \in g.cycles[c].body
    BY DEF IsNatural
  <2> QED BY <2>1
<1>3. y[1] \notin g.cycles[c].body
  BY NoWayBack
<1> QED BY <1>1, <1>2, <1>3 DEF IsNatural

\* What going back to the head of o leaves fired, and resolved.
LEMMA ReopenLeaves ==
  ASSUME NEW g, NEW e, NEW o, o \in g.cycles[o].body, NEW kept,
         NEW taken \in SUBSET OutOf(g, {o}), kept \subseteq taken, NEW after,
         WentBack(g, e, o, taken, kept, after), Resolved(e) \subseteq g.pairs
  PROVE  /\ \A x : x \in after.fired <=>
                     x \in kept \/ (x \in e.fired /\ x[1] \notin g.cycles[o].body)
         /\ \A x \in Resolved(e) : x[1] \notin g.cycles[o].body => x \in Resolved(after)
<1>1. PICK stale : stale = OutOf(g, g.cycles[o].body) \ kept
  OBVIOUS
<1>2. /\ Resolved(after) = (Resolved(e) \union OutOf(g, {o})) \ stale
      /\ after.fired = ((e.fired \ OutOf(g, {o})) \union taken) \ stale
  BY <1>1 DEF WentBack
<1>3. \A x \in kept : x \in taken /\ x[1] = o
  BY DEF OutOf
<1>4. \A x : x \in stale <=> x \in g.pairs /\ x[1] \in g.cycles[o].body /\ x \notin kept
  BY <1>1 DEF OutOf
<1>5. \A x : x \in OutOf(g, {o}) <=> x \in g.pairs /\ x[1] = o
  BY DEF OutOf
<1>6. e.fired \subseteq g.pairs
  BY DEF Resolved
<1>7. ASSUME NEW x
      PROVE  x \in after.fired <=>
               x \in kept \/ (x \in e.fired /\ x[1] \notin g.cycles[o].body)
  <2>1. x \in after.fired <=> ((x \in e.fired /\ x \notin OutOf(g, {o})) \/ x \in taken) /\ x \notin stale
    BY <1>2
  <2>2. CASE x \in kept
    <3>1. x \in taken /\ x \notin stale
      BY <1>1, <2>2
    <3> QED BY <2>1, <2>2, <3>1
  <2>3. CASE x \notin kept /\ x \in taken
    <3>1. x \in g.pairs /\ x[1] = o
      BY <1>5, <2>3
    <3> QED BY <1>4, <2>1, <2>3, <3>1
  <2>4. CASE x \notin kept /\ x \notin taken
    <3>1. x \in e.fired => x \in g.pairs
      BY <1>6
    <3> QED BY <1>4, <1>5, <2>1, <2>4, <3>1
  <2> QED BY <2>2, <2>3, <2>4
<1>8. \A x \in Resolved(e) : x[1] \notin g.cycles[o].body => x \in Resolved(after)
  BY <1>2, <1>4
<1> QED BY <1>7, <1>8

LEMMA StartedReopen ==
  ASSUME NEW g, NEW e, NEW active, IsEdgeState(g, e), IsFlow(g), IsNatural(g),
         Flows(g, e, active), Started(g, e),
         NEW o \in DOMAIN g.cycles, o \in active, ~AllAbsent(g, e, o),
         \A x \in Forward(g) :
           x[1] \in g.cycles[o].body /\ x[2] \notin g.cycles[o].body
             => x[2] \in Reachable(Forward(g), o),
         NEW taken \in SUBSET OutOf(g, {o}), NEW kept, kept \subseteq taken \intersect g.back,
         NEW after, WentBack(g, e, o, taken, kept, after)
  PROVE  Started(g, after)
<1>0. e.fired \subseteq g.pairs /\ Resolved(e) \subseteq g.pairs /\ o \in g.cycles[o].body
  BY DEF IsEdgeState, Resolved, IsFlow
<1>1. /\ \A x : x \in after.fired <=>
                  x \in kept \/ (x \in e.fired /\ x[1] \notin g.cycles[o].body)
      /\ \A x \in Resolved(e) : x[1] \notin g.cycles[o].body => x \in Resolved(after)
  BY <1>0, ReopenLeaves
<1>2. \A x \in kept : x[1] = o /\ x[2] = HeadOf(g, o)
  <2>1. \A x \in kept : x[1] = o /\ x \in g.back
    BY DEF OutOf
  <2> QED BY <2>1 DEF IsNatural
<1>3. Ready(g, e, o)
  BY DEF Flows
<1>4. ASSUME NEW c \in DOMAIN g.cycles, Ready(g, e, HeadOf(g, c)),
             ~(g.cycles[c].body \subseteq g.cycles[o].body) \/ c = o
      PROVE  /\ Ready(g, after, HeadOf(g, c))
             /\ Begun(g, e, c) => Begun(g, after, c)
  <2>1. \A y \in Forward(g) : y[2] = HeadOf(g, c) => y[1] \notin g.cycles[o].body
    BY <1>4, EntryInside
  <2>2. PICK h \in g.nodes : h = HeadOf(g, c)
    BY DEF IsNatural
  <2>3. ASSUME NEW s \in g.in_edges[h], <<s, h>> \notin g.back
        PROVE  <<s, h>> \in Resolved(after)
    <3>1. <<s, h>> \in Forward(g) /\ <<s, h>>[1] = s /\ <<s, h>>[2] = h
      BY <2>3 DEF IsFlow, Forward
    <3>2. <<s, h>> \in Resolved(e)
      BY <1>4, <2>2, <2>3 DEF Ready
    <3> QED BY <1>1, <2>1, <2>2, <3>1, <3>2
  <2>4. Ready(g, after, h)
    BY <2>3 DEF Ready
  <2>5. Begun(g, e, c) => Begun(g, after, c)
    BY <1>1, <2>1 DEF Begun
  <2> QED BY <2>2, <2>4, <2>5
<1>5. ASSUME NEW x \in after.fired, x \in g.back PROVE Ready(g, after, x[2])
  <2>1. PICK c \in DOMAIN g.cycles : c = x[1] /\ x[2] = HeadOf(g, c) /\ c \in g.cycles[c].body
    BY <1>5 DEF IsNatural, IsFlow
  <2>2. CASE x \in kept
    <3>1. c = o /\ Ready(g, e, HeadOf(g, c))
      BY <1>0, <1>2, <1>3, <2>1, <2>2, HeadReady
    <3> QED BY <1>4, <2>1, <3>1
  <2>3. CASE x \in e.fired /\ x[1] \notin g.cycles[o].body
    <3>1. Ready(g, e, HeadOf(g, c))
      BY <1>5, <2>1, <2>3 DEF Started
    <3> QED BY <1>4, <2>1, <2>3, <3>1
  <2> QED BY <1>1, <1>5, <2>2, <2>3
<1>6. ASSUME NEW c \in DOMAIN g.cycles, NEW x \in after.fired, x[1] \in g.cycles[c].body
      PROVE  Begun(g, after, c)
  <2>1. CASE x \in kept
    <3>1. o \in g.cycles[c].body
      BY <1>2, <1>6, <2>1
    <3>2. Begun(g, e, c) /\ Ready(g, e, HeadOf(g, c))
      BY <1>0, <1>3, <3>1, ReachedBegun, HeadReady
    <3>3. ~(g.cycles[c].body \subseteq g.cycles[o].body) \/ c = o
      <4>1. c \in g.cycles[c].body
        BY DEF IsFlow
      <4> QED BY <3>1, <4>1, SameCloser
    <3> QED BY <1>4, <3>2, <3>3
  <2>2. CASE x \in e.fired /\ x[1] \notin g.cycles[o].body
    <3>1. Begun(g, e, c) /\ Ready(g, e, HeadOf(g, c))
      BY <1>0, <1>6, <2>2, FiredReady DEF Started
    <3> QED BY <1>4, <1>6, <2>2, <3>1
  <2> QED BY <1>1, <1>6, <2>1, <2>2
<1> QED BY <1>5, <1>6 DEF Started


\* In the walk, and in what is on disk, loops are begun before they go round.
StartInv ==
  /\ phase \notin Ended => Started(graph, edges)
  /\ saved # NoState => Started(graph, saved.edges)

LEMMA InitStart == Init => StartInv
<1> SUFFICES ASSUME Init PROVE StartInv
  OBVIOUS
<1>1. edges.fired = {} /\ saved = NoState
  BY DEF Init, NewEdges
<1> QED BY <1>1 DEF StartInv, Started

\* Settling a returned node follows edges out of it, none of which goes back
\* unless it closes a cycle.
LEMMA StartedReturned ==
  ASSUME LoopsEndTogether, TypeOK, IsNatural(graph), NEW active, NEW n \in active,
         Flows(graph, edges, active), ~AllAbsent(graph, edges, n), Started(graph, edges),
         NEW taken, NEW kept, Returned(n, taken, kept)
  PROVE  Started(graph, edges')
<1>g. IsFlow(graph) /\ IsEdgeState(graph, edges)
  BY AcceptedFlows DEF TypeOK, graph
<1>0. PICK after : after = edges'
  OBVIOUS
<1>1. CASE /\ n \in DOMAIN graph.cycles => taken \intersect graph.back = {}
           /\ Advanced(graph, edges, n, taken, edges')
  <2>1. taken \in SUBSET OutOf(graph, {n})
    BY DEF Returned
  <2>2. taken \intersect graph.back = {}
    <3>1. \A x \in taken : x[1] = n
      BY <2>1 DEF OutOf
    <3> QED BY <1>1, <3>1 DEF IsNatural
  <2>3. /\ after.fired = (edges.fired \ OutOf(graph, {n})) \union taken
        /\ Resolved(after) = Resolved(edges) \union OutOf(graph, {n})
    BY <1>0, <1>1 DEF Advanced
  <2> QED BY <1>g, <1>0, <2>1, <2>2, <2>3, StartedSettle
<1>2. CASE /\ n \in DOMAIN graph.cycles /\ taken \intersect graph.back # {}
           /\ kept \subseteq taken \intersect graph.back
           /\ WentBack(graph, edges, n, taken, kept, edges')
  <2>1. taken \in SUBSET OutOf(graph, {n})
    BY DEF Returned
  <2>2. \A x \in Forward(graph) :
          x[1] \in graph.cycles[n].body /\ x[2] \notin graph.cycles[n].body
            => x[2] \in Reachable(Forward(graph), n)
    BY <1>2 DEF LoopsEndTogether, TypeOK, graph
  <2>3. WentBack(graph, edges, n, taken, kept, after)
    BY <1>0, <1>2
  <2> QED BY <1>g, <1>0, <1>2, <2>1, <2>2, <2>3, StartedReopen
<1> QED BY <1>1, <1>2 DEF Returned

LEMMA NextStart ==
  LoopsEndTogether /\ BackEdgesCloseCycles /\ NaturalLoops /\ TypeOK /\ FailuresHandled
    /\ FlowInv /\ CarryInv /\ StartInv /\ [Next]_vars => StartInv'
<1> SUFFICES ASSUME LoopsEndTogether, BackEdgesCloseCycles, NaturalLoops, TypeOK, FailuresHandled,
                    FlowInv, CarryInv, StartInv, [Next]_vars
             PROVE  StartInv'
  OBVIOUS
<1>g. /\ IsGraph(graph) /\ IsFlow(graph) /\ IsNatural(graph) /\ IsEdgeState(graph, edges)
      /\ \A n \in DOMAIN graph.on_error : <<n, graph.on_error[n]>> \notin graph.back
  BY AcceptedIsGraph, AcceptedFlows, NaturalGraphs DEF TypeOK, graph, BackEdgesCloseCycles
<1>p. pipeline' = pipeline /\ graph' = graph /\ decl' = decl
  BY PipelineStays
<1>0. PICK after : after = edges'
  OBVIOUS
<1>s. ASSUME phase \notin Ended, Started(graph, after), saved' = saved PROVE StartInv'
  BY <1>p, <1>0, <1>s DEF StartInv
<1>u. ASSUME phase \notin Ended, after.fired = edges.fired, Resolved(after) = Resolved(edges),
             saved' = saved
      PROVE  StartInv'
  BY <1>s, <1>u, StartedSame DEF StartInv
<1>1. CASE EndWalk \/ BudgetSpent
  BY <1>1, <1>p DEF StartInv, EndWalk, BudgetSpent, Ended
<1>2. CASE ChooseBatch
  <2>1. PICK K \in SUBSET ReadyNodes : edges' = Skipped(graph, edges, K)
    BY <1>2 DEF ChooseBatch, Skip, Skipped
  <2>2. phase = "walking" /\ saved' = saved
    BY <1>2 DEF ChooseBatch
  <2>3. Flows(graph, edges, {})
    BY <2>2, FlowsFewer DEF FlowInv, Ended
  <2>4. K \intersect edges.done = {}
    BY DEF ReadyNodes
  <2>5. Started(graph, after)
    BY <1>g, <1>0, <2>1, <2>2, <2>3, <2>4, StartedSkip DEF StartInv, Ended
  <2> QED BY <1>s, <2>2, <2>5 DEF Ended
<1>3. CASE StopBefore
  <2>1. phase = "chosen" /\ phase' = "suspended" /\ saved'.edges = edges
    BY <1>3 DEF StopBefore, Frame
  <2> QED BY <1>p, <2>1 DEF StartInv, Ended
<1>4. CASE StartBatch \/ StartStopped
  <2>1. PICK S : after = Enter(edges, S)
    BY <1>0, <1>4 DEF StartBatch, StartStopped, QueueUnits
  <2>2. phase \notin Ended /\ saved' = saved
    BY <1>4 DEF StartBatch, StartStopped, Ended
  <2>3. after.fired = edges.fired /\ Resolved(after) = Resolved(edges)
    BY <1>g, <2>1, EnterResolves
  <2> QED BY <1>u, <2>2, <2>3
<1>5. CASE BatchSettled
  <2>1. phase = "running" /\ edges' = edges /\ saved' \in {saved, Frame} /\ Frame.edges = edges
    BY <1>5 DEF BatchSettled, MapReturned, frame, Frame
  <2> QED BY <1>p, <2>1 DEF StartInv, Ended
<1>6. ASSUME NEW n \in graph.nodes, UnitStep(n) PROVE StartInv'
  <2>1. UNCHANGED <<phase, edges, saved>>
    BY <1>6 DEF UnitStep, UnitStarts, UnitReturns, UnitRetries, UnitDiverts,
       UnitRaises, UnitSuspends, frame
  <2> QED BY <1>p, <2>1 DEF StartInv
<1>7. ASSUME NEW n \in graph.nodes, SettleStep(n) PROVE StartInv'
  <2>1. phase = "running" /\ n \in batch
    BY <1>7 DEF SettleStep, SettleReturned, SettleFailure, SettleDrained,
       SettleSuspended, SettleRaised, RouteRaises, Settling, MapReturned, IsFirst
  <2>2. saved' = saved
    BY <1>7 DEF SettleStep, SettleReturned, SettleFailure, SettleDrained,
       SettleSuspended, SettleRaised, RouteRaises
  <2>3. PICK active : active = batch \union in_progress
    OBVIOUS
  <2>4. /\ Flows(graph, edges, active) /\ n \in active /\ ~AllAbsent(graph, edges, n)
        /\ Started(graph, edges) /\ phase \notin Ended
    BY <2>1, <2>3 DEF FlowInv, CarryInv, Carries, StartInv, Ended
  <2>5. CASE SettleReturned(n)
    <3>1. PICK taken, kept : Returned(n, taken, kept)
      BY <2>5, ReturnedAdvances
    <3>2. Started(graph, after)
      BY <1>g, <1>0, <2>4, <3>1, StartedReturned
    <3> QED BY <1>s, <2>2, <2>4, <3>2
  <2>6. CASE SettleFailure(n)
    <3>1. PICK taken : taken = {<<n, graph.on_error[n]>>}
      OBVIOUS
    <3>2. n \in DOMAIN graph.on_error /\ taken \subseteq graph.pairs
      BY <1>g, <2>6, <3>1 DEF SettleFailure, Settling, FailuresHandled, Is, IsGraph
    <3>3. taken \in SUBSET OutOf(graph, {n}) /\ taken \intersect graph.back = {}
      BY <1>g, <3>1, <3>2 DEF OutOf
    <3>4. /\ Resolved(after) = Resolved(edges) \union OutOf(graph, {n})
          /\ after.fired = (edges.fired \ OutOf(graph, {n})) \union taken
      BY <1>g, <1>0, <2>6, <3>1, <3>2, DivertResolves DEF SettleFailure
    <3>5. Started(graph, after)
      BY <1>g, <2>4, <3>3, <3>4, StartedSettle
    <3> QED BY <1>s, <2>2, <2>4, <3>5
  <2>7. CASE SettleDrained(n)
    <3>1. after = Unenter(edges, n)
      BY <1>0, <2>7 DEF SettleDrained
    <3>2. after.fired = edges.fired /\ Resolved(after) = Resolved(edges)
      BY <1>g, <3>1, UnenterResolves
    <3> QED BY <1>u, <2>2, <2>4, <3>2
  <2>8. CASE SettleSuspended(n) \/ SettleRaised(n) \/ RouteRaises(n)
    <3>1. after = edges
      BY <1>0, <2>8 DEF SettleSuspended, SettleRaised, RouteRaises, frame
    <3> QED BY <1>u, <2>2, <2>4, <3>1
  <2> QED BY <1>7, <2>5, <2>6, <2>7, <2>8 DEF SettleStep
<1>8. CASE Resume
  BY <1>8, <1>p DEF StartInv, Resume
<1>9. CASE UNCHANGED vars
  BY <1>9, <1>p DEF StartInv, vars, frame
<1> QED BY <1>1, <1>2, <1>3, <1>4, <1>5, <1>6, <1>7, <1>8, <1>9 DEF Next, Drive, Over


-----------------------------------------------------------------------------
(* Nodes the run stopped inside *)

\* The nodes of S have received something and are not done with their run.
Awaited(g, e, S) == Flows(g, e, S) /\ \A n \in S : ~AllAbsent(g, e, n)

LEMMA AwaitedBoth ==
  ASSUME NEW g, NEW e, NEW A, NEW B, Awaited(g, e, A), Awaited(g, e, B),
         NEW both \in SUBSET (A \union B)
  PROVE  Awaited(g, e, both)
<1>1. \A n \in both : n \in A \/ n \in B
  OBVIOUS
<1> QED BY <1>1 DEF Awaited, Flows

LEMMA AwaitedSame ==
  ASSUME NEW g, NEW e, NEW after, NEW S, NEW entered \in SUBSET S, Awaited(g, e, S),
         after.fired = e.fired, Resolved(after) = Resolved(e),
         after.done \subseteq e.done \union entered, e.done \subseteq after.done \union S
  PROVE  Awaited(g, after, S)
BY DEF Awaited, Flows, Ready, AllAbsent

LEMMA AwaitedSkip ==
  ASSUME NEW g, NEW e, NEW T, NEW K, IsEdgeState(g, e), IsFlow(g), BackIsAround(g),
         Awaited(g, e, T),
         \A n \in K : n \notin e.done /\ Ready(g, e, n) /\ AllAbsent(g, e, n)
  PROVE  Awaited(g, Skipped(g, e, K), T)
<1>0. PICK after : after = Skipped(g, e, K)
  OBVIOUS
<1>1. /\ Resolved(after) = Resolved(e) \union OutOf(g, K) /\ after.done = e.done \union K
      /\ after.fired = e.fired \ OutOf(g, K)
  BY <1>0, SkipResolves
<1>2. K \intersect T = {}
  BY DEF Awaited
<1>3. \A n \in after.done \union T : Ready(g, after, n)
  BY <1>1 DEF Awaited, Flows, Ready
<1>4. \A x \in Forward(g) : x \in Resolved(after) => x[1] \in after.done \ T
  BY <1>1, <1>2 DEF Awaited, Flows, OutOf
<1>5. PICK active : active = T \union K
  OBVIOUS
<1>6. Flows(g, e, active)
  BY <1>5 DEF Awaited, Flows
<1>7. ASSUME NEW h \in T, AllAbsent(g, after, h) PROVE FALSE
  <2>1. PICK s \in g.in_edges[h] : <<s, h>> \in e.fired
    BY <1>7 DEF AllAbsent, Awaited
  <2>2. s \in K
    BY <1>1, <1>7, <2>1 DEF AllAbsent, OutOf
  <2>3. s # h /\ h \in active /\ s \in active /\ e.fired \subseteq g.pairs
    BY <1>2, <1>5, <2>2 DEF IsEdgeState
  <2>4. s # s
    BY <1>6, <2>1, <2>3, ActiveInputs
  <2> QED BY <2>4
<1> QED BY <1>0, <1>3, <1>4, <1>7 DEF Awaited, Flows

\* Settling a node, with others active, leaves the others awaited.
LEMMA AwaitedSettle ==
  ASSUME NEW g, NEW e, NEW active, IsEdgeState(g, e), IsFlow(g), BackIsAround(g),
         Awaited(g, e, active), NEW n \in active, n \in e.done,
         NEW taken \in SUBSET OutOf(g, {n}), NEW after, after.done = e.done,
         after.fired = (e.fired \ OutOf(g, {n})) \union taken,
         Resolved(after) = Resolved(e) \union OutOf(g, {n})
  PROVE  Awaited(g, after, active \ {n})
<1>1. Flows(g, after, active \ {n})
  BY FlowsSettle DEF Awaited
<1>2. PICK completed : completed = {x[1] : x \in Forward(g)}
  OBVIOUS
<1>3. Carries(g, e, active, completed)
  BY <1>2 DEF Carries, Awaited
<1>4. Carries(g, after, active \ {n}, completed \union {n})
  BY <1>3, CarriesSettle DEF Awaited
<1> QED BY <1>1, <1>4 DEF Awaited, Carries

LEMMA AwaitedReturned ==
  ASSUME LoopsEndTogether, BackEdgesCloseCycles, TypeOK, NEW active, NEW n \in active,
         n \in edges.done, active \subseteq graph.nodes, Awaited(graph, edges, active),
         NEW taken, NEW kept, Returned(n, taken, kept)
  PROVE  Awaited(graph, edges', active \ {n})
<1>g. IsFlow(graph) /\ IsEdgeState(graph, edges) /\ BackIsAround(graph)
  BY AcceptedFlows DEF TypeOK, graph, BackEdgesCloseCycles, BackIsAround
<1>0. PICK after : after = edges'
  OBVIOUS
<1>1. Flows(graph, after, active \ {n})
  BY <1>0, FlowsReturned DEF Awaited
<1>2. PICK completed : completed = {x[1] : x \in Forward(graph)}
  OBVIOUS
<1>3. Flows(graph, edges, active) /\ Carries(graph, edges, active, completed)
  BY <1>2 DEF Carries, Awaited
<1>4. taken \in SUBSET OutOf(graph, {n})
  BY DEF Returned
<1>5. CASE Advanced(graph, edges, n, taken, edges')
  <2>1. after.fired = (edges.fired \ OutOf(graph, {n})) \union taken
    BY <1>0, <1>5 DEF Advanced
  <2>2. Carries(graph, after, active \ {n}, completed \union {n})
    BY <1>g, <1>3, <1>4, <2>1, CarriesSettle
  <2> QED BY <1>0, <1>1, <2>2 DEF Awaited, Carries
<1>6. CASE /\ n \in DOMAIN graph.cycles /\ taken \intersect graph.back # {}
           /\ kept \subseteq taken \intersect graph.back
           /\ WentBack(graph, edges, n, taken, kept, edges')
  <2>1. after.fired = ((edges.fired \ OutOf(graph, {n})) \union taken)
                        \ (OutOf(graph, graph.cycles[n].body) \ kept)
    BY <1>0, <1>6 DEF WentBack
  <2>2. kept \intersect Forward(graph) = {}
    BY <1>6 DEF Forward
  <2>3. \A x \in Forward(graph) :
          x[1] \in graph.cycles[n].body /\ x[2] \notin graph.cycles[n].body
            => x[2] \in Reachable(Forward(graph), n)
    BY <1>6 DEF LoopsEndTogether, TypeOK, graph
  <2>4. Carries(graph, after, active \ {n}, (completed \union {n}) \ graph.cycles[n].body)
    BY <1>g, <1>3, <1>4, <1>6, <2>1, <2>2, <2>3, CarriesReopen
  <2> QED BY <1>0, <1>1, <2>4 DEF Awaited, Carries
<1> QED BY <1>5, <1>6 DEF Returned


\* What a node that is running, or answered, has become.
InHand == {"running", "returned", "failure", "raised"}

\* The nodes the run stopped inside stay as they were stopped, until they run on:
\* in the walk, while a batch runs, and on disk.
StopInv ==
  /\ phase \notin Ended => /\ Awaited(graph, edges, interrupted)
                           /\ in_progress \intersect edges.done \subseteq interrupted
  /\ phase = "chosen" => batch \intersect edges.done = {}
  /\ phase = "running" => /\ Is({"suspended"}) \subseteq interrupted
                          /\ Is(InHand) \intersect interrupted = {}
  /\ saved # NoState => /\ Awaited(graph, saved.edges, saved.interrupted)
                        /\ saved.in_progress \intersect saved.edges.done \subseteq saved.interrupted

LEMMA InitStops == Init => StopInv
<1> SUFFICES ASSUME Init PROVE StopInv
  OBVIOUS
<1>1. /\ phase = "walking" /\ edges.done = {} /\ Resolved(edges) = {} /\ saved = NoState
      /\ interrupted = {} /\ in_progress = {}
  BY DEF Init, NewEdges, Resolved
<1> QED BY <1>1 DEF StopInv, Awaited, Flows

\* Whatever is active or was stopped is awaited.
LEMMA ActiveAwaited ==
  ASSUME FlowInv, CarryInv, StopInv, phase \notin Ended,
         NEW S \in SUBSET (batch \union in_progress \union interrupted)
  PROVE  Awaited(graph, edges, S)
<1>1. Awaited(graph, edges, batch \union in_progress)
  BY DEF FlowInv, CarryInv, Carries, Awaited
<1>2. Awaited(graph, edges, interrupted)
  BY DEF StopInv
<1> QED BY <1>1, <1>2, AwaitedBoth

LEMMA NextStops ==
  LoopsEndTogether /\ BackEdgesCloseCycles /\ TypeOK /\ FailuresHandled /\ OverlapInv
    /\ FlowInv /\ CarryInv /\ StopInv /\ [Next]_vars => StopInv'
<1> SUFFICES ASSUME LoopsEndTogether, BackEdgesCloseCycles, TypeOK, FailuresHandled, OverlapInv,
                    FlowInv, CarryInv, StopInv, [Next]_vars
             PROVE  StopInv'
  OBVIOUS
<1>g. IsGraph(graph) /\ IsFlow(graph) /\ IsEdgeState(graph, edges) /\ BackIsAround(graph)
  BY AcceptedIsGraph, AcceptedFlows DEF TypeOK, graph, BackEdgesCloseCycles, BackIsAround
<1>p. pipeline' = pipeline /\ graph' = graph /\ decl' = decl
  BY PipelineStays
<1>0. PICK after : after = edges'
  OBVIOUS
<1>1. CASE EndWalk \/ BudgetSpent
  BY <1>1, <1>p DEF StopInv, EndWalk, BudgetSpent, Ended
<1>2. CASE ChooseBatch
  <2>1. PICK S \in SUBSET ReadyNodes :
          LET skipped == {n \in S : AllAbsent(graph, edges, n)}
          IN  edges' = Skip(skipped) /\ batch' = S \ skipped
    BY <1>2 DEF ChooseBatch
  <2>2. PICK K \in SUBSET S :
          /\ K = {n \in S : AllAbsent(graph, edges, n)}
          /\ after = Skipped(graph, edges, K) /\ batch' = S \ K
    BY <1>0, <2>1 DEF Skip, Skipped
  <2>3. /\ phase = "walking" /\ phase' \in {"walking", "chosen"} /\ in_progress = {}
        /\ in_progress' = {} /\ saved' = saved /\ interrupted' = interrupted
    BY <1>2 DEF ChooseBatch, history
  <2>4. Awaited(graph, edges, interrupted)
    BY <2>3 DEF StopInv, Ended
  <2>5. \A n \in S : n \notin edges.done /\ Ready(graph, edges, n)
    BY DEF ReadyNodes
  <2>6. Awaited(graph, after, interrupted)
    BY <1>g, <2>2, <2>4, <2>5, AwaitedSkip
  <2>7. after.done = edges.done \union K
    BY <1>g, <2>2, SkipResolves
  <2>8. batch' \intersect after.done = {}
    BY <2>2, <2>5, <2>7
  <2> QED BY <1>0, <1>p, <2>3, <2>6, <2>8 DEF StopInv
<1>3. CASE StopBefore
  <2>1. PICK n \in batch : in_progress' = {n}
    BY <1>3 DEF StopBefore
  <2>2. /\ phase = "chosen" /\ phase' = "suspended" /\ saved'.in_progress = {n}
        /\ saved'.edges = edges /\ saved'.interrupted = interrupted
    BY <1>3, <2>1 DEF StopBefore, Frame
  <2>3. Awaited(graph, edges, interrupted) /\ n \notin edges.done
    BY <2>2 DEF StopInv, Ended
  <2> QED BY <1>p, <2>2, <2>3 DEF StopInv, Ended
<1>4. CASE StartBatch \/ StartStopped
  <2>1. PICK nodes \in SUBSET (batch \union in_progress), stopped \in BOOLEAN :
          QueueUnits(nodes, stopped)
    BY <1>4 DEF StartBatch, StartStopped
  <2>2. PICK S \in SUBSET nodes : after = Enter(edges, S)
    BY <1>0, <2>1 DEF QueueUnits
  <2>3. /\ phase \notin Ended /\ phase' = "running" /\ saved' = saved /\ in_progress' = {}
        /\ interrupted' = interrupted
    BY <1>4 DEF StartBatch, StartStopped, QueueUnits, Ended, FlowInv, history
  <2>4. /\ after.fired = edges.fired /\ Resolved(after) = Resolved(edges)
        /\ after.done = edges.done \union S
    <3>1. /\ Enter(edges, S).fired = edges.fired /\ Resolved(Enter(edges, S)) = Resolved(edges)
          /\ Enter(edges, S).done = edges.done \union S
      BY <1>g DEF IsEdgeState, Enter, Resolved
    <3> QED BY <2>2, <3>1
  <2>5. PICK all : all = interrupted \union S
    OBVIOUS
  <2>6. Awaited(graph, edges, all)
    <3>1. all \in SUBSET (batch \union in_progress \union interrupted)
      BY <2>5
    <3> QED BY <2>3, <3>1, ActiveAwaited
  <2>7. Awaited(graph, after, all)
    <3>1. S \in SUBSET all
      BY <2>5
    <3> QED BY <2>4, <2>6, <3>1, AwaitedSame
  <2>8. Awaited(graph, after, interrupted)
    <3>1. interrupted \in SUBSET (all \union all)
      BY <2>5
    <3> QED BY <2>7, <3>1, AwaitedBoth
  <2>9. Is({"suspended"})' = {} /\ Is(InHand)' = {}
    BY <1>p, <2>1 DEF QueueUnits, Is, InHand
  <2> QED BY <1>0, <1>p, <2>3, <2>8, <2>9 DEF StopInv
<1>5. CASE BatchSettled
  <2>1. /\ phase = "running" /\ UNCHANGED <<edges, in_progress, interrupted>>
        /\ phase' \notin {"chosen", "running"} /\ saved' \in {saved, Frame}
    BY <1>5 DEF BatchSettled, MapReturned, frame, history
  <2>2. Frame.edges = edges /\ Frame.in_progress = in_progress /\ Frame.interrupted = interrupted
    BY DEF Frame
  <2> QED BY <1>p, <2>1, <2>2 DEF StopInv, Ended
<1>6. ASSUME NEW n \in graph.nodes, UnitStep(n) PROVE StopInv'
  <2>1. UNCHANGED <<phase, edges, in_progress, batch, saved>> /\ phase = "running"
    BY <1>6 DEF UnitStep, UnitStarts, UnitReturns, UnitRetries, UnitDiverts,
       UnitRaises, UnitSuspends, frame
  <2>s. ASSUME Awaited(graph, edges, interrupted'),
               in_progress \intersect edges.done \subseteq interrupted',
               Is({"suspended"})' \subseteq interrupted', Is(InHand)' \intersect interrupted' = {}
        PROVE  StopInv'
    BY <1>p, <2>1, <2>s DEF StopInv
  <2>2. /\ Awaited(graph, edges, interrupted) /\ Is({"suspended"}) \subseteq interrupted
        /\ in_progress \intersect edges.done \subseteq interrupted
        /\ Is(InHand) \intersect interrupted = {} /\ n \in batch /\ n \notin in_progress
    <3>1. n \in Is({"queued", "running"})
      BY <1>6 DEF UnitStep, UnitStarts, UnitReturns, UnitRetries, UnitDiverts,
         UnitRaises, UnitSuspends, Is
    <3> QED BY <2>1, <3>1 DEF StopInv, OverlapInv, FlowInv, Ended
  <2>3. CASE UnitStarts(n)
    <3>1. interrupted' = interrupted \ {n} /\ unit' = [unit EXCEPT ![n] = "running"]
      BY <2>3 DEF UnitStarts
    <3>2. PICK left : left = interrupted'
      OBVIOUS
    <3>3. left \in SUBSET (interrupted \union interrupted)
      BY <3>1, <3>2
    <3>4. Awaited(graph, edges, left)
      BY <2>2, <3>3, AwaitedBoth
    <3>5. Is({"suspended"})' \subseteq Is({"suspended"}) \ {n} /\ Is(InHand)' \subseteq Is(InHand) \union {n}
      BY <1>p, <3>1 DEF Is, InHand, TypeOK
    <3> QED BY <2>s, <2>2, <3>1, <3>2, <3>4, <3>5
  <2>4. CASE UnitSuspends(n)
    <3>1. interrupted' = interrupted \union {n} /\ Stops(n, "suspended")
      BY <2>4 DEF UnitSuspends
    <3>2. PICK all : all = interrupted'
      OBVIOUS
    <3>3. all \in SUBSET (batch \union in_progress \union interrupted)
      BY <2>2, <3>1, <3>2
    <3>4. Awaited(graph, edges, all)
      BY <2>1, <3>3, ActiveAwaited DEF Ended
    <3>5. Is({"suspended"})' \subseteq Is({"suspended"}) \union {n} /\ Is(InHand)' \subseteq Is(InHand) \ {n}
      BY <1>p, <3>1 DEF Is, InHand, TypeOK, Stops
    <3> QED BY <2>s, <2>2, <3>1, <3>2, <3>4, <3>5
  <2>5. CASE UnitReturns(n) \/ UnitRetries(n) \/ UnitDiverts(n) \/ UnitRaises(n)
    <3>1. interrupted' = interrupted /\ n \in Is(InHand)
      BY <2>5 DEF UnitReturns, UnitRetries, UnitDiverts, UnitRaises, history, Is, InHand
    <3>2. Is({"suspended"})' \subseteq Is({"suspended"}) /\ Is(InHand)' \subseteq Is(InHand)
      BY <1>p, <2>5, <3>1 DEF UnitReturns, UnitRetries, UnitDiverts, UnitRaises, Stops, Is, InHand, TypeOK
    <3> QED BY <2>s, <2>2, <3>1, <3>2
  <2> QED BY <1>6, <2>3, <2>4, <2>5 DEF UnitStep
<1>7. ASSUME NEW n \in graph.nodes, SettleStep(n) PROVE StopInv'
  <2>1. /\ phase = "running" /\ n \in batch /\ phase' \in {"running", "failed"} /\ saved' = saved
        /\ interrupted' = interrupted /\ unit' = unit
    <3>1. phase = "running" /\ n \in batch
      BY <1>7 DEF SettleStep, SettleReturned, SettleFailure, SettleDrained,
         SettleSuspended, SettleRaised, RouteRaises, Settling, MapReturned, IsFirst
    <3>2. saved' = saved /\ phase' \in {phase, "failed"} /\ interrupted' = interrupted /\ unit' = unit
      BY <1>7 DEF SettleStep, SettleReturned, SettleFailure, SettleDrained,
         SettleSuspended, SettleRaised, RouteRaises, Follow, history
    <3> QED BY <3>1, <3>2
  <2>2. /\ Is({"suspended"}) \subseteq interrupted /\ Is(InHand) \intersect interrupted = {}
        /\ in_progress \intersect edges.done \subseteq interrupted
        /\ n \in edges.done /\ Awaited(graph, edges, interrupted)
    BY <2>1 DEF StopInv, FlowInv, Ended
  <2>s. ASSUME Awaited(graph, after, interrupted),
               in_progress' \intersect after.done \subseteq interrupted
        PROVE  StopInv'
    <3>1. Is({"suspended"})' = Is({"suspended"}) /\ Is(InHand)' = Is(InHand)
      BY <1>p, <2>1 DEF Is
    <3> QED BY <1>0, <1>p, <2>1, <2>2, <2>s, <3>1 DEF StopInv, Ended
  <2>3. PICK all : all = interrupted \union {n}
    OBVIOUS
  <2>4. Awaited(graph, edges, all) /\ all \subseteq graph.nodes /\ n \in all
    <3>1. all \in SUBSET (batch \union in_progress \union interrupted)
      BY <2>1, <2>3
    <3>2. Awaited(graph, edges, all)
      BY <2>1, <3>1, ActiveAwaited DEF Ended
    <3> QED BY <2>3, <3>2 DEF TypeOK
  <2>5. CASE SettleReturned(n)
    <3>1. PICK taken, kept : Returned(n, taken, kept)
      BY <2>5, ReturnedAdvances
    <3>2. Awaited(graph, after, all \ {n})
      BY <1>0, <2>2, <2>4, <3>1, AwaitedReturned
    <3>3. n \notin interrupted /\ in_progress' = in_progress
      BY <2>2, <2>5 DEF SettleReturned, Settling, Is, InHand
    <3>4. all \ {n} = interrupted
      BY <2>3, <3>3
    <3>5. after.done \subseteq edges.done
      BY <1>0, <3>1 DEF Returned
    <3> QED BY <2>s, <2>2, <3>2, <3>3, <3>4, <3>5
  <2>6. CASE SettleFailure(n)
    <3>1. PICK taken : taken = {<<n, graph.on_error[n]>>}
      OBVIOUS
    <3>2. taken \subseteq graph.pairs
      BY <1>g, <2>6, <3>1 DEF SettleFailure, Settling, FailuresHandled, Is, IsGraph
    <3>3. taken \in SUBSET OutOf(graph, {n})
      BY <3>1, <3>2 DEF OutOf
    <3>4. /\ Resolved(after) = Resolved(edges) \union OutOf(graph, {n})
          /\ after.fired = (edges.fired \ OutOf(graph, {n})) \union taken
          /\ after.done = edges.done
      <4>1. /\ Resolved(Divert(graph, edges, n)) = Resolved(edges) \union OutOf(graph, {n})
            /\ Divert(graph, edges, n).fired = (edges.fired \ OutOf(graph, {n})) \union taken
            /\ Divert(graph, edges, n).done = edges.done
        BY <1>g, <3>1, <3>2, DivertResolves
      <4>2. after = Divert(graph, edges, n)
        BY <1>0, <2>6 DEF SettleFailure
      <4> QED BY <4>1, <4>2
    <3>5. Awaited(graph, after, all \ {n})
      BY <1>g, <2>2, <2>4, <3>3, <3>4, AwaitedSettle
    <3>6. n \notin interrupted /\ in_progress' = in_progress
      BY <2>2, <2>6 DEF SettleFailure, Settling, Is, InHand
    <3>7. all \ {n} = interrupted
      BY <2>3, <3>6
    <3> QED BY <2>s, <2>2, <3>4, <3>5, <3>6, <3>7
  <2>7. CASE SettleDrained(n)
    <3>1. after = Unenter(edges, n) /\ in_progress' = in_progress
      BY <1>0, <2>7 DEF SettleDrained
    <3>2. /\ after.fired = edges.fired /\ Resolved(after) = Resolved(edges)
          /\ after.done \subseteq edges.done /\ edges.done \subseteq after.done \union {n}
      BY <1>g, <3>1, UnenterResolves
    <3>3. Awaited(graph, after, all)
      <4>1. {} \in SUBSET all /\ after.done \subseteq edges.done \union {}
            /\ edges.done \subseteq after.done \union all
        BY <2>4, <3>2
      <4> QED BY <2>4, <3>2, <4>1, AwaitedSame
    <3>4. Awaited(graph, after, interrupted)
      <4>1. interrupted \in SUBSET (all \union all)
        BY <2>3
      <4> QED BY <3>3, <4>1, AwaitedBoth
    <3> QED BY <2>s, <2>2, <3>1, <3>2, <3>4
  <2>8. CASE SettleSuspended(n)
    <3>1. after = edges /\ in_progress' = in_progress \union {n} /\ n \in interrupted
      BY <1>0, <2>2, <2>8 DEF SettleSuspended, Settling, Is
    <3> QED BY <2>s, <2>2, <3>1
  <2>9. CASE SettleRaised(n) \/ RouteRaises(n)
    <3>1. after = edges /\ in_progress' = in_progress
      BY <1>0, <2>9 DEF SettleRaised, RouteRaises, frame
    <3> QED BY <2>s, <2>2, <3>1
  <2> QED BY <1>7, <2>5, <2>6, <2>7, <2>8, <2>9 DEF SettleStep
<1>8. CASE Resume
  <2>1. /\ phase' = "walking" /\ edges' = saved.edges /\ in_progress' = saved.in_progress
        /\ interrupted' = saved.interrupted /\ saved # NoState /\ saved' = saved
    BY <1>8 DEF Resume
  <2> QED BY <1>p, <2>1 DEF StopInv
<1>9. CASE UNCHANGED vars
  <2>1. Is({"suspended"})' = Is({"suspended"}) /\ Is(InHand)' = Is(InHand)
    BY <1>9, <1>p DEF Is, vars, units
  <2> QED BY <1>9, <1>p, <2>1 DEF StopInv, vars, frame, units, history
<1> QED BY <1>1, <1>2, <1>3, <1>4, <1>5, <1>6, <1>7, <1>8, <1>9 DEF Next, Drive, Over


-----------------------------------------------------------------------------
(* Counts *)

\* Of an edge state, the rounds r a cycle has gone, the nodes the run stopped
\* inside, those of them whose visit was taken back, and the nodes that are
\* visited but not run yet: a cycle that has begun counts its rounds, and a node
\* that may run once more is in none of the rounds the Loop allows.
Counted(g, e, r, stopped, out, ahead) ==
  \A c \in DOMAIN g.cycles :
    /\ Begun(g, e, c) => e.visits[c] + (IF c \in out THEN 1 ELSE 0)
                           = r[c] + (IF c \in ahead THEN 1 ELSE 0)
    /\ Begun(g, e, c) /\ c \notin stopped /\ (c \notin e.done \/ c \in ahead)
         => r[c] < g.cycles[c].max_iterations
    /\ r[c] <= g.cycles[c].max_iterations
    /\ c \in stopped => r[c] >= 1

\* A cycle around the node that closes another is entered before it.
LEMMA InnerLater ==
  ASSUME NEW g, IsNatural(g), IsFlow(g), NEW o \in DOMAIN g.cycles, NEW c \in DOMAIN g.cycles,
         c \in g.cycles[o].body, c # o
  PROVE  /\ HeadOf(g, c) # g.entry
         /\ \A y \in g.pairs : y[2] = HeadOf(g, c) => y[1] \in g.cycles[o].body
<1>1. c \in g.cycles[c].body /\ o \in g.cycles[o].body
  BY DEF IsFlow
<1>2. g.cycles[c].body \subseteq g.cycles[o].body
  <2>1. ~(g.cycles[o].body \subseteq g.cycles[c].body)
    BY <1>1, SameCloser
  <2> QED BY <1>1, <2>1 DEF IsNatural
<1>3. HeadOf(g, c) \in g.cycles[o].body /\ HeadOf(g, c) # HeadOf(g, o)
  <2>1. HeadOf(g, c) \in g.cycles[c].body
    BY DEF IsNatural
  <2> QED BY <1>2, <2>1, SameHead
<1>4. HeadOf(g, c) # g.entry
  <2>1. HeadOf(g, c) \in Reachable(Forward(g), HeadOf(g, o))
    BY <1>3 DEF IsNatural
  <2>2. PICK x \in Forward(g) : x[2] = HeadOf(g, c)
    BY <2>1 DEF Reachable
  <2> QED BY <2>2 DEF IsNatural
<1>5. ASSUME NEW y \in g.pairs, y[2] = HeadOf(g, c) PROVE y[1] \in g.cycles[o].body
  <2>1. y[1] \notin g.cycles[o].body /\ y[2] \in g.cycles[o].body => y[2] = HeadOf(g, o)
    BY DEF IsNatural
  <2> QED BY <1>3, <1>5, <2>1
<1> QED BY <1>4, <1>5

\* While a node is active that leads into a cycle from outside, nothing inside
\* the cycle is ready.
LEMMA EnteredWaits ==
  ASSUME NEW g, NEW e, NEW active, IsNatural(g), IsFlow(g), Flows(g, e, active),
         NEW n \in active, NEW o \in DOMAIN g.cycles, n \notin g.cycles[o].body,
         NEW x \in g.pairs, x[1] = n, x[2] \in g.cycles[o].body
  PROVE  /\ x[2] = HeadOf(g, o)
         /\ \A m \in g.cycles[o].body : ~Ready(g, e, m)
<1>1. PICK h : h = HeadOf(g, o)
  OBVIOUS
<1>2. x[2] = h
  BY <1>1 DEF IsNatural
<1>3. x = <<n, h>>
  BY <1>2 DEF IsFlow
<1>4. x \notin g.back
  <2> SUFFICES ASSUME x \in g.back PROVE FALSE
    OBVIOUS
  <2>1. n \in DOMAIN g.cycles /\ h = HeadOf(g, n)
    BY <1>2 DEF IsNatural
  <2>2. n = o
    BY <1>1, <2>1, SameHead
  <2> QED BY <2>2 DEF IsFlow
<1>5. h \in Reachable(Forward(g), n)
  BY <1>3, <1>4, ReachEdge DEF Forward
<1>6. ~Ready(g, e, h)
  BY <1>5, DownstreamWaits
<1>7. \A m \in Reachable(Forward(g), h) : ~Ready(g, e, m)
  BY <1>6, UnreadyDownstream
<1>8. \A m \in g.cycles[o].body : m = h \/ m \in Reachable(Forward(g), h)
  BY <1>1 DEF IsNatural
<1> QED BY <1>1, <1>2, <1>6, <1>7, <1>8

\* What settling n along the edges taken does to the counts: the nodes of the
\* cycles entered from outside start theirs again.
Noted(g, e, n, taken, after) ==
  \A c \in DOMAIN g.cycles :
    /\ n \notin g.cycles[c].body /\ (\E x \in taken : x[2] = HeadOf(g, c)) => after.visits[c] = 0
    /\ after.visits[c] # e.visits[c] =>
         \E o \in DOMAIN g.cycles, x \in taken :
           n \notin g.cycles[o].body /\ c \in g.cycles[o].body /\ x[2] \in g.cycles[o].body

\* What it does to the rounds.
RoundsAfter(g, r, n, taken, r2) ==
  \A c \in DOMAIN g.cycles :
    r2[c] = IF n \notin g.cycles[c].body /\ (\E x \in taken : x[2] \in g.cycles[c].body)
            THEN 0 ELSE r[c]

LEMMA CountedReturned ==
  ASSUME NEW g, NEW e, NEW active, IsEdgeState(g, e), IsNatural(g), IsFlow(g), Flows(g, e, active),
         NEW n \in active, NEW r \in [DOMAIN g.cycles -> Nat], NEW stopped \in SUBSET (active \ {n}), NEW out \in SUBSET stopped,
         NEW ahead \in SUBSET (active \ {n}), Counted(g, e, r, stopped, out, ahead),
         NEW taken \in SUBSET OutOf(g, {n}), NEW after, after.fired \subseteq e.fired \union taken,
         Noted(g, e, n, taken, after), NEW r2, RoundsAfter(g, r, n, taken, r2),
         \/ after.done = e.done
         \/ /\ n \in DOMAIN g.cycles /\ after.done = e.done \ g.cycles[n].body
            /\ e.visits[n] < g.cycles[n].max_iterations
            /\ \A y \in after.fired : y[1] \in g.cycles[n].body => y \in g.back
  PROVE  Counted(g, after, r2, stopped, out, ahead)
<1> SUFFICES ASSUME NEW c \in DOMAIN g.cycles
             PROVE  /\ Begun(g, after, c) => after.visits[c] + (IF c \in out THEN 1 ELSE 0)
                                               = r2[c] + (IF c \in ahead THEN 1 ELSE 0)
                    /\ Begun(g, after, c) /\ c \notin stopped /\ (c \notin after.done \/ c \in ahead)
                         => r2[c] < g.cycles[c].max_iterations
                    /\ r2[c] <= g.cycles[c].max_iterations
                    /\ c \in stopped => r2[c] >= 1
  BY DEF Counted
<1>0. g.cycles[c].max_iterations \in Nat \ {0} /\ c \in g.cycles[c].body
  BY DEF IsNatural, IsFlow
<1>t. \A x \in taken : x \in g.pairs /\ x[1] = n
  BY DEF OutOf
<1>b. /\ Begun(g, e, c) => e.visits[c] + (IF c \in out THEN 1 ELSE 0)
                             = r[c] + (IF c \in ahead THEN 1 ELSE 0)
      /\ Begun(g, e, c) /\ c \notin stopped /\ (c \notin e.done \/ c \in ahead)
           => r[c] < g.cycles[c].max_iterations
      /\ r[c] <= g.cycles[c].max_iterations
      /\ c \in stopped => r[c] >= 1
  BY DEF Counted
<1>1. CASE n \notin g.cycles[c].body /\ \E x \in taken : x[2] \in g.cycles[c].body
  <2>1. PICK x \in taken : x[2] \in g.cycles[c].body
    BY <1>1
  <2>2. x[2] = HeadOf(g, c) /\ ~Ready(g, e, c)
    BY <1>0, <1>1, <1>t, <2>1, EnteredWaits
  <2>3. c \notin active
    BY <2>2 DEF Flows
  <2>4. after.visits[c] = 0 /\ r2[c] = 0
    BY <1>1, <2>2 DEF Noted, RoundsAfter
  <2> QED BY <1>0, <2>3, <2>4
<1>2. CASE ~(n \notin g.cycles[c].body /\ \E x \in taken : x[2] \in g.cycles[c].body)
  <2>1. r2[c] = r[c]
    BY <1>2 DEF RoundsAfter
  <2>2. ASSUME NEW y \in after.fired, y \in Forward(g), y[2] = HeadOf(g, c) PROVE y \in e.fired
    <3> SUFFICES ASSUME y \in taken PROVE FALSE
      BY <2>2
    <3>1. n \notin g.cycles[c].body
      BY <1>t, <2>2, NoWayBack
    <3>2. HeadOf(g, c) \in g.cycles[c].body
      BY DEF IsNatural
    <3> QED BY <1>2, <2>2, <3>1, <3>2
  <2>3. Begun(g, after, c) => Begun(g, e, c)
    BY <2>2 DEF Begun
  <2>4. ASSUME Begun(g, after, c) PROVE after.visits[c] = e.visits[c]
    <3> SUFFICES ASSUME after.visits[c] # e.visits[c] PROVE FALSE
      OBVIOUS
    <3>1. PICK o \in DOMAIN g.cycles, x \in taken :
            n \notin g.cycles[o].body /\ c \in g.cycles[o].body /\ x[2] \in g.cycles[o].body
      BY DEF Noted
    <3>2. c # o
      BY <1>2, <3>1
    <3>3. /\ HeadOf(g, c) # g.entry
          /\ \A y \in g.pairs : y[2] = HeadOf(g, c) => y[1] \in g.cycles[o].body
      BY <3>1, <3>2, InnerLater
    <3>4. PICK y \in after.fired : y \in Forward(g) /\ y[2] = HeadOf(g, c)
      BY <2>4, <3>3 DEF Begun
    <3>5. y \in e.fired /\ y[1] \in g.cycles[o].body
      BY <2>2, <3>3, <3>4 DEF Forward
    <3>6. Ready(g, e, y[1])
      BY <3>4, <3>5 DEF Flows, Resolved
    <3>7. ~Ready(g, e, y[1])
      BY <1>t, <3>1, <3>5, EnteredWaits
    <3> QED BY <3>6, <3>7
  <2>5. ASSUME Begun(g, after, c), c \notin stopped, c \notin after.done, c \in e.done
        PROVE  r[c] < g.cycles[c].max_iterations
    <3>1. /\ n \in DOMAIN g.cycles /\ after.done = e.done \ g.cycles[n].body
          /\ e.visits[n] < g.cycles[n].max_iterations
          /\ \A y \in after.fired : y[1] \in g.cycles[n].body => y \in g.back
      BY <2>5
    <3>2. c = n
      <4> SUFFICES ASSUME c # n PROVE FALSE
        OBVIOUS
      <4>1. c \in g.cycles[n].body
        BY <2>5, <3>1
      <4>2. /\ HeadOf(g, c) # g.entry
            /\ \A y \in g.pairs : y[2] = HeadOf(g, c) => y[1] \in g.cycles[n].body
        BY <3>1, <4>1, InnerLater
      <4>3. PICK y \in after.fired : y \in Forward(g) /\ y[2] = HeadOf(g, c)
        BY <2>5, <4>2 DEF Begun
      <4> QED BY <3>1, <4>2, <4>3 DEF Forward
    <3>3. c \notin out /\ c \notin ahead
      BY <3>2
    <3>4. e.visits[c] + 0 = r[c] + 0
      BY <1>b, <2>3, <2>5, <3>3
    <3>5. e.visits[c] \in Nat /\ r[c] \in Nat
      BY <1>0 DEF IsNatural, IsEdgeState
    <3> QED BY <3>1, <3>2, <3>4, <3>5
  <2> QED BY <1>b, <2>1, <2>3, <2>4, <2>5
<1> QED BY <1>1, <1>2


\* A returned node notes what it enters before its cycle is reopened.
LEMMA AdvanceVisits ==
  ASSUME NEW g, NEW e, IsEdgeState(g, e), NEW n, NEW chosen,
         {n} \X chosen \subseteq g.pairs
  PROVE  Advance(g, e, n, chosen).visits = NoteEntries(g, e, n, chosen).visits
<1>k. PICK kept : kept = KeptBack(g, n, chosen)
  OBVIOUS
<1> DEFINE taken   == {n} \X chosen
           left    == LeaveAbsent(e, OutOf(g, {n}) \ taken)
           settled == Fire(left, taken)
           counted == NoteEntries(g, settled, n, chosen)
<1>1. IsEdgeState(g, left) /\ left.visits = e.visits
  <2>1. OutOf(g, {n}) \ taken \subseteq g.pairs
    BY DEF OutOf
  <2> QED BY <2>1, FireType, LeaveAbsentResolves
<1> HIDE DEF left
<1>2. IsEdgeState(g, settled) /\ settled.visits = e.visits
  <2>1. Fire(left, taken).visits = left.visits
    BY <1>1, FireResolves
  <2> QED BY <1>1, <2>1, FireType
<1> HIDE DEF settled
<1>3. IsEdgeState(g, counted) /\ counted.visits = NoteEntries(g, e, n, chosen).visits
  <2> DEFINE inner   == {g.around[t] : t \in chosen \intersect DOMAIN g.around}
             entered == UNION {g.cycles[c].body : c \in {c \in inner : n \notin g.cycles[c].body}}
             noted   == [m \in DOMAIN e.visits |-> IF m \in entered THEN 0 ELSE e.visits[m]]
  <2>1. /\ counted = [settled EXCEPT !.visits = noted]
        /\ NoteEntries(g, e, n, chosen) = [e EXCEPT !.visits = noted]
    BY <1>2 DEF NoteEntries
  <2>2. noted \in [g.nodes -> Nat]
    BY DEF IsEdgeState
  <2> HIDE DEF noted, counted
  <2> QED BY <1>2, <2>1, <2>2 DEF IsEdgeState
<1> HIDE DEF counted
<1>4. Reopen(g, counted, n, kept).visits = counted.visits
  BY <1>3 DEF IsEdgeState, Reopen
<1>5. Advance(g, e, n, chosen) =
        IF n \in DOMAIN g.cycles /\ BackTo(g, n, chosen) # {}
        THEN Reopen(g, counted, n, kept) ELSE counted
  BY <1>k DEF Advance, counted, settled, left
<1> QED BY <1>3, <1>4, <1>5

LEMMA AdvanceNotes ==
  ASSUME NEW g, NEW e, IsEdgeState(g, e), IsNatural(g), IsFlow(g), NEW n, NEW chosen,
         NEW taken \in SUBSET g.pairs, taken = {n} \X chosen
  PROVE  Noted(g, e, n, taken, Advance(g, e, n, chosen))
<1>0. PICK after : after = Advance(g, e, n, chosen)
  OBVIOUS
<1> DEFINE inner   == {g.around[t] : t \in chosen \intersect DOMAIN g.around}
           entered == UNION {g.cycles[c].body : c \in {c \in inner : n \notin g.cycles[c].body}}
<1>1. after.visits = [m \in g.nodes |-> IF m \in entered THEN 0 ELSE e.visits[m]]
  <2>1. NoteEntries(g, e, n, chosen).visits
          = [m \in DOMAIN e.visits |-> IF m \in entered THEN 0 ELSE e.visits[m]]
    BY DEF NoteEntries, IsEdgeState
  <2>2. DOMAIN e.visits = g.nodes
    BY DEF IsEdgeState
  <2> HIDE DEF entered
  <2> QED BY <1>0, <2>1, <2>2, AdvanceVisits
<1>2. \A m : m \in entered <=>
               \E t \in chosen \intersect DOMAIN g.around :
                 n \notin g.cycles[g.around[t]].body /\ m \in g.cycles[g.around[t]].body
  OBVIOUS
<1> HIDE DEF entered
<1>3. SUFFICES ASSUME NEW c \in DOMAIN g.cycles
               PROVE  /\ n \notin g.cycles[c].body /\ (\E x \in taken : x[2] = HeadOf(g, c))
                           => after.visits[c] = 0
                      /\ after.visits[c] # e.visits[c] =>
                           \E o \in DOMAIN g.cycles, x \in taken :
                             n \notin g.cycles[o].body /\ c \in g.cycles[o].body /\ x[2] \in g.cycles[o].body
  BY <1>0 DEF Noted
<1>4. c \in g.cycles[c].body /\ c \in g.nodes
  BY DEF IsNatural, IsFlow
<1>5. ASSUME n \notin g.cycles[c].body, NEW x \in taken, x[2] = HeadOf(g, c)
      PROVE  after.visits[c] = 0
  <2>1. PICK h : h = HeadOf(g, c)
    OBVIOUS
  <2>2. h \in DOMAIN g.around /\ g.around[h] = c
    BY <2>1 DEF IsNatural
  <2>3. h \in chosen
    BY <1>5, <2>1
  <2> QED BY <1>1, <1>2, <1>4, <1>5, <2>2, <2>3
<1>6. ASSUME after.visits[c] # e.visits[c]
      PROVE  \E o \in DOMAIN g.cycles, x \in taken :
               n \notin g.cycles[o].body /\ c \in g.cycles[o].body /\ x[2] \in g.cycles[o].body
  <2>1. c \in entered
    BY <1>1, <1>4, <1>6
  <2>2. PICK t \in chosen \intersect DOMAIN g.around :
          n \notin g.cycles[g.around[t]].body /\ c \in g.cycles[g.around[t]].body
    BY <1>2, <2>1
  <2>3. g.around[t] \in DOMAIN g.cycles /\ t \in g.cycles[g.around[t]].body
    BY DEF IsNatural
  <2>4. <<n, t>> \in taken /\ <<n, t>>[2] = t
    OBVIOUS
  <2> QED BY <2>2, <2>3, <2>4
<1> QED BY <1>5, <1>6

\* A node that returned follows edges out of it, and goes back only while the
\* count allows it.
LEMMA ReturnedCounts ==
  ASSUME TypeOK, IsNatural(graph), NEW n \in graph.nodes, SettleReturned(n)
  PROVE  \E taken, kept :
           /\ Returned(n, taken, kept)
           /\ Noted(graph, edges, n, taken, edges')
           /\ taken \intersect graph.back # {} => ~Exhausted(n)
<1>g. IsGraph(graph) /\ IsFlow(graph) /\ IsEdgeState(graph, edges)
  BY AcceptedIsGraph, AcceptedFlows DEF TypeOK, graph
<1>1. PICK chosen \in Selections(n) :
        /\ edges' = Advance(graph, edges, n, chosen)
        /\ Follow(n, chosen)
  BY DEF SettleReturned
<1>2. PICK kept : kept = KeptBack(graph, n, chosen)
  OBVIOUS
<1>3. PICK taken : taken = {n} \X chosen
  OBVIOUS
<1>4. taken \in SUBSET graph.pairs
  BY <1>g, <1>3, SelectionsAreEdges
<1>5. Noted(graph, edges, n, taken, Advance(graph, edges, n, chosen))
  BY <1>g, <1>3, <1>4, AdvanceNotes
<1>6. ASSUME taken \intersect graph.back # {}, Exhausted(n) PROVE FALSE
  <2>1. n \in DOMAIN graph.cycles /\ chosen = {graph.cycles[n].then}
    BY <1>6 DEF Exhausted, Selections
  <2>2. PICK x \in taken : x \in graph.back /\ x = <<n, graph.cycles[n].then>>
    BY <1>3, <1>6, <2>1
  <2>3. x[1] = n /\ x[2] = graph.cycles[n].then
    BY <2>2
  <2>4. graph.cycles[n].then = HeadOf(graph, n)
    BY <2>2, <2>3 DEF IsNatural
  <2>5. HeadOf(graph, n) \in graph.cycles[n].body /\ graph.cycles[n].then \notin graph.cycles[n].body
    BY <2>1 DEF IsNatural
  <2> QED BY <2>4, <2>5
<1>7. Returned(n, taken, kept)
  BY <1>1, <1>2, <1>3, ReturnedBy
<1>8. Noted(graph, edges, n, taken, edges')
  BY <1>1, <1>5
<1> QED BY <1>6, <1>7, <1>8

LEMMA FollowRounds ==
  ASSUME TypeOK, NEW n, NEW taken, Follow(n, {x[2] : x \in taken})
  PROVE  RoundsAfter(graph, rounds, n, taken, rounds')
<1> DEFINE targets == {x[2] : x \in taken}
<1>1. rounds' = [c \in DOMAIN rounds |->
        IF n \notin graph.cycles[c].body /\ targets \intersect graph.cycles[c].body # {}
        THEN 0 ELSE rounds[c]]
  BY DEF Follow
<1>2. \A S : targets \intersect S # {} <=> \E x \in taken : x[2] \in S
  OBVIOUS
<1> HIDE DEF targets
<1>3. DOMAIN rounds = DOMAIN graph.cycles
  BY DEF TypeOK
<1> QED BY <1>1, <1>2, <1>3 DEF RoundsAfter


LEMMA CountedFewer ==
  ASSUME NEW g, NEW e, NEW r, NEW stopped, NEW out, NEW ahead, Counted(g, e, r, stopped, out, ahead),
         NEW after, after.visits = e.visits, e.done \subseteq after.done,
         \A c \in DOMAIN g.cycles : Begun(g, after, c) => Begun(g, e, c)
  PROVE  Counted(g, after, r, stopped, out, ahead)
BY DEF Counted

\* The nodes of a batch are entered: those the run stopped inside go on with the
\* visit they had, the others are a round ahead.
LEMMA CountedEnter ==
  ASSUME NEW g, NEW e, IsEdgeState(g, e), IsNatural(g), IsFlow(g), NEW r \in [DOMAIN g.cycles -> Nat],
         NEW nodes, NEW stopped, nodes \intersect e.done \subseteq stopped,
         Counted(g, e, r, stopped, stopped \ (nodes \intersect e.done), {})
  PROVE  Counted(g, Enter(e, nodes \ e.done), r, stopped, stopped \ nodes, nodes \ stopped)
<1>0. PICK fresh : fresh = nodes \ e.done
  OBVIOUS
<1>a. PICK after : after = Enter(e, fresh)
  OBVIOUS
<1>1. /\ after.fired = e.fired /\ after.done = e.done \union fresh
      /\ after.visits = [m \in g.nodes |-> e.visits[m] + (IF m \in fresh THEN 1 ELSE 0)]
  BY <1>a, EnterResolves
<1>2. SUFFICES ASSUME NEW c \in DOMAIN g.cycles
               PROVE  /\ Begun(g, after, c) =>
                           after.visits[c] + (IF c \in stopped \ nodes THEN 1 ELSE 0)
                             = r[c] + (IF c \in nodes \ stopped THEN 1 ELSE 0)
                      /\ Begun(g, after, c) /\ c \notin stopped /\ (c \notin after.done \/ c \in nodes \ stopped)
                           => r[c] < g.cycles[c].max_iterations
                      /\ r[c] <= g.cycles[c].max_iterations
                      /\ c \in stopped => r[c] >= 1
  BY <1>0, <1>a DEF Counted
<1>3. Begun(g, after, c) => Begun(g, e, c)
  BY <1>1 DEF Begun
<1>4. /\ Begun(g, e, c) => e.visits[c] + (IF c \in stopped \ (nodes \intersect e.done) THEN 1 ELSE 0)
                             = r[c] + (IF c \in {} THEN 1 ELSE 0)
      /\ Begun(g, e, c) /\ c \notin stopped /\ (c \notin e.done \/ c \in {})
           => r[c] < g.cycles[c].max_iterations
      /\ r[c] <= g.cycles[c].max_iterations
      /\ c \in stopped => r[c] >= 1
  BY DEF Counted
<1>5. c \in g.nodes /\ e.visits[c] \in Nat /\ r[c] \in Nat
  BY DEF IsNatural, IsFlow, IsEdgeState
<1>6. after.visits[c] = e.visits[c] + (IF c \in fresh THEN 1 ELSE 0)
  BY <1>1, <1>5
<1>7. CASE c \in nodes /\ c \in e.done
  BY <1>0, <1>1, <1>3, <1>4, <1>5, <1>6, <1>7
<1>8. CASE c \in nodes /\ c \notin e.done
  BY <1>0, <1>1, <1>3, <1>4, <1>5, <1>6, <1>8
<1>9. CASE c \notin nodes
  BY <1>0, <1>1, <1>3, <1>4, <1>5, <1>6, <1>9
<1> QED BY <1>7, <1>8, <1>9

\* A node of the batch runs: the visit it was ahead becomes a round, or it goes
\* on where the run stopped.
RoundRun(g, r, n, stopped, r2) ==
  \A c \in DOMAIN g.cycles : r2[c] = r[c] + (IF c = n /\ n \notin stopped THEN 1 ELSE 0)

LEMMA CountedRuns ==
  ASSUME NEW g, NEW e, NEW r \in [DOMAIN g.cycles -> Nat], NEW stopped, NEW out, NEW ahead,
         IsNatural(g), Counted(g, e, r, stopped, out, ahead), ahead \intersect stopped = {},
         NEW n, n \in e.done, n \notin out, n \in ahead \union stopped,
         n \in DOMAIN g.cycles => Begun(g, e, n),
         NEW r2, RoundRun(g, r, n, stopped, r2),
         NEW stopped2, stopped2 = stopped \ {n}, NEW ahead2, ahead2 = ahead \ {n}
  PROVE  /\ Counted(g, e, r2, stopped2, out, ahead2)
         /\ n \in DOMAIN g.cycles => r2[n] >= 1
<1>1. ASSUME NEW c \in DOMAIN g.cycles
      PROVE  /\ Begun(g, e, c) => e.visits[c] + (IF c \in out THEN 1 ELSE 0)
                                    = r2[c] + (IF c \in ahead \ {n} THEN 1 ELSE 0)
             /\ Begun(g, e, c) /\ c \notin stopped \ {n} /\ (c \notin e.done \/ c \in ahead \ {n})
                  => r2[c] < g.cycles[c].max_iterations
             /\ r2[c] <= g.cycles[c].max_iterations
             /\ c \in stopped \ {n} => r2[c] >= 1
             /\ c = n => r2[n] >= 1
  <2>1. r[c] \in Nat /\ g.cycles[c].max_iterations \in Nat
    BY DEF IsNatural
  <2>2. r2[c] = r[c] + (IF c = n /\ n \notin stopped THEN 1 ELSE 0)
    BY DEF RoundRun
  <2>3. /\ Begun(g, e, c) => e.visits[c] + (IF c \in out THEN 1 ELSE 0)
                               = r[c] + (IF c \in ahead THEN 1 ELSE 0)
        /\ Begun(g, e, c) /\ c \notin stopped /\ (c \notin e.done \/ c \in ahead)
             => r[c] < g.cycles[c].max_iterations
        /\ r[c] <= g.cycles[c].max_iterations
        /\ c \in stopped => r[c] >= 1
    BY DEF Counted
  <2>4. CASE c # n
    BY <2>1, <2>2, <2>3, <2>4
  <2>5. CASE c = n /\ n \in stopped
    BY <2>1, <2>2, <2>3, <2>5
  <2>6. CASE c = n /\ n \notin stopped
    <3>1. c \in ahead /\ Begun(g, e, c) /\ c \notin out /\ c \in e.done
      BY <2>6
    <3>2. r2[c] = r[c] + 1 /\ r[c] < g.cycles[c].max_iterations
      BY <2>2, <2>3, <2>6, <3>1
    <3>3. e.visits[c] + 0 = r[c] + 1
      BY <2>3, <3>1
    <3> QED BY <2>1, <2>6, <3>1, <3>2, <3>3
  <2> QED BY <2>4, <2>5, <2>6
<1>2. Counted(g, e, r2, stopped \ {n}, out, ahead \ {n})
  BY <1>1 DEF Counted
<1> QED BY <1>1, <1>2

\* A node drained before it ran is taken back.
LEMMA CountedUnenter ==
  ASSUME NEW g, NEW e, IsEdgeState(g, e), IsNatural(g), IsFlow(g), NEW r \in [DOMAIN g.cycles -> Nat],
         NEW stopped, NEW out, NEW ahead, ahead \intersect stopped = {},
         Counted(g, e, r, stopped, out, ahead), NEW n, n \notin out, n \in ahead \union stopped,
         n \in DOMAIN g.cycles => Begun(g, e, n),
         NEW out2, out2 = out \union ({n} \intersect stopped)
  PROVE  Counted(g, Unenter(e, n), r, stopped, out2, ahead \ {n})
<1>a. PICK after : after = Unenter(e, n)
  OBVIOUS
<1>1. after.fired = e.fired /\ after.done \subseteq e.done /\ e.done \subseteq after.done \union {n}
  BY <1>a, UnenterResolves
<1>2. /\ \A c \in g.nodes \ {n} : after.visits[c] = e.visits[c]
      /\ n \in g.nodes /\ e.visits[n] >= 1 => after.visits[n] = e.visits[n] - 1
  BY <1>a DEF Unenter, IsEdgeState
<1>3. SUFFICES ASSUME NEW c \in DOMAIN g.cycles
               PROVE  /\ Begun(g, after, c) => after.visits[c] + (IF c \in out2 THEN 1 ELSE 0)
                                                 = r[c] + (IF c \in ahead \ {n} THEN 1 ELSE 0)
                      /\ Begun(g, after, c) /\ c \notin stopped /\ (c \notin after.done \/ c \in ahead \ {n})
                           => r[c] < g.cycles[c].max_iterations
                      /\ r[c] <= g.cycles[c].max_iterations
                      /\ c \in stopped => r[c] >= 1
  BY <1>a DEF Counted
<1>4. Begun(g, after, c) <=> Begun(g, e, c)
  BY <1>1 DEF Begun
<1>5. /\ Begun(g, e, c) => e.visits[c] + (IF c \in out THEN 1 ELSE 0)
                             = r[c] + (IF c \in ahead THEN 1 ELSE 0)
      /\ Begun(g, e, c) /\ c \notin stopped /\ (c \notin e.done \/ c \in ahead)
           => r[c] < g.cycles[c].max_iterations
      /\ r[c] <= g.cycles[c].max_iterations
      /\ c \in stopped => r[c] >= 1
  BY DEF Counted
<1>6. c \in g.nodes /\ e.visits[c] \in Nat /\ r[c] \in Nat
  BY DEF IsNatural, IsFlow, IsEdgeState
<1>7. CASE c # n
  <2>1. after.visits[c] = e.visits[c]
    BY <1>2, <1>6, <1>7
  <2>2. c \in out2 <=> c \in out
    BY <1>7
  <2>3. c \in after.done <=> c \in e.done
    BY <1>1, <1>7
  <2> QED BY <1>4, <1>5, <1>7, <2>1, <2>2, <2>3
<1>8. CASE c = n /\ n \in stopped
  <2>1. c \in out2 /\ c \notin ahead /\ c \notin out /\ Begun(g, e, c)
    BY <1>8
  <2>2. e.visits[c] + 0 = r[c] + 0 /\ r[c] >= 1
    BY <1>5, <1>8, <2>1
  <2>3. after.visits[c] = e.visits[c] - 1
    BY <1>2, <1>6, <1>8, <2>2
  <2> QED BY <1>5, <1>6, <1>8, <2>1, <2>2, <2>3
<1>9. CASE c = n /\ n \notin stopped
  <2>1. c \notin out2 /\ c \in ahead /\ c \notin out /\ Begun(g, e, c)
    BY <1>9
  <2>2. e.visits[c] + 0 = r[c] + 1 /\ r[c] < g.cycles[c].max_iterations
    BY <1>5, <1>9, <2>1
  <2>3. after.visits[c] = e.visits[c] - 1
    BY <1>2, <1>6, <1>9, <2>2
  <2> QED BY <1>5, <1>6, <1>9, <2>1, <2>2, <2>3
<1> QED BY <1>7, <1>8, <1>9


\* The nodes whose visit counts, of those the run stopped inside, and the nodes
\* that are visited and have not run.
Entered == (IF phase = "running" THEN batch ELSE {}) \union (in_progress \intersect edges.done)

Ahead == (IF phase = "running" THEN batch \intersect Is({"queued", "drained"}) ELSE {}) \ interrupted

CountInv ==
  /\ phase \notin Ended =>
       Counted(graph, edges, rounds, interrupted, interrupted \ Entered, Ahead)
  /\ phase = "running" => \A c \in DOMAIN graph.cycles : unit[c] = "running" => rounds[c] >= 1
  /\ saved # NoState =>
       Counted(graph, saved.edges, saved.rounds, saved.interrupted,
               saved.interrupted \ (saved.in_progress \intersect saved.edges.done), {})

LEMMA InitCounts == NaturalLoops /\ BackEdgesCloseCycles /\ Init => CountInv
<1> SUFFICES ASSUME NaturalLoops, BackEdgesCloseCycles, Init PROVE CountInv
  OBVIOUS
<1>g. IsNatural(graph) /\ IsFlow(graph)
  BY AcceptedFlows, NaturalGraphs DEF Init, graph
<1>1. /\ phase = "walking" /\ edges = NewEdges(graph) /\ saved = NoState /\ interrupted = {}
      /\ rounds = [c \in DOMAIN graph.cycles |-> 0]
  BY DEF Init
<1>2. ASSUME NEW c \in DOMAIN graph.cycles
      PROVE  /\ edges.visits[c] = 0 /\ rounds[c] = 0
             /\ graph.cycles[c].max_iterations \in Nat \ {0}
  BY <1>g, <1>1 DEF NewEdges, IsNatural, IsFlow
<1>3. Counted(graph, edges, rounds, {}, {}, {})
  BY <1>2 DEF Counted
<1>4. interrupted \ Entered = {} /\ Ahead = {}
  BY <1>1 DEF Ahead
<1> QED BY <1>1, <1>3, <1>4 DEF CountInv

\* The cycle a node of the batch closes has begun.
LEMMA ActiveBegun ==
  ASSUME NaturalLoops, BackEdgesCloseCycles, TypeOK, StartInv, phase \notin Ended,
         NEW n \in DOMAIN graph.cycles, ~AllAbsent(graph, edges, n)
  PROVE  Begun(graph, edges, n)
<1>1. IsFlow(graph) /\ IsNatural(graph)
  BY AcceptedFlows, NaturalGraphs DEF TypeOK, graph
<1>2. edges.fired \subseteq graph.pairs /\ n \in graph.cycles[n].body /\ Started(graph, edges)
  BY <1>1 DEF TypeOK, IsEdgeState, IsFlow, StartInv
<1> QED BY <1>1, <1>2, ReachedBegun

LEMMA NextCounts ==
  LoopsEndTogether /\ BackEdgesCloseCycles /\ NaturalLoops /\ TypeOK /\ FailuresHandled /\ OverlapInv
    /\ FlowInv /\ CarryInv /\ StartInv /\ StopInv /\ CountInv /\ [Next]_vars => CountInv'
<1> SUFFICES ASSUME LoopsEndTogether, BackEdgesCloseCycles, NaturalLoops, TypeOK, FailuresHandled,
                    OverlapInv, FlowInv, CarryInv, StartInv, StopInv, CountInv, [Next]_vars
             PROVE  CountInv'
  OBVIOUS
<1>g. /\ IsGraph(graph) /\ IsFlow(graph) /\ IsNatural(graph) /\ IsEdgeState(graph, edges)
      /\ \A n \in DOMAIN graph.on_error : <<n, graph.on_error[n]>> \notin graph.back
  BY AcceptedIsGraph, AcceptedFlows, NaturalGraphs DEF TypeOK, graph, BackEdgesCloseCycles
<1>p. pipeline' = pipeline /\ graph' = graph /\ decl' = decl
  BY PipelineStays
<1>r. rounds \in [DOMAIN graph.cycles -> Nat]
  BY DEF TypeOK
<1>0. PICK after : after = edges'
  OBVIOUS
<1>1. CASE EndWalk \/ BudgetSpent
  BY <1>1, <1>p DEF CountInv, EndWalk, BudgetSpent, Ended
<1>2. CASE ChooseBatch
  <2>1. PICK K : after = Skipped(graph, edges, K)
    BY <1>0, <1>2 DEF ChooseBatch, Skip, Skipped
  <2>2. /\ phase = "walking" /\ phase' \in {"walking", "chosen"} /\ in_progress = {}
        /\ in_progress' = {} /\ saved' = saved /\ interrupted' = interrupted /\ rounds' = rounds
    BY <1>2 DEF ChooseBatch, history
  <2>3. Counted(graph, edges, rounds, interrupted, interrupted, {})
    <3>1. interrupted \ Entered = interrupted /\ Ahead = {}
      BY <2>2 DEF Entered, Ahead
    <3> QED BY <2>2, <3>1 DEF CountInv, Ended
  <2>4. /\ after.visits = edges.visits /\ edges.done \subseteq after.done
        /\ after.fired \subseteq edges.fired
    BY <1>g, <2>1, SkipResolves
  <2>5. Counted(graph, after, rounds, interrupted, interrupted, {})
    <3>1. \A c \in DOMAIN graph.cycles : Begun(graph, after, c) => Begun(graph, edges, c)
      BY <2>4 DEF Begun
    <3> QED BY <2>3, <2>4, <3>1, CountedFewer
  <2>6. (interrupted \ Entered)' = interrupted /\ Ahead' = {}
    BY <2>2 DEF Entered, Ahead
  <2> QED BY <1>0, <1>p, <2>2, <2>5, <2>6 DEF CountInv
<1>3. CASE StopBefore
  <2>1. PICK n \in batch : in_progress' = {n}
    BY <1>3 DEF StopBefore
  <2>2. /\ phase = "chosen" /\ phase' = "suspended" /\ saved'.in_progress = {n}
        /\ saved'.edges = edges /\ saved'.interrupted = interrupted /\ saved'.rounds = rounds
    BY <1>3, <2>1 DEF StopBefore, Frame
  <2>3. n \notin edges.done /\ in_progress = {}
    BY <2>2 DEF StopInv, FlowInv
  <2>4. /\ interrupted \ Entered = interrupted /\ Ahead = {}
        /\ interrupted \ ({n} \intersect edges.done) = interrupted
    BY <2>2, <2>3 DEF Entered, Ahead
  <2>5. Counted(graph, edges, rounds, interrupted, interrupted, {})
    BY <2>2, <2>4 DEF CountInv, Ended
  <2> QED BY <1>p, <2>2, <2>4, <2>5 DEF CountInv, Ended
<1>4. CASE StartBatch \/ StartStopped
  <2>1. PICK nodes, fresh :
          /\ fresh = nodes \ edges.done /\ after = Enter(edges, fresh) /\ batch' = nodes
          /\ nodes \intersect edges.done \subseteq interrupted
          /\ interrupted \ Entered = interrupted \ (nodes \intersect edges.done)
    <3>1. CASE StartBatch
      <4>1. PICK nodes \in SUBSET batch : QueueUnits(nodes, FALSE)
        BY <3>1 DEF StartBatch
      <4>2. phase = "chosen" /\ nodes \intersect edges.done = {} /\ in_progress = {}
        BY <3>1 DEF StartBatch, StopInv, FlowInv
      <4>3. nodes = nodes \ edges.done /\ after = Enter(edges, nodes) /\ batch' = nodes
        BY <1>0, <4>1, <4>2 DEF QueueUnits
      <4>4. interrupted \ Entered = interrupted \ (nodes \intersect edges.done)
        BY <4>2 DEF Entered
      <4> QED BY <4>2, <4>3, <4>4
    <3>2. CASE StartStopped
      <4>1. QueueUnits(in_progress, TRUE) /\ phase = "walking"
        BY <3>2 DEF StartStopped
      <4>2. in_progress \intersect edges.done \subseteq interrupted
        BY <4>1 DEF StopInv, Ended
      <4>3. after = Enter(edges, in_progress \ edges.done) /\ batch' = in_progress
        BY <1>0, <4>1 DEF QueueUnits
      <4>4. interrupted \ Entered = interrupted \ (in_progress \intersect edges.done)
        BY <4>1 DEF Entered
      <4> QED BY <4>2, <4>3, <4>4
    <3> QED BY <1>4, <3>1, <3>2
  <2>2. /\ phase \notin Ended /\ phase # "running" /\ phase' = "running" /\ saved' = saved
        /\ in_progress' = {} /\ interrupted' = interrupted /\ rounds' = rounds
        /\ \A n \in graph.nodes : unit'[n] \in {"queued", "idle"} /\ (n \in batch' => unit'[n] = "queued")
    BY <1>4 DEF StartBatch, StartStopped, QueueUnits, Ended, FlowInv, history
  <2>3. Counted(graph, edges, rounds, interrupted, interrupted \ (nodes \intersect edges.done), {})
    <3>1. Ahead = {}
      BY <2>2 DEF Ahead
    <3> QED BY <2>1, <2>2, <3>1 DEF CountInv
  <2>4. Counted(graph, after, rounds, interrupted, interrupted \ nodes, nodes \ interrupted)
    BY <1>g, <1>r, <2>1, <2>3, CountedEnter
  <2>5. nodes \subseteq graph.nodes
    <3>1. nodes \subseteq batch \union in_progress
      BY <1>4, <2>1 DEF StartBatch, StartStopped, QueueUnits
    <3> QED BY <3>1 DEF TypeOK
  <2>6. (interrupted \ Entered)' = interrupted \ nodes /\ Ahead' = nodes \ interrupted
    <3>1. (batch \intersect Is({"queued", "drained"}))' = nodes
      BY <1>p, <2>1, <2>2, <2>5 DEF Is
    <3> QED BY <2>1, <2>2, <3>1 DEF Entered, Ahead
  <2>7. \A c \in DOMAIN graph.cycles : unit'[c] # "running"
    BY <1>g, <2>2 DEF IsFlow, IsNatural
  <2> QED BY <1>0, <1>p, <2>2, <2>4, <2>6, <2>7 DEF CountInv
<1>5. CASE BatchSettled
  <2>1. /\ phase = "running" /\ batch = {} /\ UNCHANGED <<edges, in_progress, interrupted, rounds>>
        /\ phase' \notin {"chosen", "running"} /\ saved' \in {saved, Frame}
    BY <1>5 DEF BatchSettled, MapReturned, frame, history
  <2>2. /\ Frame.edges = edges /\ Frame.in_progress = in_progress /\ Frame.interrupted = interrupted
        /\ Frame.rounds = rounds
    BY DEF Frame
  <2>3. Counted(graph, edges, rounds, interrupted, interrupted \ (in_progress \intersect edges.done), {})
    <3>1. Entered = in_progress \intersect edges.done /\ Ahead = {}
      BY <2>1 DEF Entered, Ahead
    <3> QED BY <2>1, <3>1 DEF CountInv, Ended
  <2>4. (interrupted \ Entered)' = interrupted \ (in_progress \intersect edges.done) /\ Ahead' = {}
    BY <2>1 DEF Entered, Ahead
  <2> QED BY <1>p, <2>1, <2>2, <2>3, <2>4 DEF CountInv, Ended
<1>6. ASSUME NEW n \in graph.nodes, UnitStep(n) PROVE CountInv'
  <2>1. UNCHANGED <<phase, edges, in_progress, batch, saved>> /\ phase = "running"
    BY <1>6 DEF UnitStep, UnitStarts, UnitReturns, UnitRetries, UnitDiverts,
       UnitRaises, UnitSuspends, frame
  <2>2. n \in batch /\ n \in edges.done /\ n \in Entered
    <3>1. n \in Is({"queued", "running"})
      BY <1>6 DEF UnitStep, UnitStarts, UnitReturns, UnitRetries, UnitDiverts,
         UnitRaises, UnitSuspends, Is
    <3> QED BY <2>1, <3>1 DEF OverlapInv, FlowInv, Entered
  <2>3. PICK out, ahead : out = interrupted \ Entered /\ ahead = Ahead
    OBVIOUS
  <2>4. /\ Counted(graph, edges, rounds, interrupted, out, ahead) /\ n \notin out
        /\ ahead \intersect interrupted = {}
        /\ \A c \in DOMAIN graph.cycles : unit[c] = "running" => rounds[c] >= 1
    BY <2>1, <2>2, <2>3 DEF CountInv, Ahead, Ended
  <2>5. Entered' = Entered
    BY <2>1 DEF Entered
  <2>s. ASSUME Counted(graph, edges, rounds', interrupted', out, Ahead'), interrupted' \ Entered = out,
               \A c \in DOMAIN graph.cycles : unit'[c] = "running" => rounds'[c] >= 1
        PROVE  CountInv'
    BY <1>p, <2>1, <2>5, <2>s DEF CountInv
  <2>6. CASE UnitStarts(n)
    <3>1. /\ unit[n] = "queued" /\ unit' = [unit EXCEPT ![n] = "running"]
          /\ interrupted' = interrupted \ {n}
          /\ rounds' = [c \in DOMAIN rounds |->
                          rounds[c] + (IF c = n /\ n \notin interrupted THEN 1 ELSE 0)]
      BY <2>6 DEF UnitStarts
    <3>2. n \in ahead \union interrupted
      BY <2>1, <2>2, <2>3, <3>1 DEF Ahead, Is
    <3>3. n \in DOMAIN graph.cycles => Begun(graph, edges, n)
      <4>1. ~AllAbsent(graph, edges, n)
        BY <2>1, <2>2 DEF CarryInv, Carries, Ended
      <4> QED BY <2>1, <4>1, ActiveBegun DEF Ended
    <3>4. PICK r2 : r2 = rounds'
      OBVIOUS
    <3>5. \A c \in DOMAIN graph.cycles :
            r2[c] = rounds[c] + (IF c = n /\ n \notin interrupted THEN 1 ELSE 0)
      BY <1>r, <3>1, <3>4
    <3>r. RoundRun(graph, rounds, n, interrupted, r2)
      BY <3>5 DEF RoundRun
    <3>a. PICK stopped2, ahead2 : stopped2 = interrupted \ {n} /\ ahead2 = ahead \ {n}
      OBVIOUS
    <3>6. /\ Counted(graph, edges, r2, stopped2, out, ahead2)
          /\ n \in DOMAIN graph.cycles => r2[n] >= 1
      BY <1>g, <1>r, <2>2, <2>4, <3>2, <3>3, <3>r, <3>a, CountedRuns
    <3>7. Ahead' = ahead \ {n}
      <4>1. Is({"queued", "drained"})' = Is({"queued", "drained"}) \ {n}
        BY <1>p, <3>1 DEF Is, TypeOK
      <4> QED BY <2>1, <2>3, <3>1, <4>1 DEF Ahead
    <3>8. interrupted' \ Entered = out
      BY <2>2, <2>3, <3>1
    <3>9. ASSUME NEW c \in DOMAIN graph.cycles, unit'[c] = "running" PROVE rounds'[c] >= 1
      <4>1. CASE c = n
        BY <3>4, <3>6, <3>9, <4>1
      <4>2. CASE c # n
        <5>1. unit[c] = "running"
          BY <3>1, <3>9, <4>2 DEF TypeOK
        <5>2. rounds[c] \in Nat /\ rounds[c] >= 1 /\ rounds'[c] = rounds[c] + 0
          BY <1>r, <2>4, <3>4, <3>5, <4>2, <5>1
        <5> QED BY <5>2
      <4> QED BY <4>1, <4>2
    <3> QED BY <2>s, <3>1, <3>4, <3>a, <3>6, <3>7, <3>8, <3>9
  <2>7. CASE UnitSuspends(n)
    <3>1. /\ unit[n] = "running" /\ Stops(n, "suspended") /\ rounds' = rounds
          /\ interrupted' = interrupted \union {n}
      BY <2>7 DEF UnitSuspends
    <3>2. Counted(graph, edges, rounds, interrupted \union {n}, out, ahead)
      <4>1. n \in DOMAIN graph.cycles => rounds[n] >= 1
        BY <2>4, <3>1
      <4> QED BY <2>4, <4>1 DEF Counted
    <3>3. Ahead' = ahead
      <4>1. Is({"queued", "drained"})' = Is({"queued", "drained"}) /\ n \notin Is({"queued", "drained"})
        BY <1>p, <3>1 DEF Is, Stops
      <4> QED BY <2>1, <2>3, <3>1, <4>1 DEF Ahead
    <3>4. interrupted' \ Entered = out
      BY <2>2, <2>3, <3>1
    <3>5. \A c \in DOMAIN graph.cycles : unit'[c] = "running" => rounds'[c] >= 1
      <4>1. \A c \in DOMAIN graph.cycles : c \in graph.nodes
        BY <1>g DEF IsFlow, IsNatural
      <4> QED BY <2>4, <3>1, <4>1 DEF Stops
    <3> QED BY <2>s, <3>1, <3>2, <3>3, <3>4, <3>5
  <2>8. CASE UnitReturns(n) \/ UnitRetries(n) \/ UnitDiverts(n) \/ UnitRaises(n)
    <3>1. interrupted' = interrupted /\ rounds' = rounds /\ unit[n] = "running"
      BY <2>8 DEF UnitReturns, UnitRetries, UnitDiverts, UnitRaises, history
    <3>2. PICK status \in {"running", "returned", "failure"} :
            unit' = [unit EXCEPT ![n] = status] \/ Stops(n, "raised")
      BY <2>8, <3>1 DEF UnitReturns, UnitRetries, UnitDiverts, UnitRaises, TypeOK
    <3>3. /\ Is({"queued", "drained"})' = Is({"queued", "drained"})
          /\ \A c \in graph.nodes : unit'[c] = "running" => unit[c] = "running"
      BY <1>p, <3>1, <3>2 DEF Is, Stops, TypeOK
    <3>4. Ahead' = ahead
      BY <2>1, <2>3, <3>1, <3>3 DEF Ahead
    <3>5. \A c \in DOMAIN graph.cycles : unit'[c] = "running" => rounds'[c] >= 1
      <4>1. \A c \in DOMAIN graph.cycles : c \in graph.nodes
        BY <1>g DEF IsFlow, IsNatural
      <4> QED BY <2>4, <3>1, <3>3, <4>1
    <3> QED BY <2>3, <2>4, <2>s, <3>1, <3>4, <3>5
  <2> QED BY <1>6, <2>6, <2>7, <2>8 DEF UnitStep
<1>7. ASSUME NEW n \in graph.nodes, SettleStep(n) PROVE CountInv'
  <2>1. /\ phase = "running" /\ n \in batch /\ batch' = batch \ {n}
        /\ phase' \in {"running", "failed"} /\ saved' = saved
        /\ interrupted' = interrupted /\ unit' = unit /\ Is({"queued", "running"}) = {}
    <3>1. /\ phase = "running" /\ n \in batch /\ batch' = batch \ {n} /\ Is({"queued", "running"}) = {}
      BY <1>7 DEF SettleStep, SettleReturned, SettleFailure, SettleDrained,
         SettleSuspended, SettleRaised, RouteRaises, Settling, MapReturned, IsFirst
    <3>2. saved' = saved /\ phase' \in {phase, "failed"} /\ interrupted' = interrupted /\ unit' = unit
      BY <1>7 DEF SettleStep, SettleReturned, SettleFailure, SettleDrained,
         SettleSuspended, SettleRaised, RouteRaises, Follow, history
    <3> QED BY <3>1, <3>2
  <2>2. PICK out, ahead : out = interrupted \ Entered /\ ahead = Ahead
    OBVIOUS
  <2>3. /\ Counted(graph, edges, rounds, interrupted, out, ahead)
        /\ n \in edges.done /\ n \notin in_progress /\ n \notin out
        /\ ahead \subseteq batch /\ ahead \intersect interrupted = {}
        /\ Is({"suspended"}) \subseteq interrupted /\ Is(InHand) \intersect interrupted = {}
    BY <2>1, <2>2 DEF CountInv, FlowInv, StopInv, Entered, Ahead, Ended
  <2>s. ASSUME Counted(graph, after, rounds', interrupted, (interrupted \ Entered)', Ahead')
        PROVE  CountInv'
    <3>1. \A c \in DOMAIN graph.cycles : unit'[c] # "running"
      <4>1. \A c \in DOMAIN graph.cycles : c \in graph.nodes
        BY <1>g DEF IsFlow, IsNatural
      <4> QED BY <2>1, <4>1 DEF Is
    <3> QED BY <1>0, <1>p, <2>1, <2>s, <3>1 DEF CountInv, Ended
  <2>u. ASSUME unit[n] \in {"returned", "failure", "raised"}
        PROVE  n \notin interrupted /\ n \notin ahead
    BY <2>1, <2>2, <2>3, <2>u DEF Is, InHand, Ahead
  <2>d. ASSUME n \notin interrupted, n \notin ahead, phase' = "running", in_progress' = in_progress,
               in_progress \intersect after.done = in_progress \intersect edges.done
        PROVE  (interrupted \ Entered)' = out /\ Ahead' = ahead
    <3>1. Is({"queued", "drained"})' = Is({"queued", "drained"})
      BY <1>p, <2>1 DEF Is
    <3>2. Ahead' = ahead
      BY <2>1, <2>2, <2>d, <3>1 DEF Ahead
    <3>3. (interrupted \ Entered)' = out
      BY <1>0, <2>1, <2>2, <2>d DEF Entered
    <3> QED BY <3>2, <3>3
  <2>4. PICK all : all = batch \union in_progress \union interrupted
    OBVIOUS
  <2>5. Awaited(graph, edges, all) /\ all \subseteq graph.nodes /\ n \in all
    <3>1. Awaited(graph, edges, all)
      BY <2>1, <2>4, ActiveAwaited DEF Ended
    <3> QED BY <2>1, <2>4, <3>1 DEF TypeOK
  <2>b. n \in DOMAIN graph.cycles => Begun(graph, edges, n)
    BY <2>1, <2>5, ActiveBegun DEF Awaited, Ended
  <2>6. CASE SettleReturned(n)
    <3>1. PICK taken, kept :
            /\ Returned(n, taken, kept)
            /\ Noted(graph, edges, n, taken, edges')
            /\ taken \intersect graph.back # {} => ~Exhausted(n)
      BY <1>g, <2>6, ReturnedCounts
    <3>2. /\ n \notin interrupted /\ n \notin ahead /\ in_progress' = in_progress /\ phase' = "running"
      BY <2>1, <2>6, <2>u DEF SettleReturned, Settling
    <3>3. in_progress \intersect after.done = in_progress \intersect edges.done
      <4>1. (all \ {n}) \intersect edges.done \subseteq after.done
        BY <1>0, <2>3, <2>5, <3>1, FlowsReturned DEF Awaited
      <4>2. after.done \subseteq edges.done
        BY <1>0, <3>1 DEF Returned
      <4> QED BY <2>3, <2>4, <4>1, <4>2
    <3>4. taken \in SUBSET OutOf(graph, {n}) /\ Follow(n, {x[2] : x \in taken})
      BY <3>1 DEF Returned
    <3>5. after.fired \subseteq edges.fired \union taken
      BY <1>0, <3>1 DEF Returned, Advanced, WentBack
    <3>6. \/ after.done = edges.done
          \/ /\ n \in DOMAIN graph.cycles /\ after.done = edges.done \ graph.cycles[n].body
             /\ edges.visits[n] < graph.cycles[n].max_iterations
             /\ \A y \in after.fired : y[1] \in graph.cycles[n].body => y \in graph.back
      <4>1. CASE edges'.done = edges.done
        BY <1>0, <4>1
      <4>2. CASE /\ n \in DOMAIN graph.cycles /\ taken \intersect graph.back # {}
                 /\ kept \subseteq taken \intersect graph.back
                 /\ WentBack(graph, edges, n, taken, kept, edges')
                 /\ edges'.done = edges.done \ graph.cycles[n].body
        <5>1. edges.visits[n] < graph.cycles[n].max_iterations
          <6>1. edges.visits[n] \in Nat /\ graph.cycles[n].max_iterations \in Nat
            BY <1>g, <4>2 DEF IsEdgeState, IsNatural
          <6> QED BY <3>1, <4>2, <6>1 DEF Exhausted
        <5>2. ASSUME NEW y \in after.fired, y[1] \in graph.cycles[n].body PROVE y \in graph.back
          <6>1. y \notin OutOf(graph, graph.cycles[n].body) \ kept
            BY <1>0, <4>2, <5>2 DEF WentBack
          <6>2. y \in graph.pairs
            BY <1>g, <3>4, <3>5, <5>2 DEF IsEdgeState, OutOf
          <6> QED BY <4>2, <5>2, <6>1, <6>2 DEF OutOf
        <5> QED BY <1>0, <4>2, <5>1, <5>2
      <4> QED BY <3>1, <4>1, <4>2 DEF Returned
    <3>7. PICK r2 : r2 = rounds'
      OBVIOUS
    <3>8. RoundsAfter(graph, rounds, n, taken, r2) /\ Noted(graph, edges, n, taken, after)
      BY <1>0, <3>1, <3>4, <3>7, FollowRounds
    <3>9. /\ interrupted \in SUBSET (all \ {n}) /\ out \in SUBSET interrupted
          /\ ahead \in SUBSET (all \ {n})
      BY <2>2, <2>3, <2>4, <3>2
    <3>10. Counted(graph, after, r2, interrupted, out, ahead)
      BY <1>g, <1>r, <2>3, <2>5, <3>4, <3>5, <3>6, <3>8, <3>9, CountedReturned DEF Awaited
    <3> QED BY <2>d, <2>s, <3>2, <3>3, <3>7, <3>10
  <2>7. CASE SettleFailure(n)
    <3>1. PICK taken : taken = {<<n, graph.on_error[n]>>}
      OBVIOUS
    <3>2. n \in DOMAIN graph.on_error /\ taken \subseteq graph.pairs
      BY <1>g, <2>7, <3>1 DEF SettleFailure, Settling, FailuresHandled, Is, IsGraph
    <3>3. /\ after.fired = (edges.fired \ OutOf(graph, {n})) \union taken
          /\ after.done = edges.done /\ after.visits = edges.visits
      <4>1. /\ Divert(graph, edges, n).fired
                 = (edges.fired \ OutOf(graph, {n})) \union {<<n, graph.on_error[n]>>}
            /\ Divert(graph, edges, n).done = edges.done
            /\ Divert(graph, edges, n).visits = edges.visits
        <5>1. IsEdgeState(graph, edges) /\ <<n, graph.on_error[n]>> \in graph.pairs
          BY <1>g, <3>1, <3>2
        <5> QED BY <5>1, DivertResolves
      <4>2. after = Divert(graph, edges, n)
        BY <1>0, <2>7 DEF SettleFailure
      <4> QED BY <3>1, <4>1, <4>2
    <3>4. \A c \in DOMAIN graph.cycles :
            graph.on_error[n] \in graph.cycles[c].body => n \in graph.cycles[c].body
      BY <1>g, <3>2 DEF IsNatural
    <3>5. rounds' = rounds
      <4>1. Follow(n, {graph.on_error[n]})
        BY <2>7 DEF SettleFailure
      <4>2. \A c \in DOMAIN rounds : rounds'[c] = rounds[c]
        BY <1>r, <3>4, <4>1 DEF Follow
      <4> QED BY <1>r, <4>1, <4>2 DEF Follow
    <3>6. ASSUME NEW c \in DOMAIN graph.cycles, Begun(graph, after, c) PROVE Begun(graph, edges, c)
      <4> SUFFICES ASSUME NEW x \in taken, x \in Forward(graph), x[2] = HeadOf(graph, c) PROVE FALSE
        BY <3>3, <3>6 DEF Begun
      <4>1. x[1] = n /\ x[2] = graph.on_error[n]
        BY <3>1
      <4>2. HeadOf(graph, c) \in graph.cycles[c].body
        BY <1>g DEF IsNatural
      <4>3. n \in graph.cycles[c].body
        BY <3>4, <4>1, <4>2
      <4> QED BY <1>g, <4>1, <4>3, NoWayBack
    <3>7. Counted(graph, after, rounds, interrupted, out, ahead)
      BY <2>3, <3>3, <3>6, CountedFewer
    <3>8. n \notin interrupted /\ n \notin ahead /\ in_progress' = in_progress /\ phase' = "running"
      BY <2>1, <2>7, <2>u DEF SettleFailure, Settling
    <3> QED BY <2>d, <2>s, <3>3, <3>5, <3>7, <3>8
  <2>8. CASE SettleDrained(n)
    <3>1. /\ after = Unenter(edges, n) /\ in_progress' = in_progress /\ rounds' = rounds
          /\ phase' = "running" /\ unit[n] = "drained"
      BY <1>0, <2>1, <2>8 DEF SettleDrained, history, Settling
    <3>2. n \in ahead \union interrupted
      BY <2>1, <2>2, <3>1 DEF Ahead, Is
    <3>3. PICK out2, ahead2 : out2 = out \union ({n} \intersect interrupted) /\ ahead2 = ahead \ {n}
      OBVIOUS
    <3>4. Counted(graph, after, rounds, interrupted, out2, ahead2)
      BY <1>g, <1>r, <2>3, <2>b, <3>1, <3>2, <3>3, CountedUnenter
    <3>5. /\ after.done \subseteq edges.done /\ edges.done \subseteq after.done \union {n}
      BY <1>g, <3>1, UnenterResolves
    <3>6. (interrupted \ Entered)' = out2
      BY <1>0, <2>1, <2>2, <2>3, <3>1, <3>3, <3>5 DEF Entered
    <3>7. Ahead' = ahead2
      <4>1. Is({"queued", "drained"})' = Is({"queued", "drained"})
        BY <1>p, <2>1 DEF Is
      <4> QED BY <2>1, <2>2, <3>1, <3>3, <4>1 DEF Ahead
    <3> QED BY <2>s, <3>1, <3>4, <3>6, <3>7
  <2>9. CASE SettleSuspended(n)
    <3>1. /\ after = edges /\ in_progress' = in_progress \union {n} /\ rounds' = rounds
          /\ phase' = "running" /\ unit[n] = "suspended"
      BY <1>0, <2>1, <2>9 DEF SettleSuspended, Settling, history
    <3>2. (interrupted \ Entered)' = out
      BY <1>0, <2>1, <2>2, <2>3, <3>1 DEF Entered
    <3>3. Ahead' = ahead
      <4>1. Is({"queued", "drained"})' = Is({"queued", "drained"}) /\ n \notin Is({"queued", "drained"})
        BY <1>p, <2>1, <3>1 DEF Is
      <4> QED BY <2>1, <2>2, <3>1, <4>1 DEF Ahead
    <3> QED BY <2>3, <2>s, <3>1, <3>2, <3>3
  <2>10. CASE SettleRaised(n)
    <3>1. /\ after = edges /\ in_progress' = in_progress /\ rounds' = rounds
          /\ phase' = "running" /\ unit[n] = "raised"
      BY <1>0, <2>1, <2>10 DEF SettleRaised, Settling, history, frame
    <3> QED BY <2>3, <2>d, <2>s, <2>u, <3>1
  <2>11. CASE RouteRaises(n)
    BY <1>p, <2>1, <2>11 DEF CountInv, RouteRaises, Ended
  <2> QED BY <1>7, <2>6, <2>7, <2>8, <2>9, <2>10, <2>11 DEF SettleStep
<1>8. CASE Resume
  <2>1. /\ phase' = "walking" /\ edges' = saved.edges /\ in_progress' = saved.in_progress
        /\ interrupted' = saved.interrupted /\ rounds' = saved.rounds /\ saved # NoState /\ saved' = saved
    BY <1>8 DEF Resume
  <2>2. /\ (interrupted \ Entered)' = saved.interrupted \ (saved.in_progress \intersect saved.edges.done)
        /\ Ahead' = {}
    BY <2>1 DEF Entered, Ahead
  <2> QED BY <1>p, <2>1, <2>2 DEF CountInv
<1>9. CASE UNCHANGED vars
  <2>1. (interrupted \ Entered)' = interrupted \ Entered /\ Ahead' = Ahead
    BY <1>9, <1>p DEF Entered, Ahead, Is, vars, frame, units, history
  <2> QED BY <1>9, <1>p, <2>1 DEF CountInv, vars, frame, units, history
<1> QED BY <1>1, <1>2, <1>3, <1>4, <1>5, <1>6, <1>7, <1>8, <1>9 DEF Next, Drive, Over

\* The bound holds where a drive has ended, too.
LEMMA NextBound ==
  TypeOK /\ TypeOK' /\ CountInv' /\ LoopBound /\ [Next]_vars => LoopBound'
<1> SUFFICES ASSUME TypeOK, TypeOK', CountInv', LoopBound, [Next]_vars PROVE LoopBound'
  OBVIOUS
<1>p. graph' = graph
  BY PipelineStays
<1>1. CASE phase' \notin Ended
  <2>1. PICK e, stopped, out, ahead : Counted(graph, e, rounds', stopped, out, ahead)
    BY <1>1, <1>p DEF CountInv, Ended
  <2>2. DOMAIN rounds' = DOMAIN graph.cycles
    BY <1>p DEF TypeOK
  <2> QED BY <1>p, <2>1, <2>2 DEF LoopBound, Counted
<1>2. CASE phase' \in Ended
  <2>1. rounds' = rounds
    <3>1. CASE \E n \in graph.nodes : UnitStep(n)
      BY <1>2, <3>1 DEF UnitStep, UnitStarts, UnitReturns, UnitRetries, UnitDiverts,
         UnitRaises, UnitSuspends, Ended, history
    <3>2. CASE \E n \in graph.nodes : SettleStep(n)
      BY <1>2, <3>2 DEF SettleStep, SettleReturned, SettleFailure, SettleDrained,
         SettleSuspended, SettleRaised, RouteRaises, Settling, MapReturned, Ended, history
    <3>3. CASE \/ EndWalk \/ ChooseBatch \/ BudgetSpent \/ StopBefore \/ StartBatch
               \/ StartStopped \/ BatchSettled \/ UNCHANGED vars
      BY <3>3 DEF EndWalk, ChooseBatch, BudgetSpent, StopBefore, StartBatch,
         StartStopped, BatchSettled, vars, history
    <3>4. CASE Resume
      BY <1>2, <3>4 DEF Resume, Ended
    <3> QED BY <3>1, <3>2, <3>3, <3>4 DEF Next, Drive, Over
  <2> QED BY <1>p, <2>1 DEF LoopBound
<1> QED BY <1>1, <1>2

\* What the two theorems below are carried by, from the first state on.
RoundInv ==
  TypeOK /\ FailuresHandled /\ OverlapInv /\ FlowInv /\ CarryInv /\ StartInv /\ StopInv /\ CountInv

LEMMA InitRounds == NaturalLoops /\ BackEdgesCloseCycles /\ Init => RoundInv
BY InitType, InitOverlap, InitFlow, InitCarry, InitStart, InitStops, InitCounts DEF RoundInv

LEMMA NextRounds ==
  LoopsEndTogether /\ BackEdgesCloseCycles /\ NaturalLoops /\ RoundInv /\ [Next]_vars => RoundInv'
BY NextType, NextFailures, NextOverlap, NextFlow, NextCarry, NextStart, NextStops, NextCounts
   DEF RoundInv

\* In every run of every accepted pipeline whose loops nest and go back to their
\* heads, the node that closes a cycle runs with the count of the round it is in:
\* the loop was entered once (EdgeState.enter), and drained, suspended and resumed
\* nodes were neither counted twice nor forgotten (EdgeState.unenter).
THEOREM RoundsAreCounted ==
  LoopsEndTogether /\ BackEdgesCloseCycles /\ NaturalLoops /\ Spec => []CountsAreRounds
<1> DEFINE Hyp == LoopsEndTogether /\ BackEdgesCloseCycles /\ NaturalLoops
<1>1. Hyp /\ Init => RoundInv
  BY InitRounds
<1>2. Hyp /\ RoundInv /\ [Next]_vars => RoundInv'
  BY NextRounds
<1>3. Hyp /\ RoundInv => CountsAreRounds
  <2> SUFFICES ASSUME Hyp, RoundInv, NEW c \in Is({"running"}) \intersect DOMAIN rounds
               PROVE  edges.visits[c] = rounds[c]
    BY DEF CountsAreRounds
  <2>1. phase = "running" /\ c \in batch /\ unit[c] = "running"
    BY DEF RoundInv, OverlapInv, Is
  <2>2. c \in DOMAIN graph.cycles /\ rounds[c] \in Nat /\ edges.visits[c] \in Nat
    <3>1. rounds \in [DOMAIN graph.cycles -> Nat] /\ edges.visits \in [graph.nodes -> Nat]
      BY DEF RoundInv, TypeOK, IsEdgeState
    <3>2. batch \subseteq graph.nodes
      BY DEF RoundInv, TypeOK
    <3> QED BY <2>1, <3>1, <3>2
  <2>3. Begun(graph, edges, c)
    <3>1. ~AllAbsent(graph, edges, c)
      BY <2>1 DEF RoundInv, CarryInv, Carries, Ended
    <3> QED BY <2>1, <2>2, <3>1, ActiveBegun DEF RoundInv, Ended
  <2>4. Counted(graph, edges, rounds, interrupted, interrupted \ Entered, Ahead)
    BY <2>1 DEF RoundInv, CountInv, Ended
  <2>5. c \notin interrupted \ Entered /\ c \notin Ahead
    BY <2>1 DEF Entered, Ahead, Is
  <2> QED BY <2>2, <2>3, <2>4, <2>5 DEF Counted
<1>4. Hyp => Hyp'
  BY DEF LoopsEndTogether, BackEdgesCloseCycles, NaturalLoops, RoundsEnd
<1> HIDE DEF Hyp
<1>5. Hyp /\ Spec => []CountsAreRounds
  BY <1>1, <1>2, <1>3, <1>4, PTL DEF Spec
<1> QED BY <1>5 DEF Hyp

\* In every such run no loop goes round more often than its Loop says, whatever
\* its route returns and however often the run is stopped and resumed
\* (Pipeline._chosen, EdgeState.exhausted).
THEOREM LoopsAreBounded ==
  LoopsEndTogether /\ BackEdgesCloseCycles /\ NaturalLoops /\ Spec => []LoopBound
<1> DEFINE Hyp == LoopsEndTogether /\ BackEdgesCloseCycles /\ NaturalLoops
<1>1. Hyp /\ Init => RoundInv /\ LoopBound
  <2> SUFFICES ASSUME Hyp, Init PROVE RoundInv /\ LoopBound
    OBVIOUS
  <2>1. RoundInv
    BY InitRounds
  <2>2. PICK e, stopped, out, ahead : Counted(graph, e, rounds, stopped, out, ahead)
    BY <2>1 DEF RoundInv, CountInv, Init, Ended
  <2>3. DOMAIN rounds = DOMAIN graph.cycles
    BY <2>1 DEF RoundInv, TypeOK
  <2> QED BY <2>1, <2>2, <2>3 DEF LoopBound, Counted
<1>2. Hyp /\ RoundInv /\ LoopBound /\ [Next]_vars => (RoundInv /\ LoopBound)'
  <2>1. Hyp /\ RoundInv /\ [Next]_vars => RoundInv'
    BY NextRounds
  <2>2. RoundInv => TypeOK
    BY DEF RoundInv
  <2>3. RoundInv' => TypeOK' /\ CountInv'
    BY DEF RoundInv
  <2> QED BY <2>1, <2>2, <2>3, NextBound
<1>3. Hyp => Hyp'
  BY DEF LoopsEndTogether, BackEdgesCloseCycles, NaturalLoops, RoundsEnd
<1> HIDE DEF Hyp
<1>4. Hyp /\ Spec => []LoopBound
  BY <1>1, <1>2, <1>3, PTL DEF Spec
<1> QED BY <1>4 DEF Hyp

-----------------------------------------------------------------------------
(* Where the walk ends *)

\* Of some nodes that no way leads from back to themselves, one is led to by no
\* other of them, and one leads to no other of them.
LEMMA FirstAndLast ==
  ASSUME NEW E, NEW N, IsFiniteSet(N), E \subseteq N \X N,
         \A n \in N : n \notin Reachable(E, n), NEW W \in SUBSET N, W # {}
  PROVE  /\ \E n \in W : \A s \in W : n \notin Reachable(E, s)
         /\ \E n \in W : \A t \in W : t \notin Reachable(E, n)
<1> DEFINE before(n) == {m \in N : n \in Reachable(E, m)}
           after(n)  == {m \in N : m \in Reachable(E, n)}
<1>1. \A n \in N : /\ before(n) \in SUBSET N /\ IsFiniteSet(before(n))
                   /\ after(n) \in SUBSET N /\ IsFiniteSet(after(n))
  BY FS_Subset
<1>2. ASSUME NEW m \in N, NEW n \in N, n \in Reachable(E, m)
      PROVE  /\ before(m) \subseteq before(n) /\ m \in before(n) /\ m \notin before(m)
             /\ after(n) \subseteq after(m) /\ n \in after(m) /\ n \notin after(n)
  BY <1>2, ReachTransitive
<1> HIDE DEF before, after
<1>3. ASSUME NEW A, NEW B, IsFiniteSet(B), A \subseteq B, A # B
      PROVE  Cardinality(A) \in Nat /\ Cardinality(B) \in Nat /\ Cardinality(A) < Cardinality(B)
  <2>1. IsFiniteSet(A) /\ Cardinality(A) <= Cardinality(B) /\ Cardinality(A) # Cardinality(B)
    BY <1>3, FS_Subset
  <2>2. Cardinality(A) \in Nat /\ Cardinality(B) \in Nat
    BY <1>3, <2>1, FS_CardinalityType
  <2> QED BY <2>1, <2>2
<1>4. \E n \in W : \A s \in W : n \notin Reachable(E, s)
  <2> DEFINE T == {Cardinality(before(n)) : n \in W}
  <2>1. T \in SUBSET Nat /\ T # {}
    BY <1>1, FS_CardinalityType
  <2>2. PICK n \in W : \A s \in W : Cardinality(before(n)) <= Cardinality(before(s))
    <3>1. PICK k \in T : \A j \in T : k <= j
      BY <2>1, LeastNatural
    <3> QED BY <3>1
  <2>3. ASSUME NEW s \in W, n \in Reachable(E, s) PROVE FALSE
    <3>1. before(s) \subseteq before(n) /\ before(s) # before(n)
      BY <1>2, <2>3
    <3>2. /\ Cardinality(before(s)) \in Nat /\ Cardinality(before(n)) \in Nat
          /\ Cardinality(before(s)) < Cardinality(before(n))
      BY <1>1, <1>3, <3>1
    <3> QED BY <2>2, <3>2
  <2> QED BY <2>3
<1>5. \E n \in W : \A t \in W : t \notin Reachable(E, n)
  <2> DEFINE T == {Cardinality(after(n)) : n \in W}
  <2>1. T \in SUBSET Nat /\ T # {}
    BY <1>1, FS_CardinalityType
  <2>2. PICK n \in W : \A t \in W : Cardinality(after(n)) <= Cardinality(after(t))
    <3>1. PICK k \in T : \A j \in T : k <= j
      BY <2>1, LeastNatural
    <3> QED BY <3>1
  <2>3. ASSUME NEW t \in W, t \in Reachable(E, n) PROVE FALSE
    <3>1. after(t) \subseteq after(n) /\ after(t) # after(n)
      BY <1>2, <2>3
    <3>2. /\ Cardinality(after(t)) \in Nat /\ Cardinality(after(n)) \in Nat
          /\ Cardinality(after(t)) < Cardinality(after(n))
      BY <1>1, <1>3, <3>1
    <3> QED BY <2>2, <3>2
  <2> QED BY <2>3
<1> QED BY <1>4, <1>5

\* What these proofs use of a graph, besides IsGraph and IsFlow.
IsEnding(g) ==
  /\ IsFiniteSet(g.nodes) /\ g.entry \in g.nodes
  /\ \A n \in g.nodes : n \notin Reachable(Forward(g), n)
  /\ \A x \in g.pairs : x[1] # g.terminal
  /\ \A n \in g.nodes \ {g.terminal} : ToSet(g.successors[n]) # {}
  /\ \A x \in g.back : x \in g.pairs /\ x[1] \in DOMAIN g.cycles

\* The graph of every accepted pipeline whose nodes lead on is one.
LEMMA EndingGraphs ==
  ASSUME RoundsEnd, SuccessLeadsOn, BackEdgesCloseCycles, NEW p \in DOMAIN Pipelines
  PROVE  IsEnding(Graphs[p])
<1> DEFINE d == Pipelines[p]
           g == Graphs[p]
<1>1. Accepted(d) /\ IsFlow(g)
  BY PipelinesAssumption, AcceptedFlows
<1>2. /\ g.nodes = Nodes(d) /\ g.pairs = Pairs(Edges(d)) /\ g.back = BackEdges(d)
      /\ g.cycles = Cycles(d) /\ g.entry = Entry(d) /\ g.successors = Successors(d)
      /\ g.terminal = CHOOSE n \in Ends(d) : TRUE
  BY DEF Graphs, GraphOf, GraphWith
<1>3. IsFiniteSet(g.nodes)
  BY <1>1, <1>2, NodesFinite
<1>4. g.entry \in g.nodes
  <2>1. d.nodes \in Seq(ToSet(d.nodes)) /\ d.nodes # <<>>
    BY <1>1 DEF Accepted, IsDeclaration
  <2>2. Head(d.nodes) \in ToSet(d.nodes)
    BY <2>1
  <2> QED BY <1>2, <2>2 DEF Entry, Nodes
<1>5. \A n \in g.nodes : n \notin Reachable(Forward(g), n)
  BY DEF RoundsEnd
<1>6. ASSUME NEW x \in g.pairs PROVE x[1] # g.terminal
  <2>1. Ends(d) # {}
    <3>1. Cardinality(Ends(d)) = 1
      BY <1>1 DEF Accepted
    <3>2. Cardinality({}) = 0
      BY FS_EmptySet
    <3> QED BY <3>1, <3>2
  <2>2. g.terminal \in Ends(d)
    BY <1>2, <2>1
  <2>3. Edges(d)[g.terminal] = <<>>
    BY <2>2 DEF Ends
  <2>4. x = <<x[1], x[2]>> /\ x[1] \in Nodes(d) /\ x[2] \in ToSet(Edges(d)[x[1]])
    <3>1. DOMAIN Edges(d) = Nodes(d)
      BY DEF Edges
    <3>2. PICK outs : outs = Edges(d)
      OBVIOUS
    <3>3. x \in Pairs(outs) /\ DOMAIN outs = Nodes(d)
      BY <1>2, <1>6, <3>1, <3>2
    <3>4. PICK n \in DOMAIN outs : x \in {n} \X ToSet(outs[n])
      BY <3>3 DEF Pairs
    <3> QED BY <3>2, <3>3, <3>4
  <2>5. ToSet(<<>>) = {}
    BY DEF ToSet
  <2> QED BY <2>3, <2>4, <2>5
<1>7. ASSUME NEW n \in g.nodes \ {g.terminal} PROVE ToSet(g.successors[n]) # {}
  <2>1. PICK to : to = Successors(d)[n]
    OBVIOUS
  <2>2. to # <<>>
    BY <1>2, <1>7, <2>1 DEF SuccessLeadsOn
  <2>3. n \in Nodes(d)
    BY <1>2, <1>7
  <2>5. 1 \in DOMAIN to
    <3>1. CASE n \in DOMAIN d.successors
      <4>1. to \in Seq(ToSet(to))
        BY <1>1, <2>1, <2>3, <3>1 DEF Accepted, IsDeclaration, Successors
      <4> QED BY <2>2, <4>1
    <3>2. CASE n \notin DOMAIN d.successors
      <4>1. PICK y : to = <<>> \/ to = <<y>>
        BY <2>1, <2>3, <3>2 DEF Successors
      <4>2. to = <<y>>
        BY <2>2, <4>1
      <4> QED BY <4>2
    <3> QED BY <3>1, <3>2
  <2>6. to[1] \in ToSet(to)
    BY <2>5 DEF ToSet
  <2>7. g.successors[n] = to
    BY <1>2, <2>1
  <2> QED BY <2>6, <2>7
<1>8. ASSUME NEW x \in g.back PROVE x \in g.pairs /\ x[1] \in DOMAIN g.cycles
  <2>1. x[1] \in DOMAIN g.cycles
    BY <1>1, <1>2, <1>8 DEF Accepted, CyclesBounded, LoopsCloseSomething
  <2>2. g.back \subseteq g.pairs
    BY DEF BackEdgesCloseCycles
  <2> QED BY <2>1, <2>2
<1> HIDE DEF g
<1> QED BY <1>3, <1>4, <1>5, <1>6, <1>7, <1>8 DEF IsEnding, g

\* Of an edge state, the active nodes, those that completed in this round and
\* those that produced: a node that is done with its run has left every edge out
\* of it behind; if it completed, and is not the last, it led somewhere; if it did
\* not, it was skipped, and nothing leads to it. Outside the cycles a node is
\* entered once.
Live(g, e, active, completed, made) ==
  /\ completed \subseteq e.done \ active
  /\ \A x \in Forward(g) : x[1] \in e.done \ active => x \in Resolved(e)
  /\ \A n \in completed : n = g.terminal \/ \E x \in Forward(g) : x \in e.fired /\ x[1] = n
  /\ \A n \in (e.done \ active) \ completed :
       n # g.entry /\ \A x \in Forward(g) : x \in e.fired => x[2] # n
  /\ g.terminal \in completed => g.terminal \in made
  /\ \A n \in g.nodes :
       (\A c \in DOMAIN g.cycles : n \notin g.cycles[c].body)
         => e.visits[n] <= IF n \in e.done THEN 1 ELSE 0

LEMMA LiveSame ==
  ASSUME NEW g, NEW e, NEW active, NEW completed, NEW made, Live(g, e, active, completed, made),
         NEW others, e.done \ others = e.done \ active
  PROVE  Live(g, e, others, completed, made)
BY DEF Live

\* Where nothing is left to run and nothing is active, every node is done, the
\* first one completed, and what completed leads to the last one.
LEMMA LiveEnds ==
  ASSUME NEW g, NEW e, NEW completed, NEW made, IsEdgeState(g, e), IsFlow(g), IsEnding(g),
         Flows(g, e, {}), Live(g, e, {}, completed, made),
         \A n \in g.nodes : n \in e.done \/ ~Ready(g, e, n)
  PROVE  g.terminal \in made
<1>f. Forward(g) \subseteq g.nodes \X g.nodes /\ IsFiniteSet(g.nodes)
      /\ \A n \in g.nodes : n \notin Reachable(Forward(g), n)
  BY DEF IsFlow, IsEnding, Forward
<1>1. g.nodes \subseteq e.done
  <2> SUFFICES ASSUME g.nodes \ e.done # {} PROVE FALSE
    OBVIOUS
  <2>1. PICK W \in SUBSET g.nodes : W = g.nodes \ e.done
    OBVIOUS
  <2>2. PICK n \in W : \A s \in W : n \notin Reachable(Forward(g), s)
    BY <1>f, <2>1, FirstAndLast
  <2>3. n \in g.nodes /\ ~Ready(g, e, n)
    BY <2>1
  <2>4. PICK s \in g.in_edges[n] : <<s, n>> \notin Resolved(e) \union g.back
    BY <2>3 DEF Ready
  <2>5. s \in g.nodes /\ <<s, n>> \in Forward(g)
    BY <2>3, <2>4 DEF IsFlow, Forward
  <2>6. s \notin e.done
    BY <2>4, <2>5 DEF Live
  <2>7. n \in Reachable(Forward(g), s)
    BY <2>5, ReachEdge
  <2> QED BY <2>1, <2>2, <2>5, <2>6, <2>7
<1>2. g.entry \in completed
  BY <1>1 DEF Live, IsEnding
<1>3. completed \in SUBSET g.nodes
  BY DEF Live, IsEdgeState
<1>4. PICK n \in completed : \A t \in completed : t \notin Reachable(Forward(g), n)
  BY <1>f, <1>2, <1>3, FirstAndLast
<1>5. n = g.terminal
  <2> SUFFICES ASSUME n # g.terminal PROVE FALSE
    OBVIOUS
  <2>1. PICK x \in Forward(g) : x \in e.fired /\ x[1] = n
    BY DEF Live
  <2>2. x = <<n, x[2]>> /\ x[2] \in g.nodes
    BY <1>f, <2>1
  <2>3. x[2] \in completed
    BY <1>1, <2>1, <2>2 DEF Live
  <2>4. x[2] \in Reachable(Forward(g), n)
    BY <2>1, <2>2, ReachEdge
  <2> QED BY <1>4, <2>3, <2>4
<1> QED BY <1>5 DEF Live

LEMMA LiveSkip ==
  ASSUME NEW g, NEW e, NEW S, NEW K \in SUBSET S, NEW completed, NEW made, IsEdgeState(g, e),
         IsFlow(g), Live(g, e, {}, completed, made),
         \A n \in S : n \in g.nodes /\ n \notin e.done,
         K = {n \in S : AllAbsent(g, e, n)}
  PROVE  /\ Live(g, Skipped(g, e, K), S \ K, completed, made)
         /\ (S \ K) \intersect Skipped(g, e, K).done = {}
<1>0. PICK skip : skip = Skipped(g, e, K)
  OBVIOUS
<1>1. /\ Resolved(skip) = Resolved(e) \union OutOf(g, K) /\ skip.fired = e.fired \ OutOf(g, K)
      /\ skip.done = e.done \union K /\ skip.visits = e.visits
  BY <1>0, SkipResolves
<1>2. PICK active : active = S \ K
  OBVIOUS
<1>3. skip.done \ active = e.done \union K /\ active \intersect skip.done = {}
  BY <1>1, <1>2
<1>4. \A x \in Forward(g) : x[1] \in e.done \union K => x \in Resolved(skip)
  BY <1>1 DEF Live, OutOf, Forward
<1>5. ASSUME NEW n \in completed
      PROVE  n = g.terminal \/ \E x \in Forward(g) : x \in skip.fired /\ x[1] = n
  <2>1. n \notin K
    BY DEF Live
  <2> QED BY <1>1, <2>1 DEF Live, OutOf
<1>6. ASSUME NEW n \in (e.done \union K) \ completed
      PROVE  n # g.entry /\ \A x \in Forward(g) : x \in skip.fired => x[2] # n
  <2>1. CASE n \in e.done
    BY <1>1, <2>1 DEF Live
  <2>2. CASE n \in K
    <3>1. n # g.entry /\ n \in g.nodes /\ \A s \in g.in_edges[n] : <<s, n>> \notin e.fired
      BY <2>2 DEF AllAbsent
    <3>2. ASSUME NEW x \in Forward(g), x \in skip.fired, x[2] = n PROVE FALSE
      <4>1. x = <<x[1], n>> /\ x[1] \in g.in_edges[n]
        BY <3>1, <3>2 DEF IsFlow, Forward
      <4> QED BY <1>1, <3>1, <3>2, <4>1
    <3> QED BY <3>1, <3>2
  <2> QED BY <1>6, <2>1, <2>2
<1>7. ASSUME NEW n \in g.nodes, \A c \in DOMAIN g.cycles : n \notin g.cycles[c].body
      PROVE  skip.visits[n] <= IF n \in skip.done THEN 1 ELSE 0
  <2>1. e.visits[n] \in Nat /\ e.visits[n] <= IF n \in e.done THEN 1 ELSE 0
    BY <1>7 DEF Live, IsEdgeState
  <2> QED BY <1>1, <2>1
<1>8. completed \subseteq e.done \union K /\ (g.terminal \in completed => g.terminal \in made)
  BY DEF Live
<1>9. Live(g, skip, active, completed, made)
  BY <1>3, <1>4, <1>5, <1>6, <1>7, <1>8 DEF Live
<1> QED BY <1>0, <1>2, <1>3, <1>9

LEMMA LiveEnter ==
  ASSUME NEW g, NEW e, NEW active, NEW S, NEW others, NEW completed, NEW made, IsEdgeState(g, e),
         Live(g, e, active, completed, made), S \intersect e.done = {},
         (e.done \union S) \ others = e.done \ active
  PROVE  Live(g, Enter(e, S), others, completed, made)
<1>0. PICK after : after = Enter(e, S)
  OBVIOUS
<1>1. /\ Resolved(after) = Resolved(e) /\ after.fired = e.fired /\ after.done = e.done \union S
      /\ after.visits = [m \in g.nodes |-> e.visits[m] + (IF m \in S THEN 1 ELSE 0)]
  BY <1>0, EnterResolves
<1>2. after.done \ others = e.done \ active
  BY <1>1
<1>3. ASSUME NEW n \in g.nodes, \A c \in DOMAIN g.cycles : n \notin g.cycles[c].body
      PROVE  after.visits[n] <= IF n \in after.done THEN 1 ELSE 0
  <2>1. e.visits[n] \in Nat /\ e.visits[n] <= IF n \in e.done THEN 1 ELSE 0
    BY <1>3 DEF Live, IsEdgeState
  <2>2. CASE n \in S
    BY <1>1, <2>1, <2>2
  <2>3. CASE n \notin S
    BY <1>1, <2>1, <2>3
  <2> QED BY <2>2, <2>3
<1>4. Live(g, after, others, completed, made)
  BY <1>1, <1>2, <1>3 DEF Live
<1> QED BY <1>0, <1>4

\* Nodes outside the cycles are not entered again.
VisitsFewer(g, e, after) == \A m \in g.nodes : after.visits[m] \in {0, e.visits[m]}

LEMMA LiveSettle ==
  ASSUME NEW g, NEW e, NEW active, NEW completed, NEW made, NEW made2, IsEdgeState(g, e), IsFlow(g),
         Flows(g, e, active), Live(g, e, active, completed, made), NEW n \in active, n \in e.done,
         NEW taken \in SUBSET OutOf(g, {n}), taken \intersect g.back = {},
         n = g.terminal \/ taken # {}, made \subseteq made2, n = g.terminal => n \in made2,
         NEW after, after.done = e.done, VisitsFewer(g, e, after),
         after.fired = (e.fired \ OutOf(g, {n})) \union taken,
         Resolved(after) = Resolved(e) \union OutOf(g, {n})
  PROVE  Live(g, after, active \ {n}, completed \union {n}, made2)
<1>1. after.done \ (active \ {n}) = (e.done \ active) \union {n}
  OBVIOUS
<1>2. \A x \in Forward(g) : x[1] \in (e.done \ active) \union {n} => x \in Resolved(after)
  BY DEF Live, OutOf, Forward
<1>3. \A x \in taken : x \in Forward(g) /\ x[1] = n
  BY DEF OutOf, Forward
<1>4. ASSUME NEW m \in completed \union {n}
      PROVE  m = g.terminal \/ \E x \in Forward(g) : x \in after.fired /\ x[1] = m
  <2>1. CASE m = n
    BY <1>3, <2>1
  <2>2. CASE m # n
    BY <1>4, <2>2 DEF Live, OutOf
  <2> QED BY <2>1, <2>2
<1>5. ASSUME NEW m \in ((e.done \ active) \union {n}) \ (completed \union {n})
      PROVE  m # g.entry /\ \A x \in Forward(g) : x \in after.fired => x[2] # m
  <2>1. m # g.entry /\ \A x \in Forward(g) : x \in e.fired => x[2] # m
    BY DEF Live
  <2>2. ASSUME NEW x \in taken, x[2] = m PROVE FALSE
    <3>1. x \in Forward(g) /\ x = <<n, m>>
      BY <1>3, <2>2 DEF IsFlow, Forward
    <3>2. m \in Reachable(Forward(g), n)
      BY <3>1, ReachEdge
    <3> QED BY <3>2, ActiveApart
  <2> QED BY <2>1, <2>2
<1>6. ASSUME NEW m \in g.nodes, \A c \in DOMAIN g.cycles : m \notin g.cycles[c].body
      PROVE  after.visits[m] <= IF m \in after.done THEN 1 ELSE 0
  <2>1. e.visits[m] \in Nat /\ e.visits[m] <= IF m \in e.done THEN 1 ELSE 0
    BY <1>6 DEF Live, IsEdgeState
  <2> QED BY <2>1 DEF VisitsFewer
<1>7. /\ completed \union {n} \subseteq (e.done \ active) \union {n}
      /\ g.terminal \in completed \union {n} => g.terminal \in made2
  BY DEF Live
<1> QED BY <1>1, <1>2, <1>4, <1>5, <1>6, <1>7 DEF Live

LEMMA LiveReopen ==
  ASSUME NEW g, NEW e, NEW active, NEW completed, NEW made, NEW made2, IsEdgeState(g, e), IsFlow(g),
         Flows(g, e, active), Live(g, e, active, completed, made), made \subseteq made2,
         NEW c \in DOMAIN g.cycles, c \in active, NEW kept, kept \intersect Forward(g) = {},
         \A x \in Forward(g) :
           x[1] \in g.cycles[c].body /\ x[2] \notin g.cycles[c].body
             => x[2] \in Reachable(Forward(g), c),
         NEW taken \in SUBSET OutOf(g, {c}), NEW after, VisitsFewer(g, e, after),
         after.done = e.done \ g.cycles[c].body,
         Resolved(after) = (Resolved(e) \union OutOf(g, {c}))
                             \ (OutOf(g, g.cycles[c].body) \ kept),
         after.fired = ((e.fired \ OutOf(g, {c})) \union taken)
                         \ (OutOf(g, g.cycles[c].body) \ kept)
  PROVE  Live(g, after, active \ {c}, (completed \union {c}) \ g.cycles[c].body, made2)
<1>1. PICK body : body = g.cycles[c].body
  OBVIOUS
<1>2. active \intersect body = {c}
  BY <1>1, ClosingAlone
<1>3. \A x \in Forward(g) : /\ x \in Resolved(after) <=> x \in Resolved(e) /\ x[1] \notin body
                            /\ x \in after.fired <=> x \in e.fired /\ x[1] \notin body
  BY <1>1, <1>2 DEF OutOf, Forward
<1>4. /\ after.done \ (active \ {c}) = (e.done \ active) \ body
      /\ (completed \union {c}) \ body = completed \ body
  BY <1>1, <1>2
<1>5. ASSUME NEW m \in completed \ body
      PROVE  m = g.terminal \/ \E x \in Forward(g) : x \in after.fired /\ x[1] = m
  <2>1. m = g.terminal \/ \E x \in Forward(g) : x \in e.fired /\ x[1] = m
    BY DEF Live
  <2>2. m \notin body
    BY <1>5
  <2> QED BY <1>3, <2>1, <2>2
<1>6. ASSUME NEW m \in ((e.done \ active) \ body) \ (completed \ body)
      PROVE  m # g.entry /\ \A x \in Forward(g) : x \in after.fired => x[2] # m
  BY <1>3, <1>6 DEF Live
<1>7. ASSUME NEW m \in g.nodes, \A o \in DOMAIN g.cycles : m \notin g.cycles[o].body
      PROVE  after.visits[m] <= IF m \in after.done THEN 1 ELSE 0
  <2>1. e.visits[m] \in Nat /\ e.visits[m] <= IF m \in e.done THEN 1 ELSE 0
    BY <1>7 DEF Live, IsEdgeState
  <2>2. m \in after.done <=> m \in e.done
    BY <1>7
  <2> QED BY <2>1, <2>2 DEF VisitsFewer
<1>8. /\ completed \ body \subseteq (e.done \ active) \ body
      /\ g.terminal \in completed \ body => g.terminal \in made2
      /\ \A x \in Forward(g) : x[1] \in (e.done \ active) \ body => x \in Resolved(after)
  BY <1>3 DEF Live
<1>9. Live(g, after, active \ {c}, completed \ body, made2)
  BY <1>4, <1>5, <1>6, <1>7, <1>8 DEF Live
<1> QED BY <1>1, <1>4, <1>9

\* A node outside the cycles that was drained is as if it had not been entered.
LEMMA LiveUnenter ==
  ASSUME NEW g, NEW e, NEW active, NEW completed, NEW made, IsEdgeState(g, e),
         Live(g, e, active, completed, made), NEW n \in active, n \in e.done, n \in g.nodes,
         \A c \in DOMAIN g.cycles : n \notin g.cycles[c].body
  PROVE  Live(g, Unenter(e, n), active \ {n}, completed, made)
<1>0. PICK after : after = Unenter(e, n)
  OBVIOUS
<1>1. e.visits[n] \in Nat /\ e.visits[n] <= 1 /\ e.visits \in [g.nodes -> Nat]
  BY DEF Live, IsEdgeState
<1>2. after = [e EXCEPT !.visits[n] = 0, !.done = @ \ {n}]
  BY <1>0, <1>1 DEF Unenter
<1>3. /\ after.done = e.done \ {n} /\ after.fired = e.fired /\ Resolved(after) = Resolved(e)
      /\ after.visits = [e.visits EXCEPT ![n] = 0]
  BY <1>2 DEF IsEdgeState, Resolved
<1>4. after.done \ (active \ {n}) = e.done \ active
  BY <1>3
<1>5. ASSUME NEW m \in g.nodes, \A c \in DOMAIN g.cycles : m \notin g.cycles[c].body
      PROVE  after.visits[m] <= IF m \in after.done THEN 1 ELSE 0
  <2>1. e.visits[m] \in Nat /\ e.visits[m] <= IF m \in e.done THEN 1 ELSE 0
    BY <1>5 DEF Live, IsEdgeState
  <2>2. CASE m = n
    BY <1>1, <1>3, <2>2
  <2>3. CASE m # n
    BY <1>1, <1>3, <2>1, <2>3
  <2> QED BY <2>2, <2>3
<1>6. Live(g, after, active \ {n}, completed, made)
  BY <1>3, <1>4, <1>5 DEF Live
<1> QED BY <1>0, <1>6

\* What settling a returned node does, of what leads to the end: it goes
\* somewhere, unless it is the last node, and counts no more visits than before.
LEMMA ReturnedLeads ==
  ASSUME TypeOK, IsEnding(graph), NEW n \in graph.nodes, SettleReturned(n)
  PROVE  \E taken, kept :
           /\ Returned(n, taken, kept)
           /\ VisitsFewer(graph, edges, edges')
           /\ n = graph.terminal \/ taken # {}
<1>g. IsGraph(graph) /\ IsFlow(graph) /\ IsEdgeState(graph, edges)
  BY AcceptedIsGraph, AcceptedFlows DEF TypeOK, graph
<1>1. PICK chosen \in Selections(n) :
        /\ edges' = Advance(graph, edges, n, chosen)
        /\ Follow(n, chosen)
  BY DEF SettleReturned
<1>2. PICK kept : kept = KeptBack(graph, n, chosen)
  OBVIOUS
<1>3. PICK taken : taken = {n} \X chosen
  OBVIOUS
<1>4. Returned(n, taken, kept)
  BY <1>1, <1>2, <1>3, ReturnedBy
<1>5. ASSUME n # graph.terminal PROVE taken # {}
  <2>1. ToSet(graph.successors[n]) # {}
    BY <1>5 DEF IsEnding
  <2>2. PICK t : t \in chosen
    BY <2>1 DEF Selections
  <2>3. <<n, t>> \in taken
    BY <1>3, <2>2
  <2> QED BY <2>3
<1>6. VisitsFewer(graph, edges, edges')
  <2>0. PICK after : after = Advance(graph, edges, n, chosen)
    OBVIOUS
  <2>1. {n} \X chosen \subseteq graph.pairs
    BY <1>g, SelectionsAreEdges
  <2>2. after.visits = NoteEntries(graph, edges, n, chosen).visits
    BY <1>g, <2>0, <2>1, AdvanceVisits
  <2>3. edges.visits \in [graph.nodes -> Nat]
    BY <1>g DEF IsEdgeState
  <2>4. \E entered : NoteEntries(graph, edges, n, chosen).visits
                       = [m \in DOMAIN edges.visits |-> IF m \in entered THEN 0 ELSE edges.visits[m]]
    BY <1>g DEF NoteEntries, IsEdgeState
  <2>5. \A m \in graph.nodes : after.visits[m] \in {0, edges.visits[m]}
    BY <2>2, <2>3, <2>4
  <2> QED BY <1>1, <2>0, <2>5 DEF VisitsFewer
<1> QED BY <1>4, <1>5, <1>6

\* In the walk no unit is left over; of a batch that is run, a unit raised where
\* it may and is not handled, stopped where it may, and was drained because
\* another raised or stopped; and any two of its units may overlap.
UnitInv ==
  /\ phase \in {"walking", "chosen"} => \A n \in graph.nodes : unit[n] = "idle"
  /\ phase = "walking" => batch = {}
  /\ phase = "running" =>
       /\ \A n \in Is({"raised"}) :
            n \in decl.fatal \/ (n \in decl.raises /\ n \notin DOMAIN graph.on_error)
       /\ Is({"suspended"}) \subseteq decl.suspends
       /\ Is({"drained"}) # {} => Is({"raised", "suspended"}) # {}
       /\ Pairwise({n \in graph.nodes : unit[n] # "idle"})

LEMMA InitUnits == Init => UnitInv
BY DEF Init, UnitInv

LEMMA NextUnits == TypeOK /\ OverlapInv /\ UnitInv /\ [Next]_vars => UnitInv'
<1> SUFFICES ASSUME TypeOK, OverlapInv, UnitInv, [Next]_vars PROVE UnitInv'
  OBVIOUS
<1>p. pipeline' = pipeline /\ graph' = graph /\ decl' = decl
  BY PipelineStays
<1>t. unit \in [graph.nodes -> Statuses] /\ batch \subseteq graph.nodes /\ in_progress \subseteq graph.nodes
  BY DEF TypeOK
<1>1. CASE EndWalk \/ BudgetSpent \/ StopBefore
  <2>1. phase' \in Ended
    BY <1>1 DEF EndWalk, BudgetSpent, StopBefore, Ended
  <2> QED BY <2>1 DEF UnitInv, Ended
<1>2. CASE ChooseBatch
  <2>1. PICK S, K : /\ batch' = S \ K
                    /\ phase' = IF S = K THEN "walking" ELSE "chosen"
    BY <1>2 DEF ChooseBatch
  <2>2. phase = "walking" /\ unit' = unit
    BY <1>2 DEF ChooseBatch
  <2> QED BY <1>p, <2>1, <2>2 DEF UnitInv
<1>3. CASE StartBatch \/ StartStopped
  <2>1. PICK nodes, stopped : nodes \subseteq graph.nodes /\ Pairwise(nodes) /\ QueueUnits(nodes, stopped)
    <3>1. CASE StartBatch
      BY <1>t, <3>1 DEF StartBatch, OverlapInv, Pairwise
    <3>2. CASE StartStopped
      BY <1>t, <3>2 DEF StartStopped, OverlapInv, Pairwise
    <3> QED BY <1>3, <3>1, <3>2
  <2>2. /\ phase' = "running"
        /\ unit' = [n \in graph.nodes |-> IF n \in nodes THEN "queued" ELSE "idle"]
    BY <2>1 DEF QueueUnits
  <2>3. \A n \in graph.nodes : unit'[n] = IF n \in nodes THEN "queued" ELSE "idle"
    BY <2>2
  <2>4. \A m, n \in nodes : m # n => MayOverlap(graph, m, n)
    BY <2>1 DEF Pairwise
  <2> QED BY <1>p, <2>2, <2>3, <2>4 DEF UnitInv, Is, Pairwise
<1>4. CASE BatchSettled
  <2>1. \/ phase' \in Ended
        \/ phase' = "walking" /\ Idle
    BY <1>4 DEF BatchSettled, Ended
  <2> QED BY <1>p, <2>1 DEF UnitInv, Idle, Ended
<1>5. ASSUME NEW n \in graph.nodes, UnitStep(n) PROVE UnitInv'
  <2>1. /\ phase = "running" /\ phase' = "running" /\ unit[n] # "idle"
        /\ \A m \in graph.nodes : unit[m] = "idle" => unit'[m] = "idle"
    BY <1>5, <1>t DEF UnitStep, UnitStarts, UnitReturns, UnitRetries, UnitDiverts, UnitRaises,
       UnitSuspends, Stops
  <2>2. Pairwise({m \in graph.nodes : unit[m] # "idle"})'
    BY <1>p, <2>1 DEF UnitInv, Pairwise
  <2>3. CASE UnitStarts(n) \/ UnitReturns(n) \/ UnitRetries(n) \/ UnitDiverts(n)
    <3>1. \A s \in {"raised", "suspended", "drained"}, m \in graph.nodes : unit'[m] = s <=> unit[m] = s
      BY <1>t, <2>3 DEF UnitStarts, UnitReturns, UnitRetries, UnitDiverts
    <3> QED BY <1>p, <2>1, <2>2, <3>1 DEF UnitInv, Is
  <2>4. CASE UnitRaises(n)
    <3>1. /\ unit'[n] = "raised"
          /\ \A m \in graph.nodes : unit'[m] = "raised" => m = n \/ unit[m] = "raised"
          /\ \A m \in graph.nodes : unit'[m] = "suspended" => unit[m] = "suspended"
          /\ n \in decl.fatal \/ (n \in decl.raises /\ n \notin DOMAIN graph.on_error)
      BY <1>t, <2>4 DEF UnitRaises, Stops
    <3> QED BY <1>p, <2>1, <2>2, <3>1 DEF UnitInv, Is
  <2>5. CASE UnitSuspends(n)
    <3>1. /\ unit'[n] = "suspended"
          /\ \A m \in graph.nodes : unit'[m] = "raised" => unit[m] = "raised"
          /\ \A m \in graph.nodes : unit'[m] = "suspended" => m = n \/ unit[m] = "suspended"
          /\ n \in decl.suspends
      BY <1>t, <2>5 DEF UnitSuspends, Stops
    <3> QED BY <1>p, <2>1, <2>2, <3>1 DEF UnitInv, Is
  <2> QED BY <1>5, <2>3, <2>4, <2>5 DEF UnitStep
<1>6. ASSUME NEW n \in graph.nodes, SettleStep(n) PROVE UnitInv'
  <2>1. unit' = unit /\ phase = "running" /\ phase' \in {"running", "failed"}
    <3>1. phase = "running"
      BY <1>6 DEF SettleStep, SettleReturned, SettleFailure, SettleDrained,
         SettleSuspended, SettleRaised, RouteRaises, Settling, MapReturned
    <3>2. phase' \in {phase, "failed"} /\ unit' = unit
      BY <1>6 DEF SettleStep, SettleReturned, SettleFailure, SettleDrained,
         SettleSuspended, SettleRaised, RouteRaises
    <3> QED BY <3>1, <3>2
  <2> QED BY <1>p, <2>1 DEF UnitInv, Is, Pairwise
<1>7. CASE Resume
  BY <1>7, <1>p DEF UnitInv, Resume, Idle
<1>8. CASE UNCHANGED vars
  BY <1>8, <1>p DEF UnitInv, Is, Pairwise, vars, units
<1> QED BY <1>1, <1>2, <1>3, <1>4, <1>5, <1>6, <1>7, <1>8 DEF Next, Drive, Over

\* Of two nodes of a batch that overlap and one of which stops, the other raises
\* nothing that ends the run, and is in no cycle.
LEMMA StopsApart ==
  ASSUME StopsStandApart, TypeOK, UnitInv, phase = "running", Is({"suspended"}) # {}
  PROVE  /\ Is({"raised"}) = {}
         /\ \A n \in Is({"drained"}), c \in DOMAIN graph.cycles : n \notin graph.cycles[c].body
<1>1. PICK m \in graph.nodes : unit[m] = "suspended"
  BY DEF Is
<1>2. m \in decl.suspends
  BY <1>1 DEF UnitInv, Is
<1>3. ASSUME NEW n \in graph.nodes, unit[n] \in {"raised", "drained"}
      PROVE  /\ \A c \in DOMAIN graph.cycles : n \notin graph.cycles[c].body
             /\ n \notin decl.fatal
             /\ n \in decl.raises => n \in DOMAIN graph.on_error
  <2>1. MayOverlap(graph, m, n)
    BY <1>1, <1>3 DEF UnitInv, Pairwise
  <2>2. pipeline \in DOMAIN Pipelines
    BY DEF TypeOK
  <2> QED BY <1>2, <1>3, <2>1, <2>2 DEF StopsStandApart, graph, decl
<1>4. Is({"raised"}) = {}
  BY <1>3 DEF UnitInv, Is
<1>5. \A n \in Is({"drained"}), c \in DOMAIN graph.cycles : n \notin graph.cycles[c].body
  BY <1>3 DEF Is
<1> QED BY <1>4, <1>5

\* In the walk, unless a node raised what ends the run, and in what is on disk.
LiveInv ==
  /\ phase \notin Ended /\ Is({"raised"}) = {} =>
       Live(graph, edges, batch \union in_progress, finished, produced)
  /\ phase = "chosen" => batch \intersect edges.done = {}
  /\ saved # NoState =>
       Live(graph, saved.edges, saved.in_progress, saved.finished, saved.produced)
  /\ TerminalReached

LEMMA InitLive == Init => LiveInv
<1> SUFFICES ASSUME Init PROVE LiveInv
  OBVIOUS
<1>1. /\ phase = "walking" /\ batch = {} /\ in_progress = {} /\ saved = NoState
      /\ finished = {} /\ edges = NewEdges(graph)
  BY DEF Init
<1>2. /\ edges.done = {} /\ edges.fired = {} /\ edges.visits = [n \in graph.nodes |-> 0]
  BY <1>1 DEF NewEdges
<1>3. \A n \in graph.nodes : edges.visits[n] <= IF n \in edges.done THEN 1 ELSE 0
  BY <1>2
<1>4. Live(graph, edges, batch \union in_progress, finished, produced)
  BY <1>1, <1>2, <1>3 DEF Live
<1> QED BY <1>1, <1>4 DEF LiveInv, TerminalReached

LEMMA NextLive ==
  LoopsEndTogether /\ BackEdgesCloseCycles /\ RoundsEnd /\ SuccessLeadsOn /\ StopsStandApart
    /\ TypeOK /\ FailuresHandled /\ FlowInv /\ CarryInv /\ UnitInv /\ LiveInv /\ [Next]_vars
      => LiveInv'
<1> SUFFICES ASSUME LoopsEndTogether, BackEdgesCloseCycles, RoundsEnd, SuccessLeadsOn,
                    StopsStandApart, TypeOK, FailuresHandled, FlowInv, CarryInv, UnitInv,
                    LiveInv, [Next]_vars
             PROVE  LiveInv'
  OBVIOUS
<1>g. IsGraph(graph) /\ IsFlow(graph) /\ IsEnding(graph) /\ IsEdgeState(graph, edges)
  BY AcceptedIsGraph, AcceptedFlows, EndingGraphs DEF TypeOK, graph
<1>b. BackIsAround(graph) /\ \A n \in DOMAIN graph.on_error : <<n, graph.on_error[n]>> \notin graph.back
  BY DEF BackEdgesCloseCycles, BackIsAround, TypeOK, graph
<1>p. pipeline' = pipeline /\ graph' = graph /\ decl' = decl
  BY PipelineStays
<1>r. Is({"raised"}) = {} <=> \A n \in graph.nodes : unit[n] # "raised"
  BY DEF Is
<1>r2. Is({"raised"})' = {} <=> \A n \in graph.nodes : unit'[n] # "raised"
  BY <1>p DEF Is
<1>i. phase \in {"walking", "chosen"} => Is({"raised"}) = {}
  BY <1>r DEF UnitInv
<1>0. PICK after : after = edges'
  OBVIOUS
<1>1. CASE EndWalk
  <2>1. phase = "walking" /\ in_progress = {} /\ ReadyNodes = {} /\ batch = {}
    BY <1>1 DEF EndWalk, UnitInv
  <2>2. Flows(graph, edges, {}) /\ Live(graph, edges, {}, finished, produced)
    BY <1>i, <2>1, FlowsFewer DEF FlowInv, LiveInv, Ended
  <2>3. \A n \in graph.nodes : n \in edges.done \/ ~Ready(graph, edges, n)
    BY <2>1 DEF ReadyNodes
  <2>4. graph.terminal \in produced
    BY <1>g, <2>2, <2>3, LiveEnds
  <2>5. phase' = "completed" /\ saved' = NoState
    BY <1>1, <2>4 DEF EndWalk
  <2> QED BY <2>5 DEF LiveInv, TerminalReached, Ended
<1>2. CASE ChooseBatch
  <2>1. PICK S \in SUBSET ReadyNodes :
          LET skipped == {n \in S : AllAbsent(graph, edges, n)}
          IN  edges' = Skip(skipped) /\ batch' = S \ skipped
    BY <1>2 DEF ChooseBatch
  <2>2. PICK skipped \in SUBSET S :
          /\ skipped = {n \in S : AllAbsent(graph, edges, n)}
          /\ edges' = Skipped(graph, edges, skipped) /\ batch' = S \ skipped
    BY <2>1 DEF Skip, Skipped
  <2>3. /\ phase = "walking" /\ phase' \in {"walking", "chosen"} /\ in_progress = {}
        /\ in_progress' = {} /\ saved' = saved /\ finished' = finished /\ produced' = produced
    BY <1>2 DEF ChooseBatch, history
  <2>4. Live(graph, edges, {}, finished, produced)
    <3>1. batch = {}
      BY <2>3 DEF UnitInv
    <3> QED BY <1>i, <2>3, <3>1 DEF LiveInv, Ended
  <2>5. \A n \in S : n \in graph.nodes /\ n \notin edges.done
    BY DEF ReadyNodes
  <2>6. /\ Live(graph, after, S \ skipped, finished, produced)
        /\ (S \ skipped) \intersect after.done = {}
    BY <1>g, <1>0, <2>2, <2>4, <2>5, LiveSkip
  <2>7. batch' \union in_progress' = S \ skipped
    BY <2>2, <2>3
  <2> QED BY <1>0, <1>p, <2>2, <2>3, <2>6, <2>7 DEF LiveInv, TerminalReached
<1>3. CASE BudgetSpent
  BY <1>3, <1>p DEF LiveInv, TerminalReached, BudgetSpent, Ended
<1>4. CASE StopBefore
  <2>1. PICK n \in batch : in_progress' = {n}
    BY <1>4 DEF StopBefore
  <2>2. /\ phase = "chosen" /\ phase' = "suspended"
        /\ saved'.in_progress = {n} /\ saved'.edges = edges /\ saved'.finished = finished
        /\ saved'.produced = produced
    BY <1>4, <2>1 DEF StopBefore, Frame
  <2>3. /\ Live(graph, edges, batch \union in_progress, finished, produced)
        /\ in_progress = {} /\ batch \intersect edges.done = {}
    BY <1>i, <2>2 DEF LiveInv, FlowInv, Ended
  <2>4. edges.done \ {n} = edges.done \ (batch \union in_progress)
    BY <2>3
  <2>5. Live(graph, edges, {n}, finished, produced)
    BY <2>3, <2>4, LiveSame
  <2> QED BY <1>p, <2>2, <2>5 DEF LiveInv, TerminalReached, Ended
<1>5. CASE StartBatch
  <2>1. PICK nodes \in SUBSET batch : QueueUnits(nodes, FALSE)
    BY <1>5 DEF StartBatch
  <2>2. /\ phase = "chosen" /\ in_progress = {} /\ in_progress' = {} /\ saved' = saved
        /\ finished' = finished /\ produced' = produced
    BY <1>5 DEF StartBatch, FlowInv, history
  <2>3. phase' = "running" /\ batch' = nodes /\ after = Enter(edges, nodes)
    BY <1>0, <2>1 DEF QueueUnits
  <2>4. /\ Live(graph, edges, batch, finished, produced)
        /\ batch \intersect edges.done = {}
    <3>1. batch \union in_progress = batch
      BY <2>2
    <3> QED BY <1>i, <2>2, <3>1 DEF LiveInv, Ended
  <2>5. nodes \intersect edges.done = {} /\ (edges.done \union nodes) \ nodes = edges.done \ batch
    BY <2>4
  <2>6. Live(graph, after, nodes, finished, produced)
    BY <1>g, <2>3, <2>4, <2>5, LiveEnter
  <2>7. batch' \union in_progress' = nodes
    BY <2>2, <2>3
  <2> QED BY <1>0, <1>p, <2>2, <2>3, <2>6, <2>7 DEF LiveInv, TerminalReached
<1>6. CASE StartStopped
  <2>1. /\ QueueUnits(in_progress, TRUE) /\ in_progress' = {} /\ saved' = saved
        /\ phase = "walking" /\ finished' = finished /\ produced' = produced /\ batch = {}
    BY <1>6 DEF StartStopped, history, UnitInv
  <2>2. PICK S : S = in_progress \ edges.done
    OBVIOUS
  <2>3. phase' = "running" /\ batch' = in_progress /\ after = Enter(edges, S)
    BY <1>0, <2>1, <2>2 DEF QueueUnits
  <2>4. Live(graph, edges, in_progress, finished, produced)
    <3>1. batch \union in_progress = in_progress
      BY <2>1
    <3> QED BY <1>i, <2>1, <3>1 DEF LiveInv, Ended
  <2>5. S \intersect edges.done = {} /\ (edges.done \union S) \ in_progress = edges.done \ in_progress
    BY <2>2
  <2>6. Live(graph, after, in_progress, finished, produced)
    BY <1>g, <2>3, <2>4, <2>5, LiveEnter
  <2>7. batch' \union in_progress' = in_progress
    BY <2>1, <2>3
  <2> QED BY <1>0, <1>p, <2>1, <2>3, <2>6, <2>7 DEF LiveInv, TerminalReached
<1>7. CASE BatchSettled
  <2>1. /\ phase = "running" /\ batch = {} /\ UNCHANGED <<edges, in_progress, finished, produced>>
        /\ Frame.edges = edges /\ Frame.in_progress = in_progress /\ Frame.finished = finished
        /\ Frame.produced = produced
    BY <1>7 DEF BatchSettled, MapReturned, frame, history, Frame
  <2>2. batch \union in_progress = in_progress
    BY <2>1
  <2>3. CASE Is({"suspended"}) # {}
    <3>1. phase' = "suspended" /\ saved' = Frame
      BY <1>7, <2>3 DEF BatchSettled
    <3>2. Is({"raised"}) = {}
      BY <2>1, <2>3, StopsApart
    <3>3. Live(graph, edges, in_progress, finished, produced)
      BY <2>1, <2>2, <3>2 DEF LiveInv, Ended
    <3> QED BY <1>p, <2>1, <3>1, <3>3 DEF LiveInv, TerminalReached, Ended
  <2>4. CASE Is({"suspended"}) = {} /\ Is({"raised"}) # {}
    <3>1. phase' = "failed" /\ saved' = saved
      BY <1>7, <2>4 DEF BatchSettled
    <3> QED BY <1>p, <3>1 DEF LiveInv, TerminalReached, Ended
  <2>5. CASE Is({"suspended"}) = {} /\ Is({"raised"}) = {}
    <3>1. phase' = "walking" /\ batch' = {} /\ saved' = saved
      BY <1>7, <2>5 DEF BatchSettled, Idle
    <3>2. Live(graph, edges, in_progress, finished, produced)
      BY <2>1, <2>2, <2>5 DEF LiveInv, Ended
    <3>3. batch' \union in_progress' = in_progress
      BY <2>1, <3>1
    <3> QED BY <1>p, <2>1, <3>1, <3>2, <3>3 DEF LiveInv, TerminalReached
  <2> QED BY <2>3, <2>4, <2>5
<1>8. ASSUME NEW n \in graph.nodes, UnitStep(n)
      PROVE  LiveInv'
  <2>1. UNCHANGED <<phase, edges, in_progress, batch, saved, finished, produced>>
    BY <1>8 DEF UnitStep, UnitStarts, UnitReturns, UnitRetries, UnitDiverts,
       UnitRaises, UnitSuspends, frame, history
  <2>2. \A m \in graph.nodes : unit[m] = "raised" => unit'[m] = "raised"
    <3>1. unit \in [graph.nodes -> Statuses] /\ unit[n] \in {"queued", "running"}
      BY <1>8 DEF TypeOK, UnitStep, UnitStarts, UnitReturns, UnitRetries, UnitDiverts, UnitRaises,
         UnitSuspends
    <3> QED BY <1>8, <3>1 DEF UnitStep, UnitStarts, UnitReturns, UnitRetries, UnitDiverts, UnitRaises,
       UnitSuspends, Stops
  <2>3. Is({"raised"})' = {} => Is({"raised"}) = {}
    BY <1>r, <1>r2, <2>2
  <2> QED BY <1>p, <2>1, <2>3 DEF LiveInv, TerminalReached
<1>9. ASSUME NEW n \in graph.nodes, SettleStep(n)
      PROVE  LiveInv'
  <2>1. /\ phase = "running" /\ n \in batch /\ batch' = batch \ {n} /\ saved' = saved
        /\ phase' \in {"running", "failed"} /\ unit' = unit
    <3>1. phase = "running" /\ n \in batch /\ batch' = batch \ {n}
      BY <1>9 DEF SettleStep, SettleReturned, SettleFailure, SettleDrained,
         SettleSuspended, SettleRaised, RouteRaises, Settling, MapReturned, IsFirst
    <3>2. saved' = saved /\ phase' \in {phase, "failed"} /\ unit' = unit
      BY <1>9 DEF SettleStep, SettleReturned, SettleFailure, SettleDrained,
         SettleSuspended, SettleRaised, RouteRaises
    <3> QED BY <3>1, <3>2
  <2>2. Is({"raised"})' = {} <=> Is({"raised"}) = {}
    BY <1>r, <1>r2, <2>1
  <2>3. CASE Is({"raised"}) # {}
    BY <1>p, <2>1, <2>2, <2>3 DEF LiveInv, TerminalReached
  <2>4. CASE Is({"raised"}) = {}
    <3>1. PICK nodes : nodes = batch \union in_progress
      OBVIOUS
    <3>2. /\ Flows(graph, edges, nodes) /\ Live(graph, edges, nodes, finished, produced)
          /\ n \in nodes /\ n \in edges.done /\ n \notin in_progress
      BY <2>1, <2>4, <3>1 DEF FlowInv, LiveInv, Ended
    <3>3. nodes \ {n} = (batch \ {n}) \union in_progress
      BY <3>1, <3>2
    <3>s. ASSUME Live(graph, after, nodes \ {n}, finished', produced'), in_progress' = in_progress
          PROVE  LiveInv'
      <4>1. Live(graph, edges', batch' \union in_progress', finished', produced')
        BY <1>0, <2>1, <3>3, <3>s
      <4> QED BY <1>p, <2>1, <4>1 DEF LiveInv, TerminalReached
    <3>4. CASE SettleReturned(n)
      <4>1. PICK taken, kept :
              /\ Returned(n, taken, kept)
              /\ VisitsFewer(graph, edges, edges')
              /\ n = graph.terminal \/ taken # {}
        BY <1>g, <3>4, ReturnedLeads
      <4>2. /\ taken \subseteq OutOf(graph, {n}) /\ Follow(n, {x[2] : x \in taken})
            /\ VisitsFewer(graph, edges, after)
        BY <1>0, <4>1 DEF Returned
      <4>m. PICK made : made = produced \union {n}
        OBVIOUS
      <4>p. produced' = made /\ in_progress' = in_progress
        BY <3>4, <4>m DEF SettleReturned
      <4>3. CASE /\ n \in DOMAIN graph.cycles => taken \intersect graph.back = {}
                 /\ Advanced(graph, edges, n, taken, edges') /\ edges'.done = edges.done
        <5>1. finished' = finished \union {n}
          BY <1>b, <4>2, <4>3, FollowCompletes
        <5>2. taken \intersect graph.back = {}
          <6>1. \A x \in taken : x[1] = n
            BY <4>2 DEF OutOf
          <6> QED BY <1>g, <4>3, <6>1 DEF IsEnding
        <5>3. /\ after.done = edges.done
              /\ after.fired = (edges.fired \ OutOf(graph, {n})) \union taken
              /\ Resolved(after) = Resolved(edges) \union OutOf(graph, {n})
          BY <1>0, <4>3 DEF Advanced
        <5>4. produced \subseteq made /\ n \in made
          BY <4>m
        <5>5. Live(graph, after, nodes \ {n}, finished \union {n}, made)
          BY <1>g, <3>2, <4>1, <4>2, <5>2, <5>3, <5>4, LiveSettle
        <5> QED BY <3>s, <4>p, <5>1, <5>5
      <4>4. CASE /\ n \in DOMAIN graph.cycles /\ taken \intersect graph.back # {}
                 /\ kept \subseteq taken \intersect graph.back
                 /\ WentBack(graph, edges, n, taken, kept, edges')
                 /\ edges'.done = edges.done \ graph.cycles[n].body
        <5>1. finished' = (finished \union {n}) \ graph.cycles[n].body
          BY <1>b, <4>2, <4>4, FollowCompletes
        <5>2. kept \intersect Forward(graph) = {}
          BY <4>4 DEF Forward
        <5>3. \A x \in Forward(graph) :
                x[1] \in graph.cycles[n].body /\ x[2] \notin graph.cycles[n].body
                  => x[2] \in Reachable(Forward(graph), n)
          BY <4>4 DEF LoopsEndTogether, TypeOK, graph
        <5>4. /\ after.done = edges.done \ graph.cycles[n].body
              /\ Resolved(after) = (Resolved(edges) \union OutOf(graph, {n}))
                                     \ (OutOf(graph, graph.cycles[n].body) \ kept)
              /\ after.fired = ((edges.fired \ OutOf(graph, {n})) \union taken)
                                 \ (OutOf(graph, graph.cycles[n].body) \ kept)
          BY <1>0, <4>4 DEF WentBack
        <5>5. produced \subseteq made
          BY <4>m
        <5>6. Live(graph, after, nodes \ {n}, (finished \union {n}) \ graph.cycles[n].body, made)
          BY <1>g, <3>2, <4>2, <4>4, <5>2, <5>3, <5>4, <5>5, LiveReopen
        <5> QED BY <3>s, <4>p, <5>1, <5>6
      <4> QED BY <4>1, <4>3, <4>4 DEF Returned
    <3>5. CASE SettleFailure(n)
      <4>1. PICK taken : taken = {<<n, graph.on_error[n]>>}
        OBVIOUS
      <4>2. n \in DOMAIN graph.on_error /\ taken \subseteq graph.pairs
        BY <1>g, <3>5, <4>1 DEF SettleFailure, Settling, FailuresHandled, Is, IsGraph
      <4>3. taken \subseteq OutOf(graph, {n}) /\ taken \intersect graph.back = {} /\ taken # {}
        BY <1>b, <4>1, <4>2 DEF OutOf
      <4>4. {graph.on_error[n]} = {x[2] : x \in taken}
        BY <4>1
      <4>5. finished' = finished \union {n} /\ in_progress' = in_progress /\ produced' = produced
        BY <1>b, <3>5, <4>3, <4>4, FollowCompletes DEF SettleFailure
      <4>6. n # graph.terminal
        <5>1. <<n, graph.on_error[n]>> \in graph.pairs /\ <<n, graph.on_error[n]>>[1] = n
          BY <4>1, <4>2
        <5> QED BY <1>g, <5>1 DEF IsEnding
      <4>7. /\ after.done = edges.done /\ after.visits = edges.visits
            /\ after.fired = (edges.fired \ OutOf(graph, {n})) \union taken
            /\ Resolved(after) = Resolved(edges) \union OutOf(graph, {n})
        <5>1. after = Divert(graph, edges, n)
          BY <1>0, <3>5 DEF SettleFailure
        <5>2. IsEdgeState(graph, edges) /\ <<n, graph.on_error[n]>> \in graph.pairs
          BY <1>g, <4>1, <4>2
        <5>3. /\ Resolved(Divert(graph, edges, n)) = Resolved(edges) \union OutOf(graph, {n})
              /\ Divert(graph, edges, n).fired
                   = (edges.fired \ OutOf(graph, {n})) \union {<<n, graph.on_error[n]>>}
          BY <5>2, DivertResolves
        <5>4. /\ Divert(graph, edges, n).done = edges.done
              /\ Divert(graph, edges, n).visits = edges.visits
          BY <5>2 DEF IsEdgeState, Divert, Fire, LeaveAbsent
        <5> QED BY <4>1, <5>1, <5>3, <5>4
      <4>8. VisitsFewer(graph, edges, after)
        BY <4>7 DEF VisitsFewer
      <4>9. Live(graph, after, nodes \ {n}, finished \union {n}, produced)
        BY <1>g, <3>2, <4>3, <4>6, <4>7, <4>8, LiveSettle
      <4> QED BY <3>s, <4>5, <4>9
    <3>6. CASE SettleDrained(n)
      <4>1. /\ after = Unenter(edges, n) /\ in_progress' = in_progress /\ finished' = finished
            /\ produced' = produced
        BY <1>0, <3>6 DEF SettleDrained, history
      <4>2. n \in Is({"drained"})
        BY <3>6 DEF SettleDrained, Settling, Is
      <4>3. Is({"suspended"}) # {}
        BY <2>1, <2>4, <4>2 DEF UnitInv, Is
      <4>4. \A c \in DOMAIN graph.cycles : n \notin graph.cycles[c].body
        BY <2>1, <4>2, <4>3, StopsApart
      <4>5. Live(graph, after, nodes \ {n}, finished, produced)
        BY <1>g, <3>2, <4>1, <4>4, LiveUnenter
      <4> QED BY <3>s, <4>1, <4>5
    <3>7. CASE SettleSuspended(n)
      <4>1. /\ edges' = edges /\ in_progress' = in_progress \union {n} /\ finished' = finished
            /\ produced' = produced
        BY <3>7 DEF SettleSuspended, history
      <4>2. batch' \union in_progress' = nodes
        BY <2>1, <3>1, <4>1
      <4> QED BY <1>p, <2>1, <3>2, <4>1, <4>2 DEF LiveInv, TerminalReached
    <3>8. CASE SettleRaised(n)
      BY <2>4, <3>8, <1>r DEF SettleRaised, Settling
    <3>9. CASE RouteRaises(n)
      BY <1>p, <3>9 DEF LiveInv, TerminalReached, RouteRaises, Ended
    <3> QED BY <1>9, <3>4, <3>5, <3>6, <3>7, <3>8, <3>9 DEF SettleStep
  <2> QED BY <2>3, <2>4
<1>10. CASE Resume
  <2>1. /\ saved # NoState /\ saved' = saved /\ phase' = "walking" /\ edges' = saved.edges
        /\ in_progress' = saved.in_progress /\ batch' = {} /\ finished' = saved.finished
        /\ produced' = saved.produced
    BY <1>10 DEF Resume, Idle
  <2>2. batch' \union in_progress' = saved.in_progress
    BY <2>1
  <2> QED BY <1>p, <2>1, <2>2 DEF LiveInv, TerminalReached
<1>11. CASE UNCHANGED vars
  <2>1. UNCHANGED <<phase, edges, in_progress, batch, saved, finished, produced, unit>>
    BY <1>11 DEF vars, frame, units, history
  <2>2. Is({"raised"})' = Is({"raised"})
    BY <1>p, <2>1 DEF Is
  <2> QED BY <1>p, <2>1, <2>2 DEF LiveInv, TerminalReached
<1> QED BY <1>1, <1>2, <1>3, <1>4, <1>5, <1>6, <1>7, <1>8, <1>9, <1>10, <1>11
        DEF Next, Drive, Over

\* In every run of every accepted pipeline whose loops end where the node that
\* closes them leads, whose nodes lead on when they succeed, and whose nodes that
\* stop overlap none in a loop and none that ends the run, the walk never comes to
\* an end without the output the run returns: whatever routes chose, wherever
\* failures were sent, and however often it was stopped and resumed.
THEOREM RunsReachTheirEnd ==
  LoopsEndTogether /\ BackEdgesCloseCycles /\ RoundsEnd /\ SuccessLeadsOn /\ StopsStandApart
    /\ Spec => []TerminalReached
<1> DEFINE Hyp == /\ LoopsEndTogether /\ BackEdgesCloseCycles /\ RoundsEnd
                  /\ SuccessLeadsOn /\ StopsStandApart
           All == /\ TypeOK /\ FailuresHandled /\ OverlapInv /\ FlowInv /\ CarryInv
                  /\ UnitInv /\ LiveInv
<1>1. Hyp /\ All /\ [Next]_vars => All'
  BY NextType, NextFailures, NextOverlap, NextFlow, NextCarry, NextUnits, NextLive
<1>2. All => TerminalReached
  BY DEF LiveInv
<1>3. Hyp => Hyp'
  BY DEF LoopsEndTogether, BackEdgesCloseCycles, RoundsEnd, SuccessLeadsOn, StopsStandApart
<1>4. Init => All
  BY InitType, InitOverlap, InitFlow, InitCarry, InitUnits, InitLive
<1> HIDE DEF All, Hyp
<1>5. Hyp /\ Spec => []TerminalReached
  BY <1>1, <1>2, <1>3, <1>4, PTL DEF Spec
<1> QED BY <1>5 DEF Hyp
=============================================================================
