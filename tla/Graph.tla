------------------------------- MODULE Graph -------------------------------
(***************************************************************************)
(* The declared graph of a pipeline (graph.py): what `Graph` computes from *)
(* a list of nodes before anything runs, and the declarations it refuses.  *)
(*                                                                         *)
(* A declaration d is a record:                                            *)
(*   d.nodes       the node ids, in the order of the list                  *)
(*   d.successors  the successors of the nodes that declare them           *)
(*   d.on_error    the handler of the nodes that declare one               *)
(*   d.routed      the nodes that declare a route                          *)
(*   d.loop        the Loop of the nodes that declare one:                 *)
(*                 [then, max_iterations]                                  *)
(*   d.groups      the concurrent_nodes groups                             *)
(* Slices, whose edges may be cut, are not declared here.                  *)
(***************************************************************************)
EXTENDS Naturals, FiniteSets, SequencesExt

Nodes(d) == ToSet(d.nodes)

Order(d, n) == CHOOSE i \in DOMAIN d.nodes : d.nodes[i] = n

Entry(d) == Head(d.nodes)

\* A node that declares nothing is followed by the next one in the list.
Successors(d) ==
  [n \in Nodes(d) |->
     IF n \in DOMAIN d.successors THEN d.successors[n]
     ELSE IF n = Last(d.nodes) THEN <<>> ELSE <<d.nodes[Order(d, n) + 1]>>]

\* Every declared edge, the error edges after the successors.
Edges(d) ==
  [n \in Nodes(d) |->
     LET to == Successors(d)[n]
     IN  IF n \in DOMAIN d.on_error /\ d.on_error[n] \notin ToSet(to)
         THEN Append(to, d.on_error[n])
         ELSE to]

Pairs(outs) == UNION {{n} \X ToSet(outs[n]) : n \in DOMAIN outs}

\* The nodes reached from s by one edge or more of the set E: the least set
\* that holds what s leads to and what its own members lead to.
Reachable(E, s) ==
  LET targets   == {e[2] : e \in E}
      Closed(S) == \A e \in E : e[1] \in S \union {s} => e[2] \in S
  IN  {t \in targets : \A S \in SUBSET targets : Closed(S) => t \in S}

-----------------------------------------------------------------------------
(* Cycles *)

\* One step of the depth-first walk: the node on top of the path looks at its
\* next edge, or leaves the path when it has none left.
DfsStep(outs, walk) ==
  LET top  == Last(walk.path)
      node == top[1]
      rest == Append(Front(walk.path), <<node, top[2] + 1>>)
  IN  IF top[2] > Len(outs[node]) THEN [walk EXCEPT !.path = Front(@)]
      ELSE LET target == outs[node][top[2]]
           IN  IF \E i \in DOMAIN walk.path : walk.path[i][1] = target
               THEN [walk EXCEPT !.path = rest, !.found = @ \union {<<node, target>>}]
               ELSE IF target \in walk.seen
               THEN [walk EXCEPT !.path = rest]
               ELSE [walk EXCEPT !.path = Append(rest, <<target, 1>>),
                                 !.seen = @ \union {target}]

\* The edges that point at a node already on the path being walked.
BackEdges(d) ==
  LET outs  == Edges(d)
      walks == [path : Seq(Nodes(d) \X Nat),
                seen : SUBSET Nodes(d), found : SUBSET Pairs(outs)]
      end[walk \in walks] ==
        IF walk.path = <<>> THEN walk ELSE end[DfsStep(outs, walk)]
  IN  end[[path |-> << <<Entry(d), 1>> >>, seen |-> {Entry(d)}, found |-> {}]].found

\* The nodes on a way from one of `heads`, which c closes its cycle to, back
\* to c, over the edges E that close no cycle.
Body(E, heads, c) ==
  {c} \union {m \in heads \union UNION {Reachable(E, h) : h \in heads} :
                c \in Reachable(E, m)}

\* The cycle closed by each node that an edge of `back` leaves.
CyclesClosed(d, back, acyclic) ==
  LET heads == [c \in DOMAIN d.loop |-> {e[2] : e \in {x \in back : x[1] = c}}]
  IN  [c \in {n \in DOMAIN d.loop : heads[n] # {}} |->
         [then |-> d.loop[c].then, max_iterations |-> d.loop[c].max_iterations,
          back |-> heads[c], body |-> Body(acyclic, heads[c], c)]]

Cycles(d) == CyclesClosed(d, BackEdges(d), Pairs(Edges(d)) \ BackEdges(d))

\* The node closing the innermost cycle around n: the smallest body, the
\* first closing node in the list where two are as small.
InnermostAround(d, cycles, n) ==
  LET holding == {c \in DOMAIN cycles : n \in cycles[c].body}
      size(c) == Cardinality(cycles[c].body)
  IN  CHOOSE c \in holding :
        \A o \in holding \ {c} :
          \/ size(c) < size(o)
          \/ size(c) = size(o) /\ Order(d, c) < Order(d, o)

-----------------------------------------------------------------------------
(* What a declaration has to satisfy *)

IsDeclaration(d) ==
  /\ d.nodes \in Seq(ToSet(d.nodes)) /\ IsInjective(d.nodes)
  /\ d.nodes # <<>>
  /\ \A n \in DOMAIN d.successors : d.successors[n] \in Seq(ToSet(d.successors[n]))

TargetsKnown(d) ==
  /\ \A n \in DOMAIN d.successors : ToSet(d.successors[n]) \subseteq Nodes(d)
  /\ \A n \in DOMAIN d.on_error : d.on_error[n] \in Nodes(d)
  /\ \A n \in DOMAIN d.loop : d.loop[n].then \in Nodes(d)

\* A Loop that declares no round is refused where it is constructed.
LoopsGoRound(d) == \A n \in DOMAIN d.loop : d.loop[n].max_iterations \in Nat \ {0}

RoutesDecided(d) ==
  \A n \in Nodes(d) : n \in d.routed <=> Len(Successors(d)[n]) > 1

CyclesBounded(d) == \A e \in BackEdges(d) : e[1] \in DOMAIN d.loop

AllReached(d) ==
  Nodes(d) \subseteq {Entry(d)} \union Reachable(Pairs(Edges(d)), Entry(d))

Ends(d) == {n \in Nodes(d) : Edges(d)[n] = <<>>}

LoopsCloseSomething(d) == DOMAIN d.loop = DOMAIN Cycles(d)

ThenLeavesTheCycle(d) ==
  \A c \in DOMAIN Cycles(d) :
    d.loop[c].then \in ToSet(Successors(d)[c]) \ Cycles(d)[c].body

GroupsSaySomething(d) ==
  \A g \in d.groups : g \subseteq Nodes(d) /\ Cardinality(g) > 1

\* The pipelines `Graph` does not refuse.
Accepted(d) ==
  /\ IsDeclaration(d)
  /\ TargetsKnown(d)
  /\ LoopsGoRound(d)
  /\ RoutesDecided(d)
  /\ CyclesBounded(d)
  /\ AllReached(d)
  /\ Cardinality(Ends(d)) = 1
  /\ LoopsCloseSomething(d)
  /\ ThenLeavesTheCycle(d)
  /\ GroupsSaySomething(d)

-----------------------------------------------------------------------------
\* What the walk reads of the graph, computed once when it is built.
GraphWith(d, outs, back, cycles) ==
  [nodes       |-> Nodes(d),
   order       |-> [n \in Nodes(d) |-> Order(d, n)],
   entry       |-> Entry(d),
   terminal    |-> CHOOSE n \in Ends(d) : TRUE,
   successors  |-> Successors(d),
   on_error    |-> d.on_error,
   routed      |-> d.routed,
   pairs       |-> Pairs(outs),
   in_edges    |-> [n \in Nodes(d) |-> {m \in Nodes(d) : n \in ToSet(outs[m])}],
   back        |-> back,
   cycles      |-> cycles,
   around      |-> [n \in UNION {cycles[c].body : c \in DOMAIN cycles} |->
                      InnermostAround(d, cycles, n)],
   overlapping |-> UNION {{{m, n} : m \in g, n \in g} : g \in d.groups}]

GraphOf(d) == GraphWith(d, Edges(d), BackEdges(d), Cycles(d))

\* A group lists both nodes. Two nodes that never share a group never overlap.
MayOverlap(g, m, n) == m # n /\ {m, n} \in g.overlapping
=============================================================================
