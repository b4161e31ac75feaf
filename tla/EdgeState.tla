----------------------------- MODULE EdgeState -----------------------------
(***************************************************************************)
(* What each edge of a run has resolved to, which nodes have run and where *)
(* a cycle has got to (pipeline/edges.py, class _EdgeState). A state is a  *)
(* record                                                                  *)
(*   fired, absent   the edges that resolved, carrying a value or not      *)
(*   visits          how often each node has run since its cycle was       *)
(*                   entered; 0 also stands for "no entry"                 *)
(*   done            the nodes the walk does not choose again              *)
(* The value an edge carries is left out: every edge out of a node is      *)
(* resolved again whenever the node runs, so it is the node's last output. *)
(***************************************************************************)
EXTENDS Graph

IsEdgeState(g, e) ==
  /\ e \in [fired : SUBSET g.pairs, absent : SUBSET g.pairs,
            visits : [g.nodes -> Nat], done : SUBSET g.nodes]
  /\ e.fired \intersect e.absent = {}

NewEdges(g) ==
  [fired |-> {}, absent |-> {}, visits |-> [n \in g.nodes |-> 0], done |-> {}]

Resolved(e) == e.fired \union e.absent

\* Mutant of Ready: one resolved in-edge is enough.
ReadyOnAny(g, e, n) ==
  g.in_edges[n] = {} \/ \E s \in g.in_edges[n] : <<s, n>> \in Resolved(e) \union g.back

\* Every edge into n has resolved, the ones that close a cycle left out.
Ready(g, e, n) ==
  \A s \in g.in_edges[n] : <<s, n>> \in Resolved(e) \union g.back

AllAbsent(g, e, n) ==
  /\ n # g.entry
  /\ g.in_edges[n] # {}
  /\ \A s \in g.in_edges[n] : <<s, n>> \notin e.fired

\* Mutant of Enter: an entered node can be chosen again.
EnterOnly(e, nodes) ==
  [e EXCEPT !.visits = [n \in DOMAIN @ |-> @[n] + (IF n \in nodes THEN 1 ELSE 0)]]

\* The nodes of a batch are entered together.
Enter(e, nodes) ==
  [e EXCEPT !.visits = [n \in DOMAIN @ |-> @[n] + (IF n \in nodes THEN 1 ELSE 0)],
            !.done = @ \union nodes]

\* A node drained before it began: its entry is taken back. It leaves `done`
\* only when this was its first visit.
Unenter(e, n) ==
  IF e.visits[n] <= 1
  THEN [e EXCEPT !.visits[n] = 0, !.done = @ \ {n}]
  ELSE [e EXCEPT !.visits[n] = @ - 1]

Fire(e, taken) ==
  [e EXCEPT !.fired = @ \union taken, !.absent = @ \ taken]

LeaveAbsent(e, left) ==
  [e EXCEPT !.absent = @ \union left, !.fired = @ \ left]

OutOf(g, nodes) == {p \in g.pairs : p[1] \in nodes}

\* Mutant of NoteEntries: a count is never started again.
NoteNoEntries(g, e, n, chosen) == e

\* The cycles innermost around the chosen targets that n is not a member of
\* are entered from outside, and start their count again.
NoteEntries(g, e, n, chosen) ==
  LET inner   == {g.around[t] : t \in chosen \intersect DOMAIN g.around}
      entered == UNION {g.cycles[c].body : c \in {c \in inner : n \notin g.cycles[c].body}}
  IN  [e EXCEPT !.visits = [m \in DOMAIN @ |-> IF m \in entered THEN 0 ELSE @[m]]]

\* Mutant of Reopen: the edges of the cycle keep what the last round left.
ReopenNodes(g, e, n, kept) == [e EXCEPT !.done = @ \ g.cycles[n].body]

\* Mutant of Reopen: the edges are reopened as absent, and keep what they had.
ReopenAbsent(g, e, n, kept) ==
  LET body == g.cycles[n].body
  IN  [e EXCEPT !.done = @ \ body, !.absent = @ \union OutOf(g, body)]

\* The cycle n closes runs again: its nodes, and what their edges carried
\* other than the edge that sent the run back.
Reopen(g, e, n, kept) ==
  LET body  == g.cycles[n].body
      stale == OutOf(g, body) \ kept
  IN  [e EXCEPT !.done = @ \ body, !.fired = @ \ stale, !.absent = @ \ stale]

BackTo(g, n, chosen) == {t \in chosen : <<n, t>> \in g.back}

\* Where a route chose several edges back, the cycle is reopened for each of
\* them in turn, and none keeps the edge of another.
KeptBack(g, n, chosen) ==
  LET back == BackTo(g, n, chosen)
  IN  IF Cardinality(back) = 1 THEN {n} \X back ELSE {}

\* The node's output goes to the chosen successors, and nowhere else.
Advance(g, e, n, chosen) ==
  LET taken   == {n} \X chosen
      settled == Fire(LeaveAbsent(e, OutOf(g, {n}) \ taken), taken)
      counted == NoteEntries(g, settled, n, chosen)
  IN  IF n \in DOMAIN g.cycles /\ BackTo(g, n, chosen) # {}
      THEN Reopen(g, counted, n, KeptBack(g, n, chosen)) ELSE counted

\* Mutant of Divert: the edges not taken stay unresolved.
DivertOnly(g, e, n) == Fire(e, {<<n, g.on_error[n]>>})

\* A failed node's output goes along its error edge, and nowhere else.
Divert(g, e, n) ==
  LET handler == {<<n, g.on_error[n]>>}
  IN  Fire(LeaveAbsent(e, OutOf(g, {n}) \ handler), handler)

\* The skipped nodes of a batch: no edge out of them carries anything.
ResolveAllAbsent(g, e, nodes) == LeaveAbsent(e, OutOf(g, nodes))
=============================================================================
