------------------------------- MODULE MCWalk -------------------------------
(***************************************************************************)
(* The pipelines the walk is checked on.                                   *)
(***************************************************************************)
EXTENDS Walk, TLC

NoneDeclared == [n \in {} |-> n]

\* A declaration in which the node code never fails or stops.
Plain(nodes, successors, routed) ==
  [nodes |-> nodes, successors |-> successors, on_error |-> NoneDeclared,
   routed |-> routed, loop |-> NoneDeclared, groups |-> {},
   raises |-> {}, fatal |-> {}, suspends |-> {}, attempts |-> NoneDeclared,
   suspend_before |-> {}, route_raises |-> {}, stop_when |-> FALSE,
   budget |-> FALSE]

Loop(max, then) == [then |-> then, max_iterations |-> max]

\* Three arms that may overlap, two of which stop, one of which fails over to
\* a handler after two attempts, joined at the end.
Fan ==
  [Plain(<<"s", "a", "b", "c", "h", "t">>,
         ("s" :> <<"a", "b", "c">>) @@ ("a" :> <<"t">>) @@ ("b" :> <<"t">>)
           @@ ("c" :> <<"t">>) @@ ("h" :> <<"t">>), {"s"})
   EXCEPT !.groups = {{"a", "b", "c"}}, !.suspends = {"a", "b"},
          !.raises = {"c"}, !.attempts = ("c" :> 2), !.on_error = ("c" :> "h")]

\* Two groups that share a node, one of which lists what joins the arms too, an
\* arm that raises with no handler, and a route that may raise.
Groups ==
  [Plain(<<"s", "a", "b", "c", "t">>,
         ("s" :> <<"a", "b", "c">>) @@ ("a" :> <<"t">>) @@ ("b" :> <<"t">>)
           @@ ("c" :> <<"t">>), {"s"})
   EXCEPT !.groups = {{"a", "b"}, {"b", "c", "t"}}, !.raises = {"b"}, !.fatal = {"c"},
          !.route_raises = {"s"}, !.budget = TRUE, !.stop_when = TRUE]

\* A node that stops, then one that fails twice: a resume that fails.
Chain ==
  [Plain(<<"s", "a", "b", "t">>, NoneDeclared, {})
   EXCEPT !.suspends = {"a"}, !.raises = {"b"}, !.attempts = ("b" :> 2),
          !.fatal = {"t"}, !.suspend_before = {"t"}, !.budget = TRUE]

\* A loop inside a loop, stopped before its first node and inside its last.
Nested ==
  [Plain(<<"a", "b", "c", "d", "t">>,
         ("c" :> <<"b", "d">>) @@ ("d" :> <<"a", "t">>), {"c", "d"})
   EXCEPT !.loop = ("c" :> Loop(2, "d")) @@ ("d" :> Loop(2, "t")),
          !.suspends = {"c"}, !.suspend_before = {"b"}]

\* A loop whose body fans out to two overlapping arms, one with a handler, and
\* whose join comes before them in the list.
LoopedFan ==
  [Plain(<<"h", "j", "x", "y", "e", "t">>,
         ("h" :> <<"x", "y">>) @@ ("x" :> <<"j">>) @@ ("y" :> <<"j">>)
           @@ ("e" :> <<"j">>) @@ ("j" :> <<"h", "t">>), {"h", "j"})
   EXCEPT !.loop = ("j" :> Loop(3, "t")), !.groups = {{"x", "y"}},
          !.raises = {"y"}, !.on_error = ("y" :> "e")]

\* A node whose failures go to one that repairs and tries again.
Repair ==
  [Plain(<<"s", "a", "f", "t">>,
         ("a" :> <<"t">>) @@ ("f" :> <<"a", "t">>), {"f"})
   EXCEPT !.loop = ("f" :> Loop(2, "t")), !.on_error = ("a" :> "f"),
          !.raises = {"a"}, !.suspends = {"f"}]

\* A review that may send the run back to the plan, to the draft or to both, where
\* the draft is also entered from outside the loop.
SeveralBack ==
  [Plain(<<"s", "plan", "draft", "review", "t">>,
         ("s" :> <<"plan", "draft">>) @@ ("review" :> <<"plan", "draft", "t">>),
         {"s", "review"})
   EXCEPT !.loop = ("review" :> Loop(2, "t")), !.suspends = {"draft"}]

Ordinary ==
  ("fan" :> Fan) @@ ("groups" :> Groups) @@ ("chain" :> Chain)
    @@ ("nested" :> Nested) @@ ("looped_fan" :> LoopedFan) @@ ("repair" :> Repair)
    @@ ("several_back" :> SeveralBack)

\* The hypotheses of the theorems about the walk hold of these, but for the last
\* one, whose loop has two heads.
ASSUME OrdinaryLoops ==
  Pipelines = Ordinary =>
    /\ ClosersRunAlone /\ LoopsEndTogether /\ BackEdgesCloseCycles /\ RoundsEnd
    /\ \A p \in DOMAIN Pipelines \ {"several_back"} : LoopsAreNatural(Graphs[p])
    /\ SuccessLeadsOn /\ StopsStandApart

-----------------------------------------------------------------------------
(* The pipelines on which the code departs from what it says *)

\* Two overlapping arms inside a loop, one of which stops.
DrainedInALoop ==
  ("looped" :>
    [Plain(<<"h", "x", "y", "j", "t">>,
           ("h" :> <<"x", "y">>) @@ ("x" :> <<"j">>) @@ ("y" :> <<"j">>)
             @@ ("j" :> <<"h", "t">>), {"h", "j"})
     EXCEPT !.loop = ("j" :> Loop(2, "t")), !.groups = {{"x", "y"}},
            !.suspends = {"x"}])

TwoArms(raises, suspends) ==
  [Plain(<<"s", "a", "b", "t">>,
         ("s" :> <<"a", "b">>) @@ ("a" :> <<"t">>) @@ ("b" :> <<"t">>), {"s"})
   EXCEPT !.groups = {{"a", "b"}}, !.raises = raises, !.suspends = suspends]

OneStopsOneRaises == "arms" :> TwoArms({"b"}, {"a"})

BothStop == "arms" :> TwoArms({}, {"a", "b"})

\* A check that goes back to the plan, then a review that goes back to the
\* check: two loops that overlap and neither holds the other.
OverlappingLoops ==
  ("overlapping" :>
    [Plain(<<"plan", "draft", "check", "review", "t">>,
           ("check" :> <<"plan", "review">>) @@ ("review" :> <<"check", "t">>),
           {"check", "review"})
     EXCEPT !.loop = ("check" :> Loop(2, "review")) @@ ("review" :> Loop(2, "t"))])

\* A node that declares a handler and no successor: it leads nowhere when it
\* returns.
DeadEnd ==
  ("dead_end" :>
    [Plain(<<"a", "b", "h">>, ("a" :> <<"b">>) @@ ("b" :> <<>>), {})
     EXCEPT !.on_error = ("b" :> "h"), !.raises = {"b"}])
=============================================================================
