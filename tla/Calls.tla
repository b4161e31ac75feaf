-------------------------------- MODULE Calls --------------------------------
(***************************************************************************)
(* The calls of a run that overlap: items of fan-outs run on the threads    *)
(* of a WorkPool, each an agent loop that asks its model, runs tools that    *)
(* may ask it too, and delegates.  A call takes a step of the run's budget,  *)
(* and of the total its node declared, before it is made                     *)
(* (RunContext.one_step), waits for a slot (WorkPool.slot), and is charged   *)
(* when its response is back.  One unit is one item; nodes run side by side. *)
(* Only the axis of steps is modelled: the other axes are checked at the     *)
(* same places, against what has been charged.                               *)
(***************************************************************************)
EXTENDS Integers, FiniteSets, FiniteSetsExt

CONSTANTS
    Units,         \* items, numbered in the order of their fan-out
    NodeOf,        \* the node execution an item belongs to
    Limit,         \* concurrent_items of each node
    Ceiling,       \* Pipeline.run(concurrency=...)
    MaxSteps,      \* max_steps of the run
    Totals,        \* the nodes that declare budget=, the total of their items
    NodeMax,       \* max_steps of each of them
    ItemMax,       \* budget_per_item=
    InnerMax,      \* bound: calls one tool call or delegation makes
    Attempts       \* TOOL_RETRY_ATTEMPTS

Nodes == {NodeOf[u] : u \in Units}
Of(n) == {u \in Units : NodeOf[u] = n}

ASSUME UnitsAssumption == IsFiniteSet(Units) /\ Units \subseteq Nat
ASSUME CeilingAssumption == Ceiling \in Nat \ {0}
ASSUME MaxStepsAssumption == MaxSteps \in Nat
ASSUME LimitsAssumption ==
    /\ Limit \in [Nodes -> Nat \ {0}]
    /\ Totals \subseteq Nodes
    /\ NodeMax \in [Totals -> Nat]
    /\ ItemMax \in Nat
    /\ InnerMax \in Nat
    /\ Attempts \in Nat \ {0}

VARIABLES
    at,        \* where an item is; see Places
    call,      \* how far the call it is making is; see Phases
    spent,     \* RunContext._spend.steps
    inFlight,  \* RunContext._steps_in_flight
    scope,     \* RunContext._scopes, one per node that declares a total
    free,      \* what is left of WorkPool._slots
    holding,   \* the threads whose WorkPool._held is set
    own,       \* node_calls of an agent loop
    inner,     \* calls made so far by the tool or the delegation an item is in
    opened,    \* run.spend when the delegation began
    tries,     \* attempts the tool call has had
    stopping,  \* the nodes whose map starts no more items
    made       \* history: the model calls charged for an item

vars == <<at, call, spent, inFlight, scope, free, holding, own, inner, opened, tries,
          stopping, made>>

Over == {"finished", "failed", "refused", "stopped", "drained"}
Places == {"new", "loop", "turn", "queued", "tool", "delegate"} \cup Over
(* none: no call.  taken: its step is taken.  out: at the backend.  back:   *)
(* answered.  charged: charged, and its step not given back yet.  fetch: a  *)
(* retrieval call, which has no slot of its own.                            *)
Phases == {"none", "taken", "out", "back", "charged", "fetch", "fetched"}
NoScope == [open |-> FALSE, spent |-> 0, inFlight |-> 0]

Running(n) == {u \in Of(n) : at[u] \notin Over \cup {"new"}}
(* A slot is taken by a thread that has none, where anything overlaps. *)
TakesASlotAlways(u) == Ceiling > 1
TakesASlot(u) == Ceiling > 1 /\ u \notin holding

Init ==
    /\ at = [u \in Units |-> "new"]
    /\ call = [u \in Units |-> "none"]
    /\ spent = 0 /\ inFlight = 0
    /\ scope = [n \in Totals |-> NoScope]
    /\ free = Ceiling
    /\ holding = {}
    /\ own = [u \in Units |-> 0]
    /\ inner = [u \in Units |-> 0]
    /\ opened = [u \in Units |-> 0]
    /\ tries = [u \in Units |-> 0]
    /\ stopping = {}
    /\ made = [u \in Units |-> 0]

-----------------------------------------------------------------------------
(* The accounts. *)
RunExceededByCharged == spent >= MaxSteps
RunExceeded == spent + inFlight >= MaxSteps
(* A call of the loop itself is held against its node's total, found by the *)
(* record it is made under; a call inside a tool or a delegation is not.    *)
HeldAt(u) == at[u] = "loop" /\ NodeOf[u] \in Totals /\ scope[NodeOf[u]].open
NodeExceededByCharged(u) ==
    HeldAt(u) /\ scope[NodeOf[u]].spent >= NodeMax[NodeOf[u]]
NodeExceeded(u) ==
    HeldAt(u) /\ scope[NodeOf[u]].spent + scope[NodeOf[u]].inFlight >= NodeMax[NodeOf[u]]

(* charge_scope: of a scope that is not open nothing is charged. *)
ChargeScope(n, steps) ==
    scope' = IF n \in Totals /\ scope[n].open
             THEN [scope EXCEPT ![n].spent = @ + steps] ELSE scope

KeepStep(u) == UNCHANGED <<inFlight, scope>>

(* The exits of the with blocks an exception passes: the step of the call    *)
(* it was making, and the slot of its thread.                                *)
GiveBackStep(u) ==
    IF call[u] = "none" THEN UNCHANGED <<inFlight, scope>>
    ELSE /\ inFlight' = inFlight - 1
         /\ scope' = IF HeldAt(u) THEN [scope EXCEPT ![NodeOf[u]].inFlight = @ - 1] ELSE scope
GiveBackSlot(u) ==
    IF u \in holding THEN free' = free + 1 /\ holding' = holding \ {u}
    ELSE UNCHANGED <<free, holding>>

Ends(u, how) == at' = [at EXCEPT ![u] = how]

-----------------------------------------------------------------------------
(* The fan-out: scoped_budget is entered, the items are handed to the pool. *)
Open(n) ==
    /\ ~scope[n].open
    /\ \A u \in Of(n) : at[u] = "new"
    /\ scope' = [scope EXCEPT ![n] = [NoScope EXCEPT !.open = TRUE]]
    /\ UNCHANGED <<at, call, spent, inFlight, free, holding, own, inner, opened, tries, stopping, made>>

(* The pool takes the items in order, at most so many at once; with a        *)
(* ceiling of 1 everything runs in the calling thread, nodes included.  An   *)
(* item the pool reaches after one stopped the rest returns at once.         *)
Begin(u) ==
    LET n == NodeOf[u] IN
    /\ at[u] = "new"
    /\ n \in Totals => scope[n].open
    /\ \A v \in Of(n) : v < u => at[v] # "new"
    /\ Cardinality(Running(n)) < Min({Limit[n], Ceiling})
    /\ Ceiling = 1 => \A m \in Nodes : Running(m) = {}
    /\ Ends(u, IF n \in stopping THEN "drained" ELSE "loop")
    /\ UNCHANGED <<call, spent, inFlight, scope, free, holding, own, inner, opened, tries, stopping, made>>

Close(n) ==
    /\ scope[n].open
    /\ \A u \in Of(n) : at[u] \in Over
    /\ scope' = [scope EXCEPT ![n] = NoScope]
    /\ UNCHANGED <<at, call, spent, inFlight, free, holding, own, inner, opened, tries, stopping, made>>

-----------------------------------------------------------------------------
(* One model call. *)
Allowance(u) == at[u] = "loop" /\ own[u] >= ItemMax
Calls(u) ==
    /\ call[u] = "none"
    /\ \/ at[u] = "loop" /\ ~Allowance(u)
       \/ at[u] \in {"tool", "delegate"} /\ inner[u] < InnerMax

(* A response the cassette holds is served at once and takes no slot. *)
TakeStep(u) ==
    /\ Calls(u)
    /\ ~RunExceeded /\ ~NodeExceeded(u)
    /\ inFlight' = inFlight + 1
    /\ scope' = IF HeldAt(u) THEN [scope EXCEPT ![NodeOf[u]].inFlight = @ + 1] ELSE scope
    /\ \E phase \in {"taken", "back"} : call' = [call EXCEPT ![u] = phase]
    /\ UNCHANGED <<at, spent, free, holding, own, inner, opened, tries, stopping, made>>

(* The run's budget is spent: the item stops the run, and no other begins.   *)
(* Inside a delegation the refusal is first taken for the delegate's own,    *)
(* and the run's spend is asked again, without the calls in flight.          *)
RefuseRun(u) ==
    /\ Calls(u) /\ RunExceeded
    /\ at[u] = "delegate" => RunExceededByCharged
    /\ Ends(u, "stopped")
    /\ stopping' = stopping \cup {NodeOf[u]}
    /\ GiveBackSlot(u)
    /\ UNCHANGED <<call, spent, inFlight, scope, own, inner, opened, tries, made>>

(* The node's total is spent: the item is one that failed, the others go on. *)
RefuseNode(u) ==
    /\ Calls(u) /\ ~RunExceeded /\ NodeExceeded(u)
    /\ Ends(u, "refused")
    /\ UNCHANGED <<call, spent, inFlight, scope, free, holding, own, inner, opened, tries, stopping, made>>

AskBackend(u) ==
    /\ call[u] = "taken"
    /\ IF TakesASlot(u) THEN free > 0 /\ free' = free - 1 /\ holding' = holding \cup {u}
       ELSE UNCHANGED <<free, holding>>
    /\ call' = [call EXCEPT ![u] = "out"]
    /\ UNCHANGED <<at, spent, inFlight, scope, own, inner, opened, tries, stopping, made>>

(* The slot goes back where this call took it: a tool keeps its own. *)
Return(u) ==
    /\ call[u] = "out"
    /\ IF at[u] = "tool" THEN UNCHANGED <<free, holding>> ELSE GiveBackSlot(u)
    /\ call' = [call EXCEPT ![u] = "back"]
    /\ UNCHANGED <<at, spent, inFlight, scope, own, inner, opened, tries, stopping, made>>

(* A call that raises charges nothing; a tool, a delegation or the loop may   *)
(* raise between its calls too.  The item fails, and past max_failures stops  *)
(* the rest, or it suspends the run.  What a tool had spent is not folded     *)
(* into its node.                                                             *)
Raise(u) ==
    /\ at[u] \notin Over \cup {"new"} /\ call[u] \in {"none", "out", "fetch"}
    /\ \/ Ends(u, "failed") /\ stopping' \in {stopping, stopping \cup {NodeOf[u]}}
       \/ Ends(u, "stopped") /\ stopping' = stopping \cup {NodeOf[u]}
    /\ GiveBackStep(u)
    /\ GiveBackSlot(u)
    /\ call' = [call EXCEPT ![u] = "none"]
    /\ UNCHANGED <<spent, own, inner, opened, tries, made>>

Charge(u) ==
    /\ call[u] = "back"
    /\ spent' = spent + 1
    /\ IF at[u] = "loop" THEN ChargeScope(NodeOf[u], 1) ELSE UNCHANGED scope
    /\ inner' = IF at[u] = "loop" THEN inner ELSE [inner EXCEPT ![u] = @ + 1]
    /\ made' = [made EXCEPT ![u] = @ + 1]
    /\ call' = [call EXCEPT ![u] = "charged"]
    /\ UNCHANGED <<at, inFlight, free, holding, own, opened, tries, stopping>>

(* The step is given back after the charge: for a moment it counts twice. *)
Release(u) ==
    /\ call[u] \in {"charged", "fetched"}
    /\ GiveBackStep(u)
    /\ call' = [call EXCEPT ![u] = "none"]
    /\ own' = IF at[u] = "loop" THEN [own EXCEPT ![u] = @ + 1] ELSE own
    /\ Ends(u, IF at[u] = "loop" THEN "turn" ELSE at[u])
    /\ UNCHANGED <<spent, free, holding, inner, opened, tries, stopping, made>>

-----------------------------------------------------------------------------
(* A turn: the model asked for a tool, for a delegation, for neither (it is  *)
(* asked again), or it finished.  One tool or delegation a turn is a bound.  *)
GoRound(u) ==
    /\ at[u] = "turn"
    /\ Ends(u, "loop")
    /\ UNCHANGED <<call, spent, inFlight, scope, free, holding, own, inner, opened, tries, stopping, made>>

Finish(u) ==
    /\ at[u] = "turn" \/ (Allowance(u) /\ call[u] = "none")
    /\ Ends(u, "finished")
    /\ UNCHANGED <<call, spent, inFlight, scope, free, holding, own, inner, opened, tries, stopping, made>>

AskTool(u) ==
    /\ at[u] = "turn"
    /\ Ends(u, "queued")
    /\ UNCHANGED <<call, spent, inFlight, scope, free, holding, own, inner, opened, tries, stopping, made>>

RunToolFree(u) ==
    /\ at[u] = "queued"
    /\ Ends(u, "tool")
    /\ tries' = [tries EXCEPT ![u] = @ + 1]
    /\ UNCHANGED <<call, spent, inFlight, scope, free, holding, own, inner, opened, stopping, made>>

RunTool(u) ==
    /\ at[u] = "queued"
    /\ IF TakesASlot(u) THEN free > 0 /\ free' = free - 1 /\ holding' = holding \cup {u}
       ELSE UNCHANGED <<free, holding>>
    /\ Ends(u, "tool")
    /\ tries' = [tries EXCEPT ![u] = @ + 1]
    /\ UNCHANGED <<call, spent, inFlight, scope, own, inner, opened, stopping, made>>

ThrottleForEver(u) ==
    /\ at[u] = "tool" /\ call[u] = "none"
    /\ GiveBackSlot(u)
    /\ Ends(u, "queued")
    /\ UNCHANGED <<call, spent, inFlight, scope, own, inner, opened, tries, stopping, made>>

(* The source asks for time: the wait holds no slot. *)
Throttle(u) ==
    /\ at[u] = "tool" /\ call[u] = "none" /\ tries[u] < Attempts
    /\ GiveBackSlot(u)
    /\ Ends(u, "queued")
    /\ UNCHANGED <<call, spent, inFlight, scope, own, inner, opened, tries, stopping, made>>

(* An embedding or a rerank inside a tool: a step of the run and of no node. *)
Retrieve(u) ==
    /\ at[u] = "tool" /\ call[u] = "none"
    /\ inner[u] < InnerMax /\ ~RunExceeded
    /\ inFlight' = inFlight + 1
    /\ call' = [call EXCEPT ![u] = "fetch"]
    /\ UNCHANGED <<at, spent, scope, free, holding, own, inner, opened, tries, stopping, made>>

ChargeRetrieval(u) ==
    /\ call[u] = "fetch"
    /\ spent' = spent + 1
    /\ call' = [call EXCEPT ![u] = "fetched"]
    /\ UNCHANGED <<at, inFlight, scope, free, holding, own, inner, opened, tries, stopping, made>>

EndToolUnfolded(u) ==
    /\ at[u] = "tool" /\ call[u] = "none"
    /\ GiveBackSlot(u)
    /\ UNCHANGED scope
    /\ own' = [own EXCEPT ![u] = @ + inner[u]]
    /\ inner' = [inner EXCEPT ![u] = 0]
    /\ tries' = [tries EXCEPT ![u] = 0]
    /\ Ends(u, "loop")
    /\ UNCHANGED <<call, spent, inFlight, opened, stopping, made>>

(* fold_spend, with what the tool's own calls came to. *)
EndTool(u) ==
    /\ at[u] = "tool" /\ call[u] = "none"
    /\ GiveBackSlot(u)
    /\ ChargeScope(NodeOf[u], inner[u])
    /\ own' = [own EXCEPT ![u] = @ + inner[u]]
    /\ inner' = [inner EXCEPT ![u] = 0]
    /\ tries' = [tries EXCEPT ![u] = 0]
    /\ Ends(u, "loop")
    /\ UNCHANGED <<call, spent, inFlight, opened, stopping, made>>

Delegate(u) ==
    /\ at[u] = "turn"
    /\ Ends(u, "delegate")
    /\ opened' = [opened EXCEPT ![u] = spent]
    /\ UNCHANGED <<call, spent, inFlight, scope, free, holding, own, inner, tries, stopping, made>>

(* The subtask is over, or a budget bound it: what the run spent meanwhile   *)
(* is folded into the node, whoever spent it.                                *)
EndDelegate(u) ==
    /\ at[u] = "delegate" /\ call[u] = "none"
    /\ ChargeScope(NodeOf[u], spent - opened[u])
    /\ own' = [own EXCEPT ![u] = @ + (spent - opened[u])]
    /\ inner' = [inner EXCEPT ![u] = 0]
    /\ opened' = [opened EXCEPT ![u] = 0]
    /\ Ends(u, "loop")
    /\ UNCHANGED <<call, spent, inFlight, free, holding, tries, stopping, made>>

-----------------------------------------------------------------------------
Steps(u) ==
    \/ Begin(u) \/ TakeStep(u) \/ RefuseRun(u) \/ RefuseNode(u)
    \/ AskBackend(u) \/ Return(u) \/ Raise(u) \/ Charge(u) \/ Release(u)
    \/ GoRound(u) \/ Finish(u) \/ AskTool(u) \/ RunTool(u) \/ Throttle(u)
    \/ Retrieve(u) \/ ChargeRetrieval(u) \/ EndTool(u) \/ Delegate(u) \/ EndDelegate(u)

Next == (\E n \in Totals : Open(n) \/ Close(n)) \/ (\E u \in Units : Steps(u))

(* Every thread is run, a call comes back or raises, and a subtask ends. *)
Fairness == (\A n \in Totals : WF_vars(Open(n) \/ Close(n))) /\ (\A u \in Units : WF_vars(Steps(u)))

Spec == Init /\ [][Next]_vars /\ Fairness

-----------------------------------------------------------------------------
TypeOK ==
    /\ at \in [Units -> Places]
    /\ call \in [Units -> Phases]
    /\ spent \in Nat /\ inFlight \in Nat
    /\ scope \in [Totals -> [open : BOOLEAN, spent : Nat, inFlight : Nat]]
    /\ free \in 0 .. Ceiling
    /\ holding \subseteq Units
    /\ own \in [Units -> Nat] /\ inner \in [Units -> Nat] /\ opened \in [Units -> Nat]
    /\ tries \in [Units -> 0 .. Attempts]
    /\ stopping \subseteq Nodes
    /\ made \in [Units -> Nat]

(* The calls that have their step and are not charged. *)
Unpaid == {u \in Units : call[u] \in {"taken", "out", "back", "fetch"}}

(* Docs/pipeline.md, max_steps is exact: whatever overlaps and whatever the  *)
(* calls are made from, the calls charged and the calls on their way never   *)
(* pass the run's budget (one_step, charge).                                 *)
StepsNeverOvershoot == spent + Cardinality(Unpaid) <= MaxSteps

(* concurrency=N bounds the calls in flight: never more requests and running *)
(* tools than the ceiling, over throttles, nested calls and failures (slot). *)
Busy == {u \in Units : at[u] = "tool" \/ call[u] = "out"}
AtMostCeilingInFlight == Cardinality(Busy) <= Ceiling

(* The calls of a node's items, each the item and its number, and those its   *)
(* account has to hold: all but the ones of a tool or a delegation that still *)
(* runs or that raised.                                                       *)
CallsOf(n, count) == UNION {{u} \X (1 .. count[u]) : u \in Of(n)}
Made(n) == Cardinality(CallsOf(n, made))
Folded(n) == Cardinality(CallsOf(n, [u \in Of(n) |-> made[u] - inner[u]]))

(* Docs/pipeline.md, what a tool or a delegate spends counts against the      *)
(* calling node's budget: an open account holds every call that is over,     *)
(* also where the items overlap (charge, fold_spend, charge_scope).          *)
NothingIsForgotten ==
    \A n \in Totals : scope[n].open => scope[n].spent >= Folded(n)

(* agent.py, budget= under over= is the total of the items: no item asks its  *)
(* model once the calls that are over and the calls of loops on their way    *)
(* have used it up, whichever items they belong to.                          *)
AskingLoops(n) == {u \in Of(n) : at[u] = "loop" /\ call[u] \in {"taken", "out", "back"}}
TotalBindsEveryItem ==
    [][\A u \in Units :
        (TakeStep(u) /\ HeldAt(u))
            => LET n == NodeOf[u] IN Folded(n) + Cardinality(AskingLoops(n)) < NodeMax[n]]_vars

(* concurrency.py, draining: when the items of a node are over no step and no *)
(* slot is left with them, after refusals and failures at any point; an       *)
(* account closes with nothing on its way, so no charge misses it.           *)
EverythingIsGivenBack ==
    /\ (\A u \in Units : at[u] \in Over) => inFlight = 0 /\ free = Ceiling /\ holding = {}
    /\ \A n \in Totals : (\A u \in Of(n) : at[u] \in Over) => scope[n].inFlight = 0

(* concurrency.py, a unit that waits for the units below it holds no slot and *)
(* a tool does not wait for the slot of its own caller: every item ends.     *)
EveryItemEnds == \A u \in Units : <>(at[u] \in Over)

(* Docs/pipeline.md:1028, what a delegate spends counts against the calling   *)
(* node's budget: a node is charged for the calls of its own items only.     *)
ChargedForItsOwn == \A n \in Totals : scope[n].open => scope[n].spent <= Made(n)

(* context.py:610, calls that overlap stop exactly on max_steps: a run is      *)
(* refused a call only once its calls and those on their way have used them up. *)
RefusedOnTheLastStep ==
    [][\A u \in Units : RefuseRun(u) => spent + Cardinality(Unpaid) >= MaxSteps]_vars
=============================================================================
