------------------------------- MODULE FanOut --------------------------------
(***************************************************************************)
(* A node that runs once per item (nodes/fanout.py), over any number of     *)
(* stops and resumes.  Items overlap; each makes calls one after another,   *)
(* numbered from 0, and a call may stop the run to ask somebody.  Items that *)
(* stop together are asked about one at a time.  Under an AgentNode an item  *)
(* goes on from the call it stopped on; under a Deterministic node its       *)
(* function runs again from the start and the call is known by its number.   *)
(* A resumed drive that fails is resumed again from the last stop.           *)
(***************************************************************************)
EXTENDS Integers, FiniteSets, FiniteSetsExt

CONSTANTS
    Items,        \* positions of the items, 0 first
    Width,        \* concurrent_items, within the run's ceiling
    MaxFailures,  \* max_failures
    Kinds,        \* kinds of node: "agent", "deterministic"
    LastCall,     \* bound: an item makes the calls 0 .. LastCall
    MaxStops      \* bound: the times the run stops

ASSUME ItemsAssumption == IsFiniteSet(Items) /\ Items \subseteq Nat /\ Items # {}
ASSUME BoundsAssumption ==
    /\ Width \in Nat \ {0} /\ MaxFailures \in Nat /\ LastCall \in Nat /\ MaxStops \in Nat
    /\ Kinds \subseteq {"agent", "deterministic"}

Nobody == -1

VARIABLES
    kind,      \* what the node is
    phase,     \* "driving", "stopped", "finished", "failed"
    st,        \* what the pool made of each item in this drive
    pos,       \* the number of the next call of each item
    done,      \* resume_state["done"] and the outcomes of this drive
    held,      \* resume_state["in_flight"]: the call each item waits at
    asked,     \* resume_state["asked"]
    question,  \* the suspension: whose question was put, and which call of it
    failures,  \* _Failures.already
    stops,     \* times stopped so far
    put,       \* history: the questions somebody was asked
    answered,  \* history: the calls handed somebody's answer
    unasked,   \* history: the calls handed an answer nobody gave
    taken,     \* history: the calls each item has behind it
    completed, \* history: how often each item returned a value
    saved      \* what the last stop wrote down, and the histories as of it

vars == <<kind, phase, st, pos, done, held, asked, question, failures, stops, put, answered,
          unasked, taken, completed, saved>>

Outcomes == {"ok", "failed", "ranout"}
Calls == 0 .. LastCall
NoQuestion == <<Nobody, Nobody>>
Settled == {"returned", "collected", "ranout", "asking", "raised", "drained"}

Remaining == {i \in Items : done[i] = "no"}
Stopping == \E i \in Items : st[i] \in {"asking", "raised"}
(* The item holds a call the answer of this drive has not reached yet. *)
Waits(i) == held[i] # Nobody /\ pos[i] <= held[i]

Init ==
    /\ kind \in Kinds
    /\ phase = "driving"
    /\ st = [i \in Items |-> "rest"]
    /\ pos = [i \in Items |-> 0]
    /\ done = [i \in Items |-> "no"]
    /\ held = [i \in Items |-> Nobody]
    /\ asked = Nobody
    /\ question = NoQuestion
    /\ failures = 0 /\ stops = 0
    /\ put = {} /\ answered = {} /\ unasked = {}
    /\ taken = [i \in Items |-> {}]
    /\ completed = [i \in Items |-> 0]
    /\ saved = [done |-> done, answered |-> answered, unasked |-> unasked, taken |-> taken,
                completed |-> completed]

Becomes(i, how) == st' = [st EXCEPT ![i] = how]

-----------------------------------------------------------------------------
(* `answer if asked == index else None`: what the call that waits is handed. *)
HandAnswer(i, call) ==
    /\ IF asked = i
       THEN answered' = answered \cup {<<i, call>>} /\ UNCHANGED unasked
       ELSE unasked' = unasked \cup {<<i, call>>} /\ UNCHANGED answered
    /\ taken' = [taken EXCEPT ![i] = @ \cup {call}]
    /\ pos' = [pos EXCEPT ![i] = call + 1]

(* The pool starts the items that are left in their order, at most Width at  *)
(* once, and none once one has stopped.                                      *)
Next1(i) == st[i] = "rest" /\ \A j \in Remaining : j < i => st[j] # "rest"
Begin(i) ==
    /\ phase = "driving"
    /\ i \in Remaining /\ Next1(i) /\ ~Stopping
    /\ Cardinality({j \in Items : st[j] = "running"}) < Width
    /\ Becomes(i, "running")
    /\ IF kind = "agent" /\ held[i] # Nobody
       THEN HandAnswer(i, held[i])
       ELSE pos' = [pos EXCEPT ![i] = 0] /\ UNCHANGED <<answered, unasked, taken>>
    /\ UNCHANGED <<kind, phase, done, held, asked, question, failures, stops, put, completed, saved>>

Drain(i) ==
    /\ phase = "driving"
    /\ i \in Remaining /\ st[i] = "rest" /\ Stopping
    /\ Becomes(i, "drained")
    /\ UNCHANGED <<kind, phase, pos, done, held, asked, question, failures, stops, put, answered,
                   unasked, taken, completed, saved>>

(* A call that answers while the item runs. *)
Call(i) ==
    /\ st[i] = "running" /\ pos[i] \in Calls
    /\ kind = "deterministic" => pos[i] # held[i]
    /\ pos' = [pos EXCEPT ![i] = @ + 1]
    /\ taken' = [taken EXCEPT ![i] = @ \cup {pos[i]}]
    /\ UNCHANGED <<kind, phase, st, done, held, asked, question, failures, stops, put, answered,
                   unasked, completed, saved>>

(* _FixedPointCaller: the call the function stopped on is handed the answer. *)
Deliver(i) ==
    /\ kind = "deterministic"
    /\ st[i] = "running" /\ pos[i] \in Calls /\ pos[i] = held[i]
    /\ HandAnswer(i, pos[i])
    /\ UNCHANGED <<kind, phase, st, done, held, asked, question, failures, stops, put, completed, saved>>

(* A call that stops the run. *)
Ask(i) ==
    /\ st[i] = "running" /\ pos[i] \in Calls /\ stops < MaxStops
    /\ kind = "deterministic" => pos[i] # held[i]
    /\ Becomes(i, "asking")
    /\ UNCHANGED <<kind, phase, pos, done, held, asked, question, failures, stops, put, answered,
                   unasked, taken, completed, saved>>

(* A failure of the item is collected, until there are more than the node    *)
(* tolerates: then it stops the run.                                         *)
Collect(i) ==
    /\ failures' = failures + 1
    /\ IF failures' > MaxFailures THEN Becomes(i, "raised") ELSE Becomes(i, "collected")
    /\ UNCHANGED <<kind, phase, pos, done, held, asked, question, stops, put, answered, unasked,
                   taken, completed, saved>>

Fail(i) == st[i] = "running" /\ Collect(i)

(* The function returned without the call it had stopped on. *)
MissTheCall(i) == kind = "deterministic" /\ st[i] = "running" /\ Waits(i) /\ Collect(i)

(* NodeBudgetExceeded: collected, and not counted as a failure here. *)
RunOut(i) ==
    /\ st[i] = "running"
    /\ Becomes(i, "ranout")
    /\ UNCHANGED <<kind, phase, pos, done, held, asked, question, failures, stops, put, answered,
                   unasked, taken, completed, saved>>

(* What ends the run whatever the item: a budget of the run, a missing       *)
(* recording, a configuration error.                                         *)
StopTheRun(i) ==
    /\ st[i] = "running"
    /\ Becomes(i, "raised")
    /\ UNCHANGED <<kind, phase, pos, done, held, asked, question, failures, stops, put, answered,
                   unasked, taken, completed, saved>>

Return(i) ==
    /\ st[i] = "running"
    /\ kind = "deterministic" => ~Waits(i)
    /\ Becomes(i, "returned")
    /\ completed' = [completed EXCEPT ![i] = @ + 1]
    /\ UNCHANGED <<kind, phase, pos, done, held, asked, question, failures, stops, put, answered,
                   unasked, taken, saved>>

-----------------------------------------------------------------------------
MapOver == phase = "driving" /\ \A i \in Remaining : st[i] \in Settled
OutcomeOf(i) ==
    CASE st[i] = "returned" -> "ok"
      [] st[i] = "collected" -> "failed"
      [] st[i] = "ranout" -> "ranout"
      [] OTHER -> done[i]
Errored == {i \in Remaining : st[i] \in {"asking", "raised"}}

(* {**in_flight, **still_holding} *)
StillHolding == [i \in Items |-> IF st[i] = "asking" THEN pos[i] ELSE Nobody]
Merged == [i \in Items |-> IF st[i] = "asking" THEN pos[i] ELSE held[i]]
(* The outcomes that travel with the stop. *)
Restored == done
Collected == [i \in Items |-> OutcomeOf(i)]
LastErrored == Max(Errored)
FirstErrored == Min(Errored)
(* What a resumed fan-out counts as failed already. *)
NoFailures(outcomes) == 0
FailuresAlready(outcomes) == Cardinality({i \in Items : outcomes[i] \in {"failed", "ranout"}})

(* The first item that stopped decides what becomes of the run; where it     *)
(* asks, its question is put and every item that asks keeps its place.  What *)
(* a later item raised is dropped with its run: the history forgets it too.  *)
Stop ==
    /\ MapOver /\ Errored # {}
    /\ st[Min(Errored)] = "asking"
    /\ phase' = "stopped"
    /\ question' = <<Min(Errored), pos[Min(Errored)]>>
    /\ put' = put \cup {question'}
    /\ done' = Collected
    /\ held' = Merged
    /\ asked' = FirstErrored
    /\ stops' = stops + 1
    /\ taken' = [i \in Items |-> IF st[i] = "raised" THEN {} ELSE taken[i]]
    /\ saved' = [done |-> done', answered |-> answered, unasked |-> unasked, taken |-> taken',
                 completed |-> completed]
    /\ UNCHANGED <<kind, st, pos, failures, answered, unasked, completed>>

EndInFailure ==
    /\ MapOver /\ Errored # {}
    /\ st[Min(Errored)] = "raised"
    /\ phase' = "failed"
    /\ UNCHANGED <<kind, st, pos, done, held, asked, question, failures, stops, put, answered,
                   unasked, taken, completed, saved>>

(* Every item has an outcome.  Where every one failed and in the same words  *)
(* the node is refused.                                                      *)
Finish ==
    /\ MapOver /\ Errored = {}
    /\ done' = Collected
    /\ \/ phase' = "finished"
       \/ /\ Cardinality(Items) > 1 /\ \A i \in Items : Collected[i] = "failed"
          /\ phase' = "failed"
    /\ UNCHANGED <<kind, st, pos, held, asked, question, failures, stops, put, answered, unasked,
                   taken, completed, saved>>

(* What comes after the node fails the run. *)
FailLater ==
    /\ phase = "finished" /\ phase' = "failed"
    /\ UNCHANGED <<kind, st, pos, done, held, asked, question, failures, stops, put, answered,
                   unasked, taken, completed, saved>>

(* Pipeline.resume with an answer: the node is run again from what the last    *)
(* stop wrote down, also where the drive after it failed.  What a drive that   *)
(* failed had done is lost, and the histories forget it.                       *)
Resumes ==
    /\ phase \in {"stopped", "failed"} /\ stops > 0
    /\ phase' = "driving"
    /\ st' = [i \in Items |-> "rest"]
    /\ pos' = [i \in Items |-> 0]
    /\ done' = saved.done /\ taken' = saved.taken /\ completed' = saved.completed
    /\ answered' = saved.answered /\ unasked' = saved.unasked
    /\ UNCHANGED <<kind, held, asked, question, stops, put, saved>>
ResumeCounting == Resumes /\ failures' = failures + FailuresAlready(saved.done)
Resume == Resumes /\ failures' = FailuresAlready(saved.done)

-----------------------------------------------------------------------------
Works(i) ==
    \/ Begin(i) \/ Drain(i) \/ Call(i) \/ Deliver(i) \/ Ask(i) \/ Fail(i) \/ MissTheCall(i)
    \/ RunOut(i) \/ StopTheRun(i) \/ Return(i)

Next == Stop \/ EndInFailure \/ Finish \/ FailLater \/ Resume \/ \E i \in Items : Works(i)

Spec == Init /\ [][Next]_vars

-----------------------------------------------------------------------------
(* Types.  No failure is counted twice: there are never more than items. *)
TypeOK ==
    /\ kind \in Kinds
    /\ phase \in {"driving", "stopped", "finished", "failed"}
    /\ st \in [Items -> {"rest", "running"} \cup Settled]
    /\ pos \in [Items -> 0 .. LastCall + 1]
    /\ done \in [Items -> Outcomes \cup {"no"}]
    /\ held \in [Items -> Calls \cup {Nobody}]
    /\ asked \in Items \cup {Nobody}
    /\ question \in (Items \X Calls) \cup {NoQuestion}
    /\ failures \in 0 .. Cardinality(Items)
    /\ stops \in 0 .. MaxStops
    /\ put \subseteq Items \X Calls /\ answered \subseteq Items \X Calls
    /\ unasked \subseteq Items \X Calls
    /\ taken \in [Items -> SUBSET Calls]
    /\ completed \in [Items -> Nat]

(* fanout.py, a resume finishes the items that are left rather than starting *)
(* the others again: over any stops and drains an item returns once, and     *)
(* while it is not among the done ones only in the drive that it returned in.*)
(* A drive that failed does not count.                                       *)
EachItemCompletesOnce ==
    \A i \in Items : completed[i] <= 1 /\ (completed[i] = 1 => done[i] = "ok" \/ st[i] = "returned")

(* Docs/pipeline.md, an AgentNode's item continues from what it was holding: *)
(* no call of an item is made again, also where it was drained before its    *)
(* turn came or stopped again (still_holding over in_flight).  An item whose *)
(* own failure was dropped with a stop is the exception, and a drive that    *)
(* failed: they run again.                                                   *)
NoCallIsMadeAgain ==
    [][\A i \in Items : kind = "agent" /\ (Call(i) \/ Ask(i)) => pos[i] \notin taken[i]]_vars

(* fanout.py, the answer reaches the item that asked and no other: only a    *)
(* call whose question was put is handed an answer, and an agent's is before *)
(* the run stops again or the node finishes.                                 *)
AnswersReachTheirCall ==
    /\ answered \subseteq put
    /\ kind = "agent" /\ phase = "finished" => put \subseteq answered
    /\ kind = "agent" /\ phase = "stopped" => put \subseteq answered \cup {question}

(* max_failures binds over the stops of a run: a node that finishes has an   *)
(* outcome of every item, and no more failures than it tolerates.            *)
ToleranceHolds ==
    phase = "finished" =>
        /\ \A i \in Items : done[i] # "no"
        /\ Cardinality({i \in Items : done[i] = "failed"}) <= MaxFailures

(* Docs/pipeline.md:408, of the items that stopped together the lowest is    *)
(* answered and the rest ask on the next resume: no call is handed an answer *)
(* nobody gave.                                                              *)
NobodyIsAnsweredFor == unasked = {}
=============================================================================
