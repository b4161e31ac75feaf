---------------------------- MODULE FanOutProofs -----------------------------
(***************************************************************************)
(* What the stops and resumes of a fan-out keep, for any items, pool,       *)
(* tolerance and number of stops: an item that returned is done, failures    *)
(* are counted over the stops, and an answer reaches the call that asked.    *)
(***************************************************************************)
EXTENDS FanOut, TLAPS, FiniteSetTheorems, WellFoundedInduction

LEMMA LeastItem ==
    ASSUME NEW S \in SUBSET Items, S # {}
    PROVE  Min(S) \in S /\ \A i \in S : Min(S) <= i
<1> DEFINE R == OpToRel(<, Nat)
<1>1. S \subseteq Nat
  BY ItemsAssumption
<1>2. \A x, y \in Nat : y < x => <<y, x>> \in R
  BY DEF OpToRel
<1>3. IsWellFoundedOn(R, Nat)
  BY NatLessThanWellFounded
<1> HIDE DEF R
<1>4. PICK x \in S : \A y \in S : ~(<<y, x>> \in R)
  BY <1>1, <1>3, WFMin
<1>5. ASSUME NEW y \in S PROVE x <= y
  <2>1. x \in Nat /\ y \in Nat
    BY <1>1
  <2>2. ~(y < x)
    BY <2>1, <1>2, <1>4
  <2> QED BY <2>1, <2>2
<1> QED BY <1>1, <1>5 DEF Min

-----------------------------------------------------------------------------
(* What each variable holds, and which drive an item runs in. *)
StatesInv ==
    /\ kind \in Kinds
    /\ phase \in {"driving", "stopped", "finished", "failed"}
    /\ st \in [Items -> {"rest", "running"} \cup Settled]
    /\ done \in [Items -> Outcomes \cup {"no"}]
    /\ \A i \in Items : st[i] = "running" => phase = "driving" /\ done[i] = "no"
    /\ phase = "driving" => \A i \in Items : done[i] # "no" => st[i] = "rest"
    /\ phase = "driving" /\ (\E i \in Items : st[i] = "drained") => Stopping
    /\ phase = "finished" => \A i \in Items : done[i] # "no"
    /\ saved.done \in [Items -> Outcomes \cup {"no"}]

CallsInv ==
    /\ pos \in [Items -> 0 .. LastCall + 1]
    /\ held \in [Items -> Calls \cup {Nobody}]
    /\ asked \in Items \cup {Nobody}
    /\ stops \in 0 .. MaxStops
    /\ question \in (Items \X Calls) \cup {NoQuestion}
    /\ put \subseteq Items \X Calls /\ answered \subseteq Items \X Calls
    /\ unasked \subseteq Items \X Calls
    /\ taken \in [Items -> SUBSET Calls]
    /\ saved.answered \subseteq Items \X Calls /\ saved.unasked \subseteq Items \X Calls
    /\ saved.taken \in [Items -> SUBSET Calls]
    /\ phase = "driving" => \A i \in Items : st[i] = "asking" => pos[i] \in Calls /\ stops < MaxStops

ReturnsInv ==
    /\ completed \in [Items -> {0, 1}]
    /\ \A i \in Items : completed[i] = 1 => done[i] = "ok" \/ st[i] = "returned"
    /\ \A i \in Items : st[i] = "running" => completed[i] = 0
    /\ saved.completed \in [Items -> {0, 1}]
    /\ \A i \in Items : saved.completed[i] = 1 => saved.done[i] = "ok"

LEMMA InitStates == Init => StatesInv /\ CallsInv /\ ReturnsInv
BY BoundsAssumption DEF Init, StatesInv, CallsInv, ReturnsInv, Calls, Outcomes, Settled, Nobody, NoQuestion, Stopping

LEMMA NextStates ==
    StatesInv /\ [Next]_vars => StatesInv'
<1> SUFFICES ASSUME StatesInv, [Next]_vars PROVE StatesInv'
  OBVIOUS
<1> USE DEF StatesInv, Outcomes, Settled, Stopping
<1>1. CASE UNCHANGED vars
  BY <1>1 DEF vars
<1>2. ASSUME NEW i \in Items, Works(i) PROVE StatesInv'
  <2>1. CASE Begin(i)
    BY <2>1 DEF Begin, Becomes, Remaining, Stopping, Next1
  <2>2. CASE Drain(i)
    BY <2>2 DEF Drain, Becomes, Remaining
  <2>3. CASE Call(i)
    BY <2>3 DEF Call
  <2>4. CASE Deliver(i)
    BY <2>4 DEF Deliver, HandAnswer
  <2>5. CASE Ask(i)
    BY <2>5 DEF Ask, Becomes
  <2>6. CASE Fail(i)
    BY <2>6 DEF Fail, Collect, Becomes
  <2>7. CASE MissTheCall(i)
    BY <2>7 DEF MissTheCall, Collect, Becomes
  <2>8. CASE RunOut(i)
    BY <2>8 DEF RunOut, Becomes
  <2>9. CASE StopTheRun(i)
    BY <2>9 DEF StopTheRun, Becomes
  <2>10. CASE Return(i)
    BY <2>10 DEF Return, Becomes
  <2> QED BY <1>2, <2>1, <2>2, <2>3, <2>4, <2>5, <2>6, <2>7, <2>8, <2>9, <2>10 DEF Works
<1>3. CASE Stop
  BY <1>3 DEF Stop, Collected, OutcomeOf, MapOver, Remaining
<1>4. CASE EndInFailure
  BY <1>4 DEF EndInFailure, MapOver, Remaining
<1>5. CASE Finish
  BY <1>5 DEF Finish, Collected, OutcomeOf, MapOver, Remaining, Errored
<1>6. CASE Resume
  BY <1>6 DEF Resume, Resumes
<1>7. CASE FailLater
  BY <1>7 DEF FailLater
<1> QED BY <1>1, <1>2, <1>3, <1>4, <1>5, <1>6, <1>7 DEF Next

LEMMA ErroredIsFirst ==
    ASSUME Errored # {} PROVE Min(Errored) \in Errored /\ \A i \in Errored : Min(Errored) <= i
BY LeastItem DEF Errored, Remaining

LEMMA NextCalls ==
    StatesInv /\ CallsInv /\ [Next]_vars => CallsInv'
<1> SUFFICES ASSUME StatesInv, CallsInv, [Next]_vars PROVE CallsInv'
  OBVIOUS
<1> USE DEF CallsInv, StatesInv, Calls, Nobody
<1>1. CASE UNCHANGED vars
  BY <1>1 DEF vars, NoQuestion
<1>2. ASSUME NEW i \in Items, Works(i) PROVE CallsInv'
  <2>1. CASE Begin(i)
    <3>1. pos' \in [Items -> 0 .. LastCall + 1] /\ taken' \in [Items -> SUBSET Calls]
      BY <2>1, BoundsAssumption DEF Begin, HandAnswer
    <3>2. answered' \subseteq Items \X Calls /\ unasked' \subseteq Items \X Calls
      BY <2>1, BoundsAssumption DEF Begin, HandAnswer
    <3>3. \A j \in Items \ {i} : pos'[j] = pos[j] /\ st'[j] = st[j]
      BY <2>1 DEF Begin, HandAnswer, Becomes
    <3>4. st'[i] = "running"
      BY <2>1 DEF Begin, Becomes
    <3> QED BY <2>1, <3>1, <3>2, <3>3, <3>4 DEF Begin
  <2>2. CASE Drain(i)
    BY <2>2 DEF Drain, Becomes, Remaining
  <2>3. CASE Call(i)
    BY <2>3, BoundsAssumption DEF Call
  <2>4. CASE Deliver(i)
    BY <2>4, BoundsAssumption DEF Deliver, HandAnswer
  <2>5. CASE Ask(i)
    BY <2>5 DEF Ask, Becomes
  <2>6. CASE Fail(i)
    BY <2>6 DEF Fail, Collect, Becomes
  <2>7. CASE MissTheCall(i)
    BY <2>7 DEF MissTheCall, Collect, Becomes
  <2>8. CASE RunOut(i)
    BY <2>8 DEF RunOut, Becomes
  <2>9. CASE StopTheRun(i)
    BY <2>9 DEF StopTheRun, Becomes
  <2>10. CASE Return(i)
    BY <2>10 DEF Return, Becomes
  <2> QED BY <1>2, <2>1, <2>2, <2>3, <2>4, <2>5, <2>6, <2>7, <2>8, <2>9, <2>10 DEF Works
<1>3. CASE Stop
  <2>1. Min(Errored) \in Items /\ st[Min(Errored)] = "asking"
    BY <1>3, ErroredIsFirst DEF Stop, Errored, Remaining
  <2>2. pos[Min(Errored)] \in Calls /\ stops < MaxStops
    BY <1>3, <2>1 DEF Stop, MapOver
  <2>3. held' \in [Items -> Calls \cup {Nobody}]
    BY <1>3 DEF Stop, MapOver, Merged
  <2>4. question' \in (Items \X Calls) /\ put' \subseteq Items \X Calls
    BY <1>3, <2>1, <2>2 DEF Stop
  <2>5. asked' \in Items /\ stops' \in 0 .. MaxStops
    BY <1>3, <2>1, <2>2, BoundsAssumption DEF Stop, FirstErrored
  <2>6. taken' \in [Items -> SUBSET Calls]
    BY <1>3 DEF Stop
  <2> QED BY <1>3, <2>3, <2>4, <2>5, <2>6 DEF Stop
<1>4. CASE EndInFailure
  BY <1>4 DEF EndInFailure, MapOver, Remaining
<1>5. CASE Finish
  BY <1>5 DEF Finish, Collected, OutcomeOf, MapOver, Remaining
<1>6. CASE Resume
  BY <1>6, BoundsAssumption DEF Resume, Resumes
<1>7. CASE FailLater
  BY <1>7 DEF FailLater
<1> QED BY <1>1, <1>2, <1>3, <1>4, <1>5, <1>6, <1>7 DEF Next

LEMMA NextReturns ==
    StatesInv /\ ReturnsInv /\ [Next]_vars => ReturnsInv'
<1> SUFFICES ASSUME StatesInv, ReturnsInv, [Next]_vars PROVE ReturnsInv'
  OBVIOUS
<1> USE DEF ReturnsInv, StatesInv
<1>1. CASE UNCHANGED vars
  BY <1>1 DEF vars
<1>2. ASSUME NEW i \in Items, Works(i) PROVE ReturnsInv'
  <2>1. CASE Begin(i)
    BY <2>1 DEF Begin, Becomes, Remaining, Stopping, Next1
  <2>2. CASE Drain(i)
    BY <2>2 DEF Drain, Becomes, Remaining
  <2>3. CASE Call(i)
    BY <2>3 DEF Call
  <2>4. CASE Deliver(i)
    BY <2>4 DEF Deliver, HandAnswer
  <2>5. CASE Ask(i)
    BY <2>5 DEF Ask, Becomes
  <2>6. CASE Fail(i)
    BY <2>6 DEF Fail, Collect, Becomes
  <2>7. CASE MissTheCall(i)
    BY <2>7 DEF MissTheCall, Collect, Becomes
  <2>8. CASE RunOut(i)
    BY <2>8 DEF RunOut, Becomes
  <2>9. CASE StopTheRun(i)
    BY <2>9 DEF StopTheRun, Becomes
  <2>10. CASE Return(i)
    BY <2>10 DEF Return, Becomes
  <2> QED BY <1>2, <2>1, <2>2, <2>3, <2>4, <2>5, <2>6, <2>7, <2>8, <2>9, <2>10 DEF Works
<1>3. CASE Stop
  BY <1>3 DEF Stop, Collected, OutcomeOf, MapOver, Remaining
<1>4. CASE EndInFailure
  BY <1>4 DEF EndInFailure, MapOver, Remaining
<1>5. CASE Finish
  BY <1>5 DEF Finish, Collected, OutcomeOf, MapOver, Remaining
<1>6. CASE Resume
  BY <1>6 DEF Resume, Resumes
<1>7. CASE FailLater
  BY <1>7 DEF FailLater
<1> QED BY <1>1, <1>2, <1>3, <1>4, <1>5, <1>6, <1>7 DEF Next

-----------------------------------------------------------------------------
(* The failures: those in the outcomes, and those of this drive. *)
Failed == {i \in Items : done[i] = "failed" \/ (done[i] = "no" /\ st[i] = "collected")}
Counted == {i \in Items : \/ done[i] \in {"failed", "ranout"}
                          \/ done[i] = "no" /\ st[i] \in {"collected", "raised"}}
SavedFailed == {i \in Items : saved.done[i] = "failed"}
FailuresInv ==
    /\ failures \in 0 .. Cardinality(Items)
    /\ Cardinality(Failed) <= MaxFailures
    /\ Cardinality(SavedFailed) <= MaxFailures
    /\ phase = "driving" => Cardinality(Failed) <= failures /\ failures <= Cardinality(Counted)

LEMMA FiniteItems ==
    ASSUME NEW S \in SUBSET Items
    PROVE  IsFiniteSet(S) /\ Cardinality(S) \in Nat /\ Cardinality(S) <= Cardinality(Items)
BY ItemsAssumption, FS_Subset, FS_CardinalityType

LEMMA InitFailures == StatesInv /\ Init => FailuresInv
<1> SUFFICES ASSUME Init PROVE FailuresInv
  OBVIOUS
<1>1. Failed = {} /\ Counted = {} /\ SavedFailed = {}
  BY DEF Init, Failed, Counted, SavedFailed
<1>2. Cardinality(Items) \in Nat
  BY FiniteItems
<1> QED BY <1>1, <1>2, FS_EmptySet, BoundsAssumption DEF Init, FailuresInv

(* A failure that is collected, or stops the run for being one too many. *)
LEMMA CollectFailures ==
    ASSUME StatesInv, FailuresInv, NEW i \in Items, st[i] = "running", Collect(i)
    PROVE  FailuresInv'
<1> USE DEF FailuresInv, StatesInv
<1>1. phase = "driving" /\ done[i] = "no" /\ i \notin Failed /\ i \notin Counted
  BY DEF Failed, Counted
<1>2. Counted' = Counted \cup {i}
  BY <1>1 DEF Collect, Becomes, Counted, Settled
<1>3. Failed' = IF failures + 1 > MaxFailures THEN Failed ELSE Failed \cup {i}
  BY <1>1 DEF Collect, Becomes, Failed, Settled
<1>4. Failed \in SUBSET Items /\ Counted \in SUBSET Items /\ Counted \cup {i} \in SUBSET Items
  BY DEF Failed, Counted
<1>5. Cardinality(Counted \cup {i}) = Cardinality(Counted) + 1
  BY <1>1, <1>4, FiniteItems, FS_AddElement
<1>6. Cardinality(Failed \cup {i}) = Cardinality(Failed) + 1
  BY <1>1, <1>4, FiniteItems, FS_AddElement
<1>7. Cardinality(Counted \cup {i}) <= Cardinality(Items)
  BY <1>4, FiniteItems
<1>8. /\ Cardinality(Failed) \in Nat /\ Cardinality(Counted) \in Nat
      /\ Cardinality(Items) \in Nat /\ failures \in Nat
  BY <1>4, FiniteItems
<1>9. failures' = failures + 1 /\ phase' = phase /\ SavedFailed' = SavedFailed
  BY DEF Collect, SavedFailed
<1> QED BY <1>1, <1>2, <1>3, <1>5, <1>6, <1>7, <1>8, <1>9, BoundsAssumption

LEMMA SameFailures ==
    ASSUME FailuresInv, Failed' = Failed, Counted' = Counted, SavedFailed' = SavedFailed,
           phase' = phase \/ phase' # "driving", failures' = failures
    PROVE  FailuresInv'
BY DEF FailuresInv

LEMMA NextFailures ==
    StatesInv /\ FailuresInv /\ [Next]_vars => FailuresInv'
<1> SUFFICES ASSUME StatesInv, FailuresInv, [Next]_vars PROVE FailuresInv'
  OBVIOUS
<1> USE DEF StatesInv
<1>1. CASE UNCHANGED vars
  BY <1>1 DEF vars, Failed, Counted, SavedFailed, FailuresInv
<1>2. ASSUME NEW i \in Items, Works(i) PROVE FailuresInv'
  <2>1. CASE Begin(i)
    BY <2>1, SameFailures DEF Begin, Becomes, Remaining, Next1, Failed, Counted, SavedFailed
  <2>2. CASE Drain(i)
    BY <2>2, SameFailures DEF Drain, Becomes, Remaining, Failed, Counted, SavedFailed
  <2>3. CASE Call(i)
    BY <2>3, SameFailures DEF Call, Failed, Counted, SavedFailed
  <2>4. CASE Deliver(i)
    BY <2>4, SameFailures DEF Deliver, HandAnswer, Failed, Counted, SavedFailed
  <2>5. CASE Ask(i)
    BY <2>5, SameFailures DEF Ask, Becomes, Failed, Counted, SavedFailed
  <2>6. CASE Fail(i)
    BY <2>6, CollectFailures DEF Fail
  <2>7. CASE MissTheCall(i)
    BY <2>7, CollectFailures DEF MissTheCall
  <2>8. CASE RunOut(i)
    BY <2>8, SameFailures DEF RunOut, Becomes, Failed, Counted, SavedFailed
  <2>9. CASE StopTheRun(i)
    <3>1. Failed' = Failed
      BY <2>9 DEF StopTheRun, Becomes, Failed
    <3>2. Counted \in SUBSET Counted' /\ Counted' \in SUBSET Items
      BY <2>9 DEF StopTheRun, Becomes, Counted
    <3>3. Cardinality(Counted) <= Cardinality(Counted')
      BY <3>2, FiniteItems, FS_Subset
    <3>4. Cardinality(Counted) \in Nat /\ Cardinality(Counted') \in Nat
      BY <3>2, FiniteItems
    <3>5. phase' = phase /\ failures' = failures /\ SavedFailed' = SavedFailed
      BY <2>9 DEF StopTheRun, SavedFailed
    <3> QED BY <3>1, <3>3, <3>4, <3>5, FiniteItems DEF FailuresInv
  <2>10. CASE Return(i)
    BY <2>10, SameFailures DEF Return, Becomes, Failed, Counted, SavedFailed
  <2> QED BY <1>2, <2>1, <2>2, <2>3, <2>4, <2>5, <2>6, <2>7, <2>8, <2>9, <2>10 DEF Works
<1>3. CASE Stop
  <2>1. phase = "driving" /\ phase' # "driving" /\ failures' = failures /\ st' = st
    BY <1>3 DEF Stop, MapOver
  <2>2. done' = Collected
    BY <1>3 DEF Stop
  <2>3. Failed' = Failed
    BY <2>1, <2>2 DEF Failed, Collected, OutcomeOf
  <2>4. SavedFailed' = {i \in Items : Collected[i] = "failed"}
    BY <1>3 DEF Stop, SavedFailed
  <2>5. SavedFailed' = Failed
    BY <2>1, <2>4 DEF Failed, Collected, OutcomeOf
  <2> QED BY <2>1, <2>3, <2>5 DEF FailuresInv
<1>4. CASE EndInFailure
  BY <1>4, SameFailures DEF EndInFailure, Failed, Counted, SavedFailed
<1>5. CASE Finish
  <2>1. phase = "driving" /\ phase' # "driving" /\ failures' = failures /\ st' = st
    BY <1>5 DEF Finish, MapOver
  <2>2. done' = Collected
    BY <1>5 DEF Finish
  <2>3. Failed' = Failed
    BY <2>1, <2>2 DEF Failed, Collected, OutcomeOf
  <2>4. SavedFailed' = SavedFailed
    BY <1>5 DEF Finish, SavedFailed
  <2> QED BY <2>1, <2>3, <2>4 DEF FailuresInv
<1>6. CASE Resume
  <2>1. Failed' = SavedFailed /\ SavedFailed' = SavedFailed
    BY <1>6 DEF Resume, Resumes, Failed, SavedFailed
  <2>2. Counted' = {i \in Items : saved.done[i] \in {"failed", "ranout"}}
    BY <1>6 DEF Resume, Resumes, Counted
  <2>3. failures' = Cardinality(Counted')
    BY <1>6, <2>2 DEF Resume, FailuresAlready
  <2>4. Counted' \in SUBSET Items /\ SavedFailed \in SUBSET Counted'
    BY <2>2 DEF SavedFailed
  <2>5. Cardinality(SavedFailed) <= Cardinality(Counted')
    BY <2>4, FiniteItems, FS_Subset
  <2>6. /\ Cardinality(SavedFailed) \in Nat /\ Cardinality(Counted') \in Nat
        /\ Cardinality(Counted') <= Cardinality(Items) /\ Cardinality(Items) \in Nat
    BY <2>4, FiniteItems
  <2> QED BY <2>1, <2>3, <2>5, <2>6, BoundsAssumption DEF FailuresInv
<1>7. CASE FailLater
  BY <1>7 DEF FailLater, FailuresInv, Failed, Counted, SavedFailed
<1> QED BY <1>1, <1>2, <1>3, <1>4, <1>5, <1>6, <1>7 DEF Next

-----------------------------------------------------------------------------
(* The items of a drive begin in their order, the one that was asked first. *)
Begun(i) == st[i] \notin {"rest", "drained"}
OrderInv ==
    /\ phase = "driving" =>
          \A i, j \in Remaining : j < i /\ Begun(i) => Begun(j)
    /\ phase = "driving" /\ asked # Nobody =>
          asked \in Remaining /\ \A j \in Remaining : asked <= j
    /\ asked # Nobody =>
          /\ asked \in Items /\ saved.done[asked] = "no"
          /\ \A j \in Items : saved.done[j] = "no" => asked <= j

LEMMA NextOrder ==
    StatesInv /\ OrderInv /\ [Next]_vars => OrderInv'
<1> SUFFICES ASSUME StatesInv, OrderInv, [Next]_vars PROVE OrderInv'
  OBVIOUS
<1> USE DEF OrderInv, StatesInv, Remaining
<1>1. CASE UNCHANGED vars
  BY <1>1 DEF vars, Begun
<1>2. ASSUME NEW i \in Items, Works(i) PROVE OrderInv'
  <2>1. CASE Begin(i)
    <3>1. \A j \in Remaining : j < i => Begun(j)
      BY <2>1 DEF Begin, Next1, Begun, Stopping
    <3>2. Remaining' = Remaining /\ \A j \in Items : Begun(j)' = (Begun(j) \/ j = i)
      BY <2>1 DEF Begin, Becomes, Begun
    <3>3. UNCHANGED <<phase, asked, saved>> /\ phase = "driving"
      BY <2>1 DEF Begin
    <3>4. ASSUME NEW k \in Remaining, NEW j \in Remaining, j < k, Begun(k)' PROVE Begun(j)'
      BY <3>1, <3>2, <3>3, <3>4
    <3> QED BY <3>2, <3>3, <3>4
  <2>2. CASE Drain(i)
    <3>1. Remaining' = Remaining /\ \A j \in Items : Begun(j)' = Begun(j)
      BY <2>2 DEF Drain, Becomes, Begun
    <3>2. UNCHANGED <<phase, asked, saved>>
      BY <2>2 DEF Drain, Becomes
    <3> QED BY <3>1, <3>2
  <2>3. CASE Call(i)
    <3>1. Remaining' = Remaining /\ \A j \in Items : Begun(j)' = Begun(j)
      BY <2>3 DEF Call, Begun
    <3>2. UNCHANGED <<phase, asked, saved>>
      BY <2>3 DEF Call
    <3> QED BY <3>1, <3>2
  <2>4. CASE Deliver(i)
    <3>1. Remaining' = Remaining /\ \A j \in Items : Begun(j)' = Begun(j)
      BY <2>4 DEF Deliver, HandAnswer, Begun
    <3>2. UNCHANGED <<phase, asked, saved>>
      BY <2>4 DEF Deliver, HandAnswer
    <3> QED BY <3>1, <3>2
  <2>5. CASE Ask(i)
    <3>1. Remaining' = Remaining /\ \A j \in Items : Begun(j)' = Begun(j)
      BY <2>5 DEF Ask, Becomes, Begun
    <3>2. UNCHANGED <<phase, asked, saved>>
      BY <2>5 DEF Ask, Becomes
    <3> QED BY <3>1, <3>2
  <2>6. CASE Fail(i)
    <3>1. Remaining' = Remaining /\ \A j \in Items : Begun(j)' = Begun(j)
      BY <2>6 DEF Fail, Collect, Becomes, Begun
    <3>2. UNCHANGED <<phase, asked, saved>>
      BY <2>6 DEF Fail, Collect, Becomes
    <3> QED BY <3>1, <3>2
  <2>7. CASE MissTheCall(i)
    <3>1. Remaining' = Remaining /\ \A j \in Items : Begun(j)' = Begun(j)
      BY <2>7 DEF MissTheCall, Collect, Becomes, Begun
    <3>2. UNCHANGED <<phase, asked, saved>>
      BY <2>7 DEF MissTheCall, Collect, Becomes
    <3> QED BY <3>1, <3>2
  <2>8. CASE RunOut(i)
    <3>1. Remaining' = Remaining /\ \A j \in Items : Begun(j)' = Begun(j)
      BY <2>8 DEF RunOut, Becomes, Begun
    <3>2. UNCHANGED <<phase, asked, saved>>
      BY <2>8 DEF RunOut, Becomes
    <3> QED BY <3>1, <3>2
  <2>9. CASE StopTheRun(i)
    <3>1. Remaining' = Remaining /\ \A j \in Items : Begun(j)' = Begun(j)
      BY <2>9 DEF StopTheRun, Becomes, Begun
    <3>2. UNCHANGED <<phase, asked, saved>>
      BY <2>9 DEF StopTheRun, Becomes
    <3> QED BY <3>1, <3>2
  <2>10. CASE Return(i)
    <3>1. Remaining' = Remaining /\ \A j \in Items : Begun(j)' = Begun(j)
      BY <2>10 DEF Return, Becomes, Begun
    <3>2. UNCHANGED <<phase, asked, saved>>
      BY <2>10 DEF Return, Becomes
    <3> QED BY <3>1, <3>2
  <2> QED BY <1>2, <2>1, <2>2, <2>3, <2>4, <2>5, <2>6, <2>7, <2>8, <2>9, <2>10 DEF Works
<1>3. CASE Stop
  <2> DEFINE m == Min(Errored)
  <2>1. m \in Errored /\ \A e \in Errored : m <= e
    BY <1>3, ErroredIsFirst DEF Stop
  <2>2. m \in Items /\ done[m] = "no" /\ st[m] = "asking" /\ phase = "driving"
    BY <1>3, <2>1 DEF Stop, MapOver, Errored
  <2>3. m \in Remaining'
    BY <1>3, <2>2 DEF Stop, Collected, OutcomeOf
  <2>4. ASSUME NEW j \in Remaining' PROVE m <= j
    <3>1. j \in Items /\ done[j] = "no" /\ st[j] \in {"asking", "raised", "drained"}
      BY <1>3 DEF Stop, Collected, OutcomeOf, MapOver, Settled
    <3>2. CASE st[j] \in {"asking", "raised"}
      BY <2>1, <3>1, <3>2 DEF Errored
    <3>3. CASE st[j] = "drained"
      <4>1. ~(j < m)
        BY <2>2, <3>1, <3>3 DEF Begun
      <4>2. m \in Nat /\ j \in Nat
        BY <2>2, <3>1, ItemsAssumption
      <4> HIDE DEF m
      <4> QED BY <4>1, <4>2
    <3> QED BY <3>1, <3>2, <3>3
  <2>5. asked' = m /\ phase' = "stopped" /\ saved'.done = done'
    BY <1>3 DEF Stop, FirstErrored
  <2> HIDE DEF m
  <2> QED BY <2>3, <2>4, <2>5
<1>4. CASE EndInFailure
  BY <1>4 DEF EndInFailure
<1>5. CASE Finish
  BY <1>5 DEF Finish
<1>6. CASE Resume
  BY <1>6 DEF Resume, Resumes, Begun
<1>7. CASE FailLater
  BY <1>7 DEF FailLater
<1> QED BY <1>1, <1>2, <1>3, <1>4, <1>5, <1>6, <1>7 DEF Next

-----------------------------------------------------------------------------
(* The one question that may be open is the one that was put last. *)
AnswersInv ==
    /\ answered \subseteq put /\ saved.answered \subseteq put
    /\ asked = Nobody => put = {}
    /\ asked # Nobody => /\ question = <<asked, held[asked]>> /\ question \in put
                         /\ held[asked] # Nobody
    /\ kind = "agent" => put \subseteq answered \cup {question} /\ put \subseteq saved.answered \cup {question}
    /\ kind = "agent" /\ phase = "driving" /\ asked # Nobody /\ Begun(asked) => question \in answered
    /\ kind = "agent" /\ phase = "finished" => put \subseteq answered

(* When the pool is through, the item that was asked had its turn. *)
LEMMA TheAskedBegan ==
    ASSUME StatesInv, CallsInv, OrderInv, AnswersInv, MapOver, asked # Nobody
    PROVE  Begun(asked) /\ (kind = "agent" => question \in answered)
<1>1. asked \in Items /\ phase = "driving" /\ asked \in Remaining /\ st[asked] \in Settled
  BY DEF CallsInv, OrderInv, MapOver
<1>2. CASE st[asked] = "drained"
  <2>1. PICK i \in Items : st[i] \in {"asking", "raised"}
    BY <1>1, <1>2 DEF StatesInv, Stopping
  <2>2. i \in Remaining /\ Begun(i)
    BY <1>1, <2>1 DEF StatesInv, Remaining, Begun
  <2>3. asked < i
    BY <1>1, <1>2, <2>1, <2>2, ItemsAssumption DEF OrderInv
  <2> QED BY <1>1, <2>2, <2>3 DEF OrderInv, AnswersInv
<1>3. CASE st[asked] # "drained"
  BY <1>1, <1>3 DEF Begun, Settled, AnswersInv
<1> QED BY <1>2, <1>3

LEMMA NextAnswers ==
    StatesInv /\ CallsInv /\ OrderInv /\ AnswersInv /\ [Next]_vars => AnswersInv'
<1> SUFFICES ASSUME StatesInv, CallsInv, OrderInv, AnswersInv, [Next]_vars PROVE AnswersInv'
  OBVIOUS
<1> USE DEF AnswersInv
<1>0. asked \in Items \cup {Nobody}
  BY DEF CallsInv
<1>1. CASE UNCHANGED vars
  BY <1>1 DEF vars, Begun
<1>2. ASSUME NEW i \in Items, Works(i) PROVE AnswersInv'
  <2>1. CASE Begin(i)
    <3>1. UNCHANGED <<kind, phase, asked, held, question, put, saved>> /\ phase = "driving"
      BY <2>1 DEF Begin
    <3>2. \A j \in Items : Begun(j)' = (Begun(j) \/ j = i)
      BY <2>1 DEF Begin, Becomes, Begun, StatesInv
    <3>3. answered' = IF kind = "agent" /\ held[i] # Nobody /\ asked = i
                      THEN answered \cup {<<i, held[i]>>} ELSE answered
      BY <2>1 DEF Begin, HandAnswer
    <3>4. answered' \subseteq put'
      <4>1. CASE asked = i /\ held[i] # Nobody
        <5>1. <<i, held[i]>> \in put
          <6>1. asked # Nobody /\ question = <<asked, held[asked]>> /\ question \in put
            BY <3>1, <4>1, ItemsAssumption DEF Nobody
          <6> QED BY <4>1, <6>1
        <5> QED BY <3>1, <3>3, <5>1
      <4>2. CASE ~(asked = i /\ held[i] # Nobody)
        BY <3>1, <3>3, <4>2
      <4> QED BY <4>1, <4>2
    <3>5. kind = "agent" /\ asked # Nobody /\ Begun(asked)' => question \in answered'
      <4> SUFFICES ASSUME kind = "agent", asked # Nobody, Begun(asked)' PROVE question \in answered'
        OBVIOUS
      <4>1. question = <<asked, held[asked]>> /\ held[asked] # Nobody
        BY <3>1
      <4>2. CASE asked = i
        BY <3>3, <4>1, <4>2
      <4>3. CASE asked # i
        <5>1. Begun(asked)
          <6>1. asked \in Items
            BY <1>0
          <6> QED BY <3>1, <3>2, <4>3, <6>1
        <5> QED BY <3>1, <3>3, <5>1
      <4> QED BY <4>2, <4>3
    <3> QED BY <3>1, <3>3, <3>4, <3>5
  <2>2. CASE Drain(i)
    <3>1. \A j \in Items : Begun(j)' = Begun(j)
      BY <2>2 DEF Drain, Becomes, Remaining, Begun, StatesInv
    <3>2. UNCHANGED <<kind, phase, asked, held, question, put, answered, saved>>
      BY <2>2 DEF Drain, Becomes, Remaining
    <3> QED BY <1>0, <3>1, <3>2
  <2>3. CASE Call(i)
    <3>1. \A j \in Items : Begun(j)' = Begun(j)
      BY <2>3 DEF Call, Begun, StatesInv
    <3>2. UNCHANGED <<kind, phase, asked, held, question, put, answered, saved>>
      BY <2>3 DEF Call
    <3> QED BY <1>0, <3>1, <3>2
  <2>4. CASE Deliver(i)
    <3>1. UNCHANGED <<kind, phase, st, asked, held, question, put, saved>> /\ kind # "agent"
      BY <2>4 DEF Deliver
    <3>2. answered' = IF asked = i THEN answered \cup {<<i, held[i]>>} ELSE answered
      BY <2>4 DEF Deliver, HandAnswer
    <3>3. phase = "driving"
      BY <2>4 DEF Deliver, StatesInv
    <3>4. asked = i => <<i, held[i]>> \in put
      <4>1. i # Nobody
        BY ItemsAssumption DEF Nobody
      <4> QED BY <3>3, <4>1
    <3> QED BY <3>1, <3>2, <3>3, <3>4
  <2>5. CASE Ask(i)
    <3>1. \A j \in Items : Begun(j)' = Begun(j)
      BY <2>5 DEF Ask, Becomes, Begun, StatesInv
    <3>2. UNCHANGED <<kind, phase, asked, held, question, put, answered, saved>>
      BY <2>5 DEF Ask, Becomes
    <3> QED BY <1>0, <3>1, <3>2
  <2>6. CASE Fail(i)
    <3>1. \A j \in Items : Begun(j)' = Begun(j)
      BY <2>6 DEF Fail, Collect, Becomes, Begun, StatesInv
    <3>2. UNCHANGED <<kind, phase, asked, held, question, put, answered, saved>>
      BY <2>6 DEF Fail, Collect, Becomes
    <3> QED BY <1>0, <3>1, <3>2
  <2>7. CASE MissTheCall(i)
    <3>1. \A j \in Items : Begun(j)' = Begun(j)
      BY <2>7 DEF MissTheCall, Collect, Becomes, Begun, StatesInv
    <3>2. UNCHANGED <<kind, phase, asked, held, question, put, answered, saved>>
      BY <2>7 DEF MissTheCall, Collect, Becomes
    <3> QED BY <1>0, <3>1, <3>2
  <2>8. CASE RunOut(i)
    <3>1. \A j \in Items : Begun(j)' = Begun(j)
      BY <2>8 DEF RunOut, Becomes, Begun, StatesInv
    <3>2. UNCHANGED <<kind, phase, asked, held, question, put, answered, saved>>
      BY <2>8 DEF RunOut, Becomes
    <3> QED BY <1>0, <3>1, <3>2
  <2>9. CASE StopTheRun(i)
    <3>1. \A j \in Items : Begun(j)' = Begun(j)
      BY <2>9 DEF StopTheRun, Becomes, Begun, StatesInv
    <3>2. UNCHANGED <<kind, phase, asked, held, question, put, answered, saved>>
      BY <2>9 DEF StopTheRun, Becomes
    <3> QED BY <1>0, <3>1, <3>2
  <2>10. CASE Return(i)
    <3>1. \A j \in Items : Begun(j)' = Begun(j)
      BY <2>10 DEF Return, Becomes, Begun, StatesInv
    <3>2. UNCHANGED <<kind, phase, asked, held, question, put, answered, saved>>
      BY <2>10 DEF Return, Becomes
    <3> QED BY <1>0, <3>1, <3>2
  <2> QED BY <1>2, <2>1, <2>2, <2>3, <2>4, <2>5, <2>6, <2>7, <2>8, <2>9, <2>10 DEF Works
<1>3. CASE Stop
  <2>1. question' = <<Min(Errored), pos[Min(Errored)]>> /\ put' = put \cup {question'}
    BY <1>3 DEF Stop
  <2>2. /\ asked' = Min(Errored) /\ phase' = "stopped" /\ answered' = answered /\ kind' = kind
        /\ saved'.answered = answered /\ phase = "driving" /\ st[Min(Errored)] = "asking" /\ MapOver
    BY <1>3 DEF Stop, FirstErrored, MapOver
  <2>3. Min(Errored) \in Items
    BY <1>3, ErroredIsFirst DEF Stop, Errored, Remaining
  <2>4. held'[asked'] = pos[Min(Errored)] /\ pos[Min(Errored)] \in Calls /\ asked' # Nobody
    <3>1. held' = Merged
      BY <1>3 DEF Stop
    <3>2. pos[Min(Errored)] \in Calls
      BY <2>2, <2>3 DEF CallsInv
    <3>3. Min(Errored) # Nobody
      BY <2>3, ItemsAssumption DEF Nobody
    <3> QED BY <2>2, <2>3, <3>1, <3>2, <3>3 DEF Merged
  <2>5. held'[asked'] # Nobody
    BY <2>4 DEF Calls, Nobody
  <2>6. kind = "agent" => put \subseteq answered
    BY <2>2, TheAskedBegan
  <2> QED BY <2>1, <2>2, <2>4, <2>5, <2>6
<1>4. CASE EndInFailure
  BY <1>4 DEF EndInFailure
<1>5. CASE Finish
  <2>1. kind = "agent" => put \subseteq answered
    BY <1>5, TheAskedBegan DEF Finish, MapOver
  <2>2. UNCHANGED <<kind, put, answered, asked, held, question, saved>> /\ phase' \in {"finished", "failed"}
    BY <1>5 DEF Finish
  <2> QED BY <2>1, <2>2
<1>6. CASE Resume
  <2>1. /\ phase' = "driving" /\ UNCHANGED <<kind, asked, held, question, put, saved>>
        /\ answered' = saved.answered
    BY <1>6 DEF Resume, Resumes
  <2>2. asked # Nobody => ~Begun(asked)'
    BY <1>6 DEF Resume, Resumes, Begun, CallsInv
  <2> QED BY <2>1, <2>2
<1>7. CASE FailLater
  BY <1>7 DEF FailLater
<1> QED BY <1>1, <1>2, <1>3, <1>4, <1>5, <1>6, <1>7 DEF Next

-----------------------------------------------------------------------------
(* What an agent's item has behind it is before the call it is at, or waits at. *)
BehindInv ==
    kind = "agent" => \A i \in Items :
        /\ \A c \in taken[i] :
              /\ st[i] = "running" \/ (phase = "driving" /\ st[i] = "asking") => c < pos[i]
              /\ phase = "driving" /\ done[i] = "no" /\ ~Begun(i) => c < held[i]
        /\ saved.done[i] = "no" => \A c \in saved.taken[i] : c < held[i]

LEMMA NextBehind ==
    StatesInv /\ CallsInv /\ BehindInv /\ [Next]_vars => BehindInv'
<1> SUFFICES ASSUME StatesInv, CallsInv, BehindInv, [Next]_vars PROVE BehindInv'
  OBVIOUS
<1> USE DEF BehindInv
<1>1. CASE UNCHANGED vars
  BY <1>1 DEF vars, Begun
<1>2. ASSUME NEW i \in Items, Works(i) PROVE BehindInv'
  <2>1. CASE Begin(i)
    <3>1. UNCHANGED <<kind, phase, done, held, saved>> /\ ~Begun(i) /\ phase = "driving" /\ done[i] = "no"
      BY <2>1 DEF Begin, Remaining, Next1, Begun
    <3>2. /\ \A j \in Items \ {i} : taken'[j] = taken[j] /\ pos'[j] = pos[j] /\ st'[j] = st[j]
          /\ st'[i] = "running"
      BY <2>1 DEF Begin, Becomes, HandAnswer, CallsInv, StatesInv
    <3>3. kind = "agent" => IF held[i] # Nobody THEN taken'[i] = taken[i] \cup {held[i]} /\ pos'[i] = held[i] + 1
                            ELSE taken'[i] = taken[i] /\ pos'[i] = 0
      BY <2>1 DEF Begin, HandAnswer, CallsInv
    <3>4. held[i] \in Calls \cup {-1} /\ \A c \in taken[i] : c \in Nat
      BY DEF CallsInv, Calls, Nobody
    <3>5. kind = "agent" => \A c \in taken'[i] : c < pos'[i]
      BY <3>1, <3>3, <3>4, BoundsAssumption DEF Nobody, Calls
    <3> QED BY <3>1, <3>2, <3>5 DEF Begun
  <2>2. CASE Drain(i)
    BY <2>2 DEF Drain, Becomes, Remaining, Begun, StatesInv
  <2>3. CASE Call(i)
    <3>1. UNCHANGED <<kind, phase, st, done, held, saved>> /\ st[i] = "running"
      BY <2>3 DEF Call
    <3>2. \A j \in Items \ {i} : taken'[j] = taken[j] /\ pos'[j] = pos[j]
      BY <2>3 DEF Call, CallsInv
    <3>3. taken'[i] = taken[i] \cup {pos[i]} /\ pos'[i] = pos[i] + 1 /\ pos[i] \in Nat
      BY <2>3, BoundsAssumption DEF Call, CallsInv, Calls
    <3>4. \A c \in taken[i] : c \in Nat
      BY DEF CallsInv, Calls
    <3>5. kind = "agent" => \A c \in taken'[i] : c < pos'[i]
      <4>1. kind = "agent" => \A c \in taken[i] : c < pos[i]
        BY <3>1
      <4> QED BY <3>3, <3>4, <4>1
    <3> QED BY <3>1, <3>2, <3>5 DEF Begun, StatesInv
  <2>4. CASE Deliver(i)
    BY <2>4 DEF Deliver
  <2>5. CASE Ask(i)
    BY <2>5 DEF Ask, Becomes, Begun, StatesInv
  <2>6. CASE Fail(i)
    BY <2>6 DEF Fail, Collect, Becomes, Begun, StatesInv
  <2>7. CASE MissTheCall(i)
    BY <2>7 DEF MissTheCall, Collect, Becomes, Begun, StatesInv
  <2>8. CASE RunOut(i)
    BY <2>8 DEF RunOut, Becomes, Begun, StatesInv
  <2>9. CASE StopTheRun(i)
    BY <2>9 DEF StopTheRun, Becomes, Begun, StatesInv
  <2>10. CASE Return(i)
    BY <2>10 DEF Return, Becomes, Begun, StatesInv
  <2> QED BY <1>2, <2>1, <2>2, <2>3, <2>4, <2>5, <2>6, <2>7, <2>8, <2>9, <2>10 DEF Works
<1>3. CASE Stop
  <2> SUFFICES ASSUME kind = "agent", NEW i \in Items, done'[i] = "no", NEW c \in taken'[i]
               PROVE  c < held'[i]
    <3>1. phase' = "stopped" /\ kind' = kind /\ st' = st /\ saved'.done = done' /\ saved'.taken = taken'
      BY <1>3 DEF Stop
    <3>2. \A i \in Items : st[i] # "running"
      BY <1>3 DEF Stop, MapOver, StatesInv, Remaining, Settled
    <3> QED BY <3>1, <3>2
  <2>1. phase = "driving" /\ done[i] = "no" /\ st[i] \in {"asking", "raised", "drained"}
    BY <1>3 DEF Stop, Collected, OutcomeOf, MapOver, Remaining, Settled
  <2>2. taken'[i] = IF st[i] = "raised" THEN {} ELSE taken[i]
    BY <1>3 DEF Stop
  <2>3. held'[i] = IF st[i] = "asking" THEN pos[i] ELSE held[i]
    BY <1>3 DEF Stop, Merged
  <2> QED BY <2>1, <2>2, <2>3 DEF Begun
<1>4. CASE EndInFailure
  BY <1>4 DEF EndInFailure, MapOver, StatesInv
<1>5. CASE Finish
  BY <1>5 DEF Finish, MapOver, StatesInv
<1>6. CASE Resume
  BY <1>6 DEF Resume, Resumes, Begun
<1>7. CASE FailLater
  BY <1>7 DEF FailLater, Begun
<1> QED BY <1>1, <1>2, <1>3, <1>4, <1>5, <1>6, <1>7 DEF Next

-----------------------------------------------------------------------------
IInv == StatesInv /\ CallsInv /\ ReturnsInv /\ FailuresInv /\ OrderInv /\ AnswersInv /\ BehindInv

LEMMA Inductive == Spec => []IInv
<1>1. Init => IInv
  <2> SUFFICES ASSUME Init PROVE IInv
    OBVIOUS
  <2>1. OrderInv
    BY DEF Init, OrderInv, Begun, Remaining
  <2>2. AnswersInv
    BY DEF Init, AnswersInv
  <2>3. BehindInv
    BY DEF Init, BehindInv
  <2> QED BY <2>1, <2>2, <2>3, InitStates, InitFailures DEF IInv
<1>2. IInv /\ [Next]_vars => IInv'
  BY NextStates, NextCalls, NextReturns, NextFailures, NextOrder, NextAnswers, NextBehind DEF IInv
<1> QED BY <1>1, <1>2, PTL DEF Spec

(* No failure is counted twice and no number runs out of its range, over any *)
(* number of stops.                                                          *)
THEOREM TypesHold == Spec => []TypeOK
<1>1. IInv => TypeOK
  BY BoundsAssumption DEF IInv, TypeOK, StatesInv, CallsInv, ReturnsInv, FailuresInv
<1> QED BY <1>1, Inductive, PTL

(* An item that returned is done: no resume starts it again. *)
THEOREM OneReturn == Spec => []EachItemCompletesOnce
<1>1. IInv => EachItemCompletesOnce
  BY DEF IInv, ReturnsInv, EachItemCompletesOnce
<1> QED BY <1>1, Inductive, PTL

(* No call of an agent's item is made again, but for one whose own failure   *)
(* was dropped with a stop.                                                  *)
THEOREM NothingTwice == Spec => NoCallIsMadeAgain
<1>1. ASSUME IInv, NEW i \in Items, kind = "agent", Call(i) \/ Ask(i) PROVE pos[i] \notin taken[i]
  <2>1. st[i] = "running" /\ pos[i] \in Nat
    BY <1>1, BoundsAssumption DEF IInv, CallsInv, Call, Ask, Calls
  <2> QED BY <1>1, <2>1 DEF IInv, BehindInv
<1>2. IInv => [\A i \in Items : kind = "agent" /\ (Call(i) \/ Ask(i)) => pos[i] \notin taken[i]]_vars
  BY <1>1
<1> QED BY <1>2, Inductive, PTL DEF NoCallIsMadeAgain

(* Only a call whose question was put is handed an answer, and an agent's    *)
(* before the run stops again or the node finishes.                          *)
THEOREM AnswersArrive == Spec => []AnswersReachTheirCall
<1>1. IInv => AnswersReachTheirCall
  BY DEF IInv, AnswersInv, AnswersReachTheirCall
<1> QED BY <1>1, Inductive, PTL

(* A node that finishes has an outcome of every item and no more failures    *)
(* than it tolerates, over any number of stops.                              *)
THEOREM ToleranceBinds == Spec => []ToleranceHolds
<1>1. IInv => ToleranceHolds
  <2> SUFFICES ASSUME IInv, phase = "finished" PROVE ToleranceHolds
    BY DEF ToleranceHolds
  <2>1. Failed = {i \in Items : done[i] = "failed"}
    BY DEF IInv, StatesInv, Failed
  <2> QED BY <2>1 DEF IInv, StatesInv, FailuresInv, ToleranceHolds
<1> QED BY <1>1, Inductive, PTL
=============================================================================
