----------------------------- MODULE CallsProofs -----------------------------
(***************************************************************************)
(* The budget of a run and the ceiling of its pool bind for any items,      *)
(* nodes and totals: the steps in flight are as many as the threads that    *)
(* have taken one, so a step is taken only where one remains; and a thread  *)
(* that runs a tool or waits for a backend has a slot, unless there is one  *)
(* thread. The account of a node holds the calls of its items, so its total *)
(* binds them whichever item made them.                                     *)
(***************************************************************************)
EXTENDS Calls, TLAPS, FiniteSetTheorems

Stepped == {u \in Units : call[u] # "none"}

PlacesInv ==
    /\ at \in [Units -> Places]
    /\ call \in [Units -> Phases]
    /\ \A u \in Units : call[u] # "none" => at[u] \in {"loop", "tool", "delegate"}
    /\ \A u \in Units : call[u] \in {"fetch", "fetched"} => at[u] = "tool"

BudgetInv ==
    /\ spent \in Nat
    /\ inFlight = Cardinality(Stepped)
    /\ spent + Cardinality(Unpaid) <= MaxSteps

Alone == \A u, v \in Units : at[u] \notin Over \cup {"new"} /\ at[v] \notin Over \cup {"new"} => u = v
SlotInv ==
    /\ holding \subseteq Units
    /\ free \in Nat /\ free + Cardinality(holding) = Ceiling
    /\ \A u \in holding : at[u] = "tool" \/ call[u] = "out"
    /\ IF Ceiling > 1 THEN Busy \subseteq holding ELSE Alone

LEMMA FiniteUnits ==
    ASSUME NEW S \in SUBSET Units PROVE IsFiniteSet(S) /\ Cardinality(S) \in Nat
BY UnitsAssumption, FS_Subset, FS_CardinalityType

LEMMA InitPlaces == Init => PlacesInv
BY DEF Init, PlacesInv, Places, Phases

LEMMA NextPlaces == PlacesInv /\ [Next]_vars => PlacesInv'
<1> SUFFICES ASSUME PlacesInv, [Next]_vars PROVE PlacesInv'
  OBVIOUS
<1> USE DEF PlacesInv, Places, Phases, Over, Ends
<1>1. CASE UNCHANGED <<at, call>>
  BY <1>1
<1>2. ASSUME NEW u \in Units, Steps(u) PROVE PlacesInv'
  <2>1. CASE Begin(u)
    BY <2>1 DEF Begin
  <2>2. CASE TakeStep(u)
    BY <2>2 DEF TakeStep, Calls
  <2>3. CASE RefuseRun(u)
    BY <2>3 DEF RefuseRun, Calls
  <2>4. CASE RefuseNode(u)
    BY <2>4 DEF RefuseNode, Calls
  <2>5. CASE AskBackend(u)
    BY <2>5 DEF AskBackend
  <2>6. CASE Return(u)
    BY <2>6 DEF Return
  <2>7. CASE Raise(u)
    BY <2>7 DEF Raise
  <2>8. CASE Charge(u)
    BY <2>8 DEF Charge
  <2>9. CASE Release(u)
    BY <2>9 DEF Release
  <2>10. CASE GoRound(u) \/ AskTool(u) \/ Delegate(u)
    BY <2>10 DEF GoRound, AskTool, Delegate
  <2>11. CASE Finish(u)
    BY <2>11 DEF Finish
  <2>12. CASE RunTool(u)
    BY <2>12 DEF RunTool
  <2>13. CASE Throttle(u) \/ EndTool(u) \/ EndDelegate(u)
    BY <2>13 DEF Throttle, EndTool, EndDelegate
  <2>14. CASE Retrieve(u)
    BY <2>14 DEF Retrieve
  <2>15. CASE ChargeRetrieval(u)
    BY <2>15 DEF ChargeRetrieval
  <2> QED BY <1>2, <2>1, <2>2, <2>3, <2>4, <2>5, <2>6, <2>7, <2>8, <2>9, <2>10, <2>11,
             <2>12, <2>13, <2>14, <2>15 DEF Steps
<1>3. ASSUME NEW n \in Totals, Open(n) \/ Close(n) PROVE UNCHANGED <<at, call>>
  BY <1>3 DEF Open, Close
<1> QED BY <1>1, <1>2, <1>3 DEF Next, vars

LEMMA PlacesAlways == Spec => []PlacesInv
BY InitPlaces, NextPlaces, PTL DEF Spec

-----------------------------------------------------------------------------
(* What a change of one call does to the two counts. *)
LEMMA CountStepped ==
    ASSUME PlacesInv, NEW u \in Units, NEW phase \in Phases,
           call' = [call EXCEPT ![u] = phase]
    PROVE  /\ Stepped' = IF phase = "none" THEN Stepped \ {u} ELSE Stepped \cup {u}
           /\ Unpaid' = IF phase \in {"taken", "out", "back", "fetch"}
                        THEN Unpaid \cup {u} ELSE Unpaid \ {u}
BY DEF PlacesInv, Stepped, Unpaid

LEMMA CountChanged ==
    ASSUME NEW S \in SUBSET Units, NEW u \in Units
    PROVE  /\ Cardinality(S \cup {u}) = IF u \in S THEN Cardinality(S) ELSE Cardinality(S) + 1
           /\ Cardinality(S \ {u}) = IF u \in S THEN Cardinality(S) - 1 ELSE Cardinality(S)
BY FiniteUnits, FS_AddElement, FS_RemoveElement

LEMMA UnpaidAreStepped ==
    PlacesInv => /\ Cardinality(Unpaid) <= Cardinality(Stepped)
                 /\ Cardinality(Unpaid) \in Nat /\ Cardinality(Stepped) \in Nat
<1> SUFFICES ASSUME PlacesInv
             PROVE  /\ Cardinality(Unpaid) <= Cardinality(Stepped)
                    /\ Cardinality(Unpaid) \in Nat /\ Cardinality(Stepped) \in Nat
  OBVIOUS
<1>1. Unpaid \subseteq Stepped /\ Stepped \subseteq Units
  BY DEF Unpaid, Stepped
<1>2. IsFiniteSet(Stepped)
  BY <1>1, FiniteUnits
<1>3. Cardinality(Unpaid) <= Cardinality(Stepped)
  BY <1>1, <1>2, FS_Subset
<1> QED BY <1>1, <1>3, FiniteUnits

LEMMA InitBudget == Init => BudgetInv
<1> SUFFICES ASSUME Init PROVE BudgetInv
  OBVIOUS
<1>1. Stepped = {} /\ Unpaid = {}
  BY DEF Init, Stepped, Unpaid
<1> QED BY <1>1, FS_EmptySet, MaxStepsAssumption DEF Init, BudgetInv

LEMMA NextBudget == PlacesInv /\ BudgetInv /\ [Next]_vars => BudgetInv'
<1> SUFFICES ASSUME PlacesInv, BudgetInv, [Next]_vars PROVE BudgetInv'
  OBVIOUS
<1>0. Unpaid \subseteq Units /\ Stepped \subseteq Units
  BY DEF Unpaid, Stepped
<1>a. MaxSteps \in Nat /\ spent \in Nat /\ inFlight = Cardinality(Stepped)
      /\ spent + Cardinality(Unpaid) <= MaxSteps
  BY MaxStepsAssumption DEF BudgetInv
<1>b. /\ Cardinality(Unpaid) <= Cardinality(Stepped)
      /\ Cardinality(Unpaid) \in Nat /\ Cardinality(Stepped) \in Nat
  BY UnpaidAreStepped
<1>1. CASE UNCHANGED <<call, spent, inFlight>>
  BY <1>1 DEF BudgetInv, Stepped, Unpaid
<1>2. ASSUME NEW u \in Units, Steps(u) PROVE BudgetInv'
  <2>0. /\ Cardinality(Unpaid \cup {u}) = IF u \in Unpaid THEN Cardinality(Unpaid) ELSE Cardinality(Unpaid) + 1
        /\ Cardinality(Unpaid \ {u}) = IF u \in Unpaid THEN Cardinality(Unpaid) - 1 ELSE Cardinality(Unpaid)
        /\ Cardinality(Stepped \cup {u}) = IF u \in Stepped THEN Cardinality(Stepped) ELSE Cardinality(Stepped) + 1
        /\ Cardinality(Stepped \ {u}) = IF u \in Stepped THEN Cardinality(Stepped) - 1 ELSE Cardinality(Stepped)
    BY <1>0, CountChanged
  <2>c. /\ u \in Unpaid <=> call[u] \in {"taken", "out", "back", "fetch"}
        /\ u \in Stepped <=> call[u] # "none"
    BY DEF Unpaid, Stepped
  <2>1. CASE TakeStep(u) \/ Retrieve(u)
    <3>1. call[u] = "none" /\ inFlight' = inFlight + 1 /\ spent' = spent /\ ~RunExceeded
      BY <2>1 DEF TakeStep, Retrieve, Calls
    <3>2. PICK phase \in {"taken", "back", "fetch"} : call' = [call EXCEPT ![u] = phase]
      BY <2>1 DEF TakeStep, Retrieve
    <3>3. Stepped' = Stepped \cup {u} /\ Unpaid' = Unpaid \cup {u}
      BY <3>2, CountStepped DEF Phases
    <3>4. spent + inFlight < MaxSteps
      BY <3>1, <1>a, <1>b DEF RunExceeded
    <3> QED BY <3>1, <3>3, <3>4, <2>0, <2>c, <1>a, <1>b DEF BudgetInv
  <2>2. CASE AskBackend(u) \/ Return(u)
    <3>1. call[u] \in {"taken", "out"} /\ inFlight' = inFlight /\ spent' = spent
      BY <2>2 DEF AskBackend, Return
    <3>2. PICK phase \in {"out", "back"} : call' = [call EXCEPT ![u] = phase]
      BY <2>2 DEF AskBackend, Return
    <3>3. Stepped' = Stepped \cup {u} /\ Unpaid' = Unpaid \cup {u}
      BY <3>2, CountStepped DEF Phases
    <3> QED BY <3>1, <3>3, <2>0, <2>c, <1>a, <1>b DEF BudgetInv
  <2>3. CASE Charge(u) \/ ChargeRetrieval(u)
    <3>1. call[u] \in {"back", "fetch"} /\ inFlight' = inFlight /\ spent' = spent + 1
      BY <2>3 DEF Charge, ChargeRetrieval
    <3>2. PICK phase \in {"charged", "fetched"} : call' = [call EXCEPT ![u] = phase]
      BY <2>3 DEF Charge, ChargeRetrieval
    <3>3. Stepped' = Stepped \cup {u} /\ Unpaid' = Unpaid \ {u}
      BY <3>2, CountStepped DEF Phases
    <3> QED BY <3>1, <3>3, <2>0, <2>c, <1>a, <1>b DEF BudgetInv
  <2>6. CASE Raise(u) /\ call[u] = "none"
    <3>1. inFlight' = inFlight /\ spent' = spent
      BY <2>6 DEF Raise, GiveBackStep
    <3>2. call' = [call EXCEPT ![u] = "none"]
      BY <2>6 DEF Raise
    <3>3. Stepped' = Stepped \ {u} /\ Unpaid' = Unpaid \ {u}
      BY <3>2, CountStepped DEF Phases
    <3> QED BY <2>6, <3>1, <3>3, <2>0, <2>c, <1>a, <1>b DEF BudgetInv
  <2>4. CASE (Raise(u) /\ call[u] # "none") \/ Release(u)
    <3>1. call[u] \in {"out", "fetch", "charged", "fetched"} /\ inFlight' = inFlight - 1 /\ spent' = spent
      BY <2>4 DEF Raise, Release, GiveBackStep
    <3>2. call' = [call EXCEPT ![u] = "none"]
      BY <2>4 DEF Raise, Release
    <3>3. Stepped' = Stepped \ {u} /\ Unpaid' = Unpaid \ {u}
      BY <3>2, CountStepped DEF Phases
    <3> QED BY <3>1, <3>3, <2>0, <2>c, <1>a, <1>b DEF BudgetInv
  <2>5. CASE \/ Begin(u) \/ RefuseRun(u) \/ RefuseNode(u) \/ GoRound(u) \/ Finish(u) \/ AskTool(u)
             \/ RunTool(u) \/ Throttle(u) \/ EndTool(u) \/ Delegate(u) \/ EndDelegate(u)
    <3>1. UNCHANGED <<call, spent, inFlight>>
      BY <2>5 DEF Begin, RefuseRun, RefuseNode, GoRound, Finish, AskTool, RunTool, Throttle,
                  EndTool, Delegate, EndDelegate
    <3> QED BY <3>1, <1>1
  <2> QED BY <1>2, <2>1, <2>2, <2>3, <2>4, <2>5, <2>6 DEF Steps
<1>3. ASSUME NEW n \in Totals, Open(n) \/ Close(n) PROVE UNCHANGED <<call, spent, inFlight>>
  BY <1>3 DEF Open, Close
<1> QED BY <1>1, <1>2, <1>3 DEF Next, vars

LEMMA BudgetAlways == Spec => []BudgetInv
BY PlacesAlways, InitBudget, NextBudget, PTL DEF Spec

(* The run's max_steps is never passed, whatever overlaps: any items, nodes, *)
(* totals and ceiling.                                                       *)
THEOREM StepsBound == Spec => []StepsNeverOvershoot
<1>1. BudgetInv => StepsNeverOvershoot
  BY DEF BudgetInv, StepsNeverOvershoot
<1> QED BY <1>1, BudgetAlways, PTL

-----------------------------------------------------------------------------
(* The slots. *)
LEMMA InitSlots == Init => SlotInv
<1> SUFFICES ASSUME Init PROVE SlotInv
  OBVIOUS
<1>1. holding = {} /\ free = Ceiling /\ Busy = {} /\ Alone
  BY DEF Init, Busy, Alone
<1> QED BY <1>1, FS_EmptySet, CeilingAssumption DEF SlotInv

LEMMA TakeASlot ==
    ASSUME SlotInv, NEW u \in Units, u \notin holding, free > 0,
           free' = free - 1, holding' = holding \cup {u}
    PROVE  holding' \subseteq Units /\ free' \in Nat /\ free' + Cardinality(holding') = Ceiling
<1>1. Cardinality(holding') = Cardinality(holding) + 1 /\ Cardinality(holding) \in Nat
  BY CountChanged, FiniteUnits DEF SlotInv
<1> QED BY <1>1, CeilingAssumption DEF SlotInv

LEMMA GiveASlotBack ==
    ASSUME SlotInv, NEW u \in Units, GiveBackSlot(u)
    PROVE  /\ holding' \subseteq Units /\ free' \in Nat /\ free' + Cardinality(holding') = Ceiling
           /\ holding' = holding \ {u}
<1>1. holding \subseteq Units /\ free \in Nat /\ free + Cardinality(holding) = Ceiling
  BY DEF SlotInv
<1>2. Cardinality(holding \ {u}) = IF u \in holding THEN Cardinality(holding) - 1 ELSE Cardinality(holding)
  BY <1>1, CountChanged
<1>3. Cardinality(holding) \in Nat
  BY <1>1, FiniteUnits
<1>4. CASE u \in holding
  <2>1. free' = free + 1 /\ holding' = holding \ {u}
    BY <1>4 DEF GiveBackSlot
  <2> QED BY <2>1, <1>1, <1>2, <1>3, <1>4, CeilingAssumption
<1>5. CASE u \notin holding
  <2>1. free' = free /\ holding' = holding
    BY <1>5 DEF GiveBackSlot
  <2> QED BY <2>1, <1>1, <1>5
<1> QED BY <1>4, <1>5

LEMMA NextSlots == PlacesInv /\ SlotInv /\ [Next]_vars => SlotInv'
<1> SUFFICES ASSUME PlacesInv, SlotInv, [Next]_vars PROVE SlotInv'
  OBVIOUS
<1> USE DEF Ends
<1>0. /\ at \in [Units -> Places] /\ call \in [Units -> Phases]
      /\ \A u \in Units : call[u] # "none" => at[u] \in {"loop", "tool", "delegate"}
      /\ \A u \in Units : call[u] \in {"fetch", "fetched"} => at[u] = "tool"
  BY DEF PlacesInv
<1>1. CASE UNCHANGED <<at, call, free, holding>>
  BY <1>1 DEF SlotInv, Busy, Alone
<1>2. ASSUME NEW u \in Units, Steps(u) PROVE SlotInv'
  <2>1. CASE Begin(u)
    <3>1. at[u] = "new" /\ at' = [at EXCEPT ![u] = IF NodeOf[u] \in stopping THEN "drained" ELSE "loop"]
          /\ UNCHANGED <<call, free, holding>>
      BY <2>1 DEF Begin
    <3>2. CASE Ceiling > 1
      BY <3>1, <3>2, <1>0 DEF SlotInv, Busy
    <3>3. CASE ~(Ceiling > 1)
      <4>1. Ceiling = 1
        BY <3>3, CeilingAssumption
      <4>2. \A m \in Nodes : Running(m) = {}
        BY <2>1, <4>1 DEF Begin
      <4>3. \A v \in Units : at[v] \in Over \cup {"new"}
        BY <4>2 DEF Running, Of, Nodes
      <4>4. Alone'
        BY <3>1, <4>3, <1>0 DEF Alone, Over
      <4> QED BY <3>1, <3>3, <4>4, <1>0 DEF SlotInv
    <3> QED BY <3>2, <3>3
  <2>2. CASE TakeStep(u) \/ Retrieve(u) \/ Charge(u) \/ ChargeRetrieval(u)
    <3>1. call[u] # "out" /\ UNCHANGED <<at, free, holding>>
      BY <2>2 DEF TakeStep, Retrieve, Charge, ChargeRetrieval, Calls
    <3>2. PICK phase \in Phases \ {"out"} : call' = [call EXCEPT ![u] = phase]
      BY <2>2 DEF TakeStep, Retrieve, Charge, ChargeRetrieval, Phases
    <3> QED BY <3>1, <3>2, <1>0 DEF SlotInv, Busy, Alone, Phases
  <2>3. CASE AskBackend(u)
    <3>1. call[u] = "taken" /\ call' = [call EXCEPT ![u] = "out"] /\ at' = at
      BY <2>3 DEF AskBackend
    <3>2. CASE TakesASlot(u)
      <4>1. u \notin holding /\ free > 0 /\ free' = free - 1 /\ holding' = holding \cup {u} /\ Ceiling > 1
        BY <2>3, <3>2 DEF AskBackend, TakesASlot
      <4>2. holding' \subseteq Units /\ free' \in Nat /\ free' + Cardinality(holding') = Ceiling
        BY <4>1, TakeASlot
      <4> QED BY <3>1, <4>1, <4>2, <1>0 DEF SlotInv, Busy
    <3>3. CASE ~TakesASlot(u)
      <4>1. UNCHANGED <<free, holding>>
        BY <2>3, <3>3 DEF AskBackend
      <4> QED BY <3>1, <3>3, <4>1, <1>0 DEF SlotInv, Busy, Alone, TakesASlot
    <3> QED BY <3>2, <3>3
  <2>4. CASE RunTool(u)
    <3>1. at[u] = "queued" /\ at' = [at EXCEPT ![u] = "tool"] /\ call' = call
      BY <2>4 DEF RunTool
    <3>2. CASE TakesASlot(u)
      <4>1. u \notin holding /\ free > 0 /\ free' = free - 1 /\ holding' = holding \cup {u} /\ Ceiling > 1
        BY <2>4, <3>2 DEF RunTool, TakesASlot
      <4>2. holding' \subseteq Units /\ free' \in Nat /\ free' + Cardinality(holding') = Ceiling
        BY <4>1, TakeASlot
      <4> QED BY <3>1, <4>1, <4>2, <1>0 DEF SlotInv, Busy
    <3>3. CASE ~TakesASlot(u)
      <4>1. UNCHANGED <<free, holding>>
        BY <2>4, <3>3 DEF RunTool
      <4> QED BY <3>1, <3>3, <4>1, <1>0 DEF SlotInv, Busy, Alone, TakesASlot, Over
    <3> QED BY <3>2, <3>3
  <2>5. CASE Return(u)
    <3>1. call[u] = "out" /\ call' = [call EXCEPT ![u] = "back"] /\ at' = at
      BY <2>5 DEF Return
    <3>2. CASE at[u] = "tool"
      <4>1. UNCHANGED <<free, holding>>
        BY <2>5, <3>2 DEF Return
      <4> QED BY <3>1, <3>2, <4>1, <1>0 DEF SlotInv, Busy, Alone
    <3>3. CASE at[u] # "tool"
      <4>1. GiveBackSlot(u)
        BY <2>5, <3>3 DEF Return
      <4>2. /\ holding' \subseteq Units /\ free' \in Nat /\ free' + Cardinality(holding') = Ceiling
            /\ holding' = holding \ {u}
        BY <4>1, GiveASlotBack
      <4> QED BY <3>1, <3>3, <4>2, <1>0 DEF SlotInv, Busy, Alone
    <3> QED BY <3>2, <3>3
  <2>6. CASE RefuseRun(u) \/ Raise(u) \/ Throttle(u) \/ EndTool(u)
    <3>1. GiveBackSlot(u)
      BY <2>6 DEF RefuseRun, Raise, Throttle, EndTool
    <3>2. /\ holding' \subseteq Units /\ free' \in Nat /\ free' + Cardinality(holding') = Ceiling
          /\ holding' = holding \ {u}
      BY <3>1, GiveASlotBack
    <3>3. PICK how \in {"stopped", "failed", "queued", "loop"} : at' = [at EXCEPT ![u] = how]
      BY <2>6 DEF RefuseRun, Raise, Throttle, EndTool
    <3>4. call' = [call EXCEPT ![u] = "none"] /\ at[u] \notin Over \cup {"new"}
      <4>1. CASE RefuseRun(u)
        BY <4>1, <1>0 DEF RefuseRun, Calls, Over
      <4>2. CASE Raise(u)
        BY <4>2 DEF Raise
      <4>3. CASE Throttle(u) \/ EndTool(u)
        BY <4>3, <1>0 DEF Throttle, EndTool, Over
      <4> QED BY <2>6, <4>1, <4>2, <4>3
    <3>5. Ceiling > 1 => Busy' \subseteq holding'
      BY <3>2, <3>3, <3>4, <1>0 DEF SlotInv, Busy
    <3>6. Alone => Alone'
      BY <3>3, <3>4, <1>0 DEF Alone, Over
    <3> QED BY <3>2, <3>3, <3>4, <3>5, <3>6, <1>0 DEF SlotInv
  <2>7. CASE Release(u)
    <3>1. /\ call[u] \in {"charged", "fetched"} /\ call' = [call EXCEPT ![u] = "none"]
          /\ UNCHANGED <<free, holding>>
          /\ at' = [at EXCEPT ![u] = IF at[u] = "loop" THEN "turn" ELSE at[u]]
      BY <2>7 DEF Release
    <3> QED BY <3>1, <1>0 DEF SlotInv, Busy, Alone, Over
  <2>8. CASE \/ RefuseNode(u) \/ GoRound(u) \/ Finish(u) \/ AskTool(u)
             \/ Delegate(u) \/ EndDelegate(u)
    <3>1. UNCHANGED <<call, free, holding>> /\ call[u] = "none"
          /\ at[u] \in {"loop", "tool", "delegate", "turn"}
      BY <2>8, <1>0 DEF RefuseNode, GoRound, Finish, AskTool, Delegate, EndDelegate, Calls, Allowance
    <3>2. at[u] # "tool"
      BY <2>8 DEF RefuseNode, NodeExceeded, HeldAt, GoRound, Finish, AskTool, Delegate,
                  EndDelegate, Allowance
    <3>3. PICK how \in {"refused", "loop", "finished", "queued", "delegate"} :
              at' = [at EXCEPT ![u] = how]
      BY <2>8 DEF RefuseNode, GoRound, Finish, AskTool, Delegate, EndDelegate
    <3> QED BY <3>1, <3>2, <3>3, <1>0 DEF SlotInv, Busy, Alone, Over
  <2> QED BY <1>2, <2>1, <2>2, <2>3, <2>4, <2>5, <2>6, <2>7, <2>8 DEF Steps
<1>3. ASSUME NEW n \in Totals, Open(n) \/ Close(n) PROVE UNCHANGED <<at, call, free, holding>>
  BY <1>3 DEF Open, Close
<1> QED BY <1>1, <1>2, <1>3 DEF Next, vars

LEMMA SlotsAlways == Spec => []SlotInv
BY PlacesAlways, InitSlots, NextSlots, PTL DEF Spec

LEMMA CeilingHolds == PlacesInv /\ SlotInv => AtMostCeilingInFlight
<1> SUFFICES ASSUME PlacesInv, SlotInv PROVE Cardinality(Busy) <= Ceiling
  BY DEF AtMostCeilingInFlight
<1>0. Busy \subseteq Units
  BY DEF Busy
<1>1. CASE Ceiling > 1
  <2>1. Busy \subseteq holding /\ IsFiniteSet(holding) /\ Cardinality(holding) \in Nat
    BY <1>1, FiniteUnits DEF SlotInv
  <2>2. Cardinality(Busy) <= Cardinality(holding)
    BY <2>1, FS_Subset
  <2> QED BY <2>1, <2>2, <1>0, FiniteUnits, CeilingAssumption DEF SlotInv
<1>2. CASE ~(Ceiling > 1)
  <2>1. \A u, v \in Busy : u = v
    BY <1>2 DEF SlotInv, Alone, Busy, PlacesInv, Over
  <2>2. CASE Busy = {}
    BY <2>2, FS_EmptySet, CeilingAssumption
  <2>3. CASE Busy # {}
    <3>1. PICK u \in Busy : Busy = {u}
      BY <2>1, <2>3
    <3> QED BY <3>1, FS_Singleton, CeilingAssumption
  <2> QED BY <2>2, <2>3
<1> QED BY <1>1, <1>2

(* concurrency=N is never passed by requests and running tools, for any      *)
(* ceiling, 1 included, where there are no slots and one thread.             *)
THEOREM CeilingBound == Spec => []AtMostCeilingInFlight
BY PlacesAlways, SlotsAlways, CeilingHolds, PTL

-----------------------------------------------------------------------------
(* The accounts of the nodes, and what an item keeps for itself. *)
Held(n) == {u \in Of(n) : at[u] = "loop" /\ call[u] # "none"}
AccountInv ==
    /\ scope \in [Totals -> [open : BOOLEAN, spent : Nat, inFlight : Int]]
    /\ \A n \in Totals : scope[n].inFlight = Cardinality(Held(n))
    /\ \A u \in Units : NodeOf[u] \in Totals /\ at[u] \notin Over \cup {"new"} => scope[NodeOf[u]].open

OwnInv ==
    /\ own \in [Units -> Nat] /\ inner \in [Units -> Nat] /\ opened \in [Units -> Nat]
    /\ made \in [Units -> Nat]
    /\ \A u \in Units : opened[u] <= spent
    /\ tries \in [Units -> 0 .. Attempts]
    /\ \A u \in Units : at[u] = "queued" => tries[u] < Attempts
    /\ \A u \in Units : at[u] \in {"new", "loop", "turn"} => tries[u] = 0
    /\ \A u \in Units : at[u] = "delegate" => tries[u] = 0
    /\ stopping \subseteq Nodes

LEMMA InitOwn == Init => OwnInv
BY LimitsAssumption DEF Init, OwnInv

LEMMA NextOwn == PlacesInv /\ BudgetInv /\ OwnInv /\ [Next]_vars => OwnInv'
<1> SUFFICES ASSUME PlacesInv, BudgetInv, OwnInv, [Next]_vars PROVE OwnInv'
  OBVIOUS
<1> USE DEF Ends
<1>0. /\ at \in [Units -> Places] /\ spent \in Nat /\ Attempts \in Nat \ {0}
      /\ \A u \in Units : call[u] # "none" => at[u] \in {"loop", "tool", "delegate"}
  BY LimitsAssumption DEF PlacesInv, BudgetInv
<1>1. CASE UNCHANGED <<at, spent, own, inner, opened, tries, stopping, made>>
  BY <1>1 DEF OwnInv
<1>2. ASSUME NEW u \in Units, Steps(u) PROVE OwnInv'
  <2>0. NodeOf[u] \in Nodes
    BY DEF Nodes
  <2>1. CASE Begin(u)
    BY <2>1, <1>0 DEF Begin, OwnInv
  <2>2. CASE TakeStep(u) \/ AskBackend(u) \/ Return(u) \/ Retrieve(u)
    BY <2>2, <1>1 DEF TakeStep, AskBackend, Return, Retrieve
  <2>3. CASE RefuseRun(u) \/ Raise(u)
    <3>1. /\ UNCHANGED <<spent, own, inner, opened, tries, made>>
          /\ stopping' \subseteq stopping \cup {NodeOf[u]}
      BY <2>3 DEF RefuseRun, Raise
    <3>2. PICK how \in {"stopped", "failed"} : at' = [at EXCEPT ![u] = how]
      BY <2>3 DEF RefuseRun, Raise
    <3> QED BY <3>1, <3>2, <2>0, <1>0 DEF OwnInv
  <2>4. CASE RefuseNode(u) \/ Finish(u)
    <3>1. UNCHANGED <<spent, own, inner, opened, tries, made, stopping>>
      BY <2>4 DEF RefuseNode, Finish
    <3>2. PICK how \in {"refused", "finished"} : at' = [at EXCEPT ![u] = how]
      BY <2>4 DEF RefuseNode, Finish
    <3> QED BY <3>1, <3>2, <1>0 DEF OwnInv
  <2>5. CASE Charge(u) \/ ChargeRetrieval(u)
    <3>1. /\ UNCHANGED <<at, own, opened, tries, stopping>> /\ spent' = spent + 1
          /\ inner' = inner \/ inner' = [inner EXCEPT ![u] = @ + 1]
          /\ made' = made \/ made' = [made EXCEPT ![u] = @ + 1]
      BY <2>5 DEF Charge, ChargeRetrieval
    <3> QED BY <3>1, <1>0 DEF OwnInv
  <2>6. CASE Release(u)
    <3>1. /\ UNCHANGED <<spent, inner, opened, tries, stopping, made>>
          /\ own' = own \/ own' = [own EXCEPT ![u] = @ + 1]
          /\ \/ at' = at
             \/ at[u] = "loop" /\ at' = [at EXCEPT ![u] = "turn"]
      BY <2>6, <1>0 DEF Release
    <3> QED BY <3>1, <1>0 DEF OwnInv
  <2>7. CASE GoRound(u) \/ AskTool(u)
    BY <2>7, <1>0 DEF GoRound, AskTool, OwnInv
  <2>8. CASE RunTool(u)
    BY <2>8, <1>0 DEF RunTool, OwnInv
  <2>9. CASE Throttle(u)
    BY <2>9, <1>0 DEF Throttle, OwnInv
  <2>10. CASE EndTool(u)
    BY <2>10, <1>0 DEF EndTool, OwnInv
  <2>11. CASE Delegate(u)
    BY <2>11, <1>0 DEF Delegate, OwnInv
  <2>12. CASE EndDelegate(u)
    BY <2>12, <1>0 DEF EndDelegate, OwnInv
  <2> QED BY <1>2, <2>1, <2>2, <2>3, <2>4, <2>5, <2>6, <2>7, <2>8, <2>9, <2>10, <2>11, <2>12 DEF Steps
<1>3. ASSUME NEW n \in Totals, Open(n) \/ Close(n)
      PROVE  UNCHANGED <<at, spent, own, inner, opened, tries, stopping, made>>
  BY <1>3 DEF Open, Close
<1> QED BY <1>1, <1>2, <1>3 DEF Next, vars

LEMMA OwnAlways == Spec => []OwnInv
BY PlacesAlways, BudgetAlways, InitOwn, NextOwn, PTL DEF Spec

LEMMA InitAccount == Init => AccountInv
<1> SUFFICES ASSUME Init PROVE AccountInv
  OBVIOUS
<1>1. \A n \in Totals : Held(n) = {}
  BY DEF Init, Held, Of
<1> QED BY <1>1, FS_EmptySet DEF Init, AccountInv, NoScope

(* Of a step of one item its node's account counts the call of the loop that *)
(* begins or ends with it, and the other accounts stay.                      *)
IsHeld(p, c) == p = "loop" /\ c # "none"

LEMMA AccountStep ==
    ASSUME PlacesInv, AccountInv, NEW u \in Units, NEW p \in Places, NEW c \in Phases,
           at' = [at EXCEPT ![u] = p], call' = [call EXCEPT ![u] = c],
           at[u] \notin Over \cup {"new"}
               \/ (at[u] = "new" /\ (p \in Over \/ (NodeOf[u] \in Totals => scope[NodeOf[u]].open))),
           scope' \in [Totals -> [open : BOOLEAN, spent : Nat, inFlight : Int]],
           \A n \in Totals : scope'[n].open = scope[n].open,
           \A n \in Totals : NodeOf[u] # n => scope'[n].inFlight = scope[n].inFlight,
           NodeOf[u] \in Totals =>
               scope'[NodeOf[u]].inFlight = scope[NodeOf[u]].inFlight
                   + (IF IsHeld(p, c) THEN 1 ELSE 0) - (IF IsHeld(at[u], call[u]) THEN 1 ELSE 0)
    PROVE  AccountInv'
<1>0. at \in [Units -> Places] /\ call \in [Units -> Phases]
  BY DEF PlacesInv
<1>1. \A n \in Totals : NodeOf[u] # n => Held(n)' = Held(n)
  BY <1>0 DEF Held, Of
<1>2. Held(NodeOf[u])' = IF IsHeld(p, c) THEN Held(NodeOf[u]) \cup {u} ELSE Held(NodeOf[u]) \ {u}
  BY <1>0 DEF Held, Of, IsHeld
<1>3. u \in Held(NodeOf[u]) <=> IsHeld(at[u], call[u])
  BY DEF Held, Of, IsHeld
<1>4. Held(NodeOf[u]) \subseteq Units
  BY DEF Held, Of
<1>5. /\ Cardinality(Held(NodeOf[u]) \cup {u})
             = Cardinality(Held(NodeOf[u])) + (IF IsHeld(at[u], call[u]) THEN 0 ELSE 1)
      /\ Cardinality(Held(NodeOf[u]) \ {u})
             = Cardinality(Held(NodeOf[u])) - (IF IsHeld(at[u], call[u]) THEN 1 ELSE 0)
      /\ Cardinality(Held(NodeOf[u])) \in Nat
  <2>1. /\ Cardinality(Held(NodeOf[u]) \cup {u}) =
             IF u \in Held(NodeOf[u]) THEN Cardinality(Held(NodeOf[u])) ELSE Cardinality(Held(NodeOf[u])) + 1
        /\ Cardinality(Held(NodeOf[u]) \ {u}) =
             IF u \in Held(NodeOf[u]) THEN Cardinality(Held(NodeOf[u])) - 1 ELSE Cardinality(Held(NodeOf[u]))
    BY <1>4, CountChanged
  <2>2. Cardinality(Held(NodeOf[u])) \in Nat
    BY <1>4, FiniteUnits
  <2> QED BY <2>1, <2>2, <1>3
<1>6. NodeOf[u] \in Totals => scope[NodeOf[u]].inFlight = Cardinality(Held(NodeOf[u]))
  BY DEF AccountInv
<1>7. NodeOf[u] \in Totals => scope'[NodeOf[u]].inFlight = Cardinality(Held(NodeOf[u])')
  BY <1>2, <1>5, <1>6
<1>8. \A n \in Totals : scope'[n].inFlight = Cardinality(Held(n)')
  BY <1>1, <1>7 DEF AccountInv
<1>9. \A v \in Units : NodeOf[v] \in Totals /\ at'[v] \notin Over \cup {"new"} => scope'[NodeOf[v]].open
  BY <1>0 DEF AccountInv
<1> QED BY <1>8, <1>9 DEF AccountInv

LEMMA ChargedOnly ==
    ASSUME AccountInv, NEW n, NEW steps \in Nat, ChargeScope(n, steps) \/ scope' = scope
    PROVE  /\ scope' \in [Totals -> [open : BOOLEAN, spent : Nat, inFlight : Int]]
           /\ \A m \in Totals : scope'[m].open = scope[m].open /\ scope'[m].inFlight = scope[m].inFlight
BY DEF AccountInv, ChargeScope

LEMMA NextAccount ==
    PlacesInv /\ BudgetInv /\ OwnInv /\ AccountInv /\ [Next]_vars => AccountInv'
<1> SUFFICES ASSUME PlacesInv, BudgetInv, OwnInv, AccountInv, [Next]_vars PROVE AccountInv'
  OBVIOUS
<1> USE DEF Ends
<1>0. /\ at \in [Units -> Places] /\ call \in [Units -> Phases] /\ spent \in Nat
      /\ \A u \in Units : call[u] # "none" => at[u] \in {"loop", "tool", "delegate"}
      /\ \A u \in Units : call[u] \in {"fetch", "fetched"} => at[u] = "tool"
      /\ inner \in [Units -> Nat] /\ opened \in [Units -> Nat]
      /\ \A u \in Units : opened[u] <= spent
  BY DEF PlacesInv, BudgetInv, OwnInv
<1>a. /\ scope \in [Totals -> [open : BOOLEAN, spent : Nat, inFlight : Int]]
      /\ \A n \in Totals : scope[n].inFlight = Cardinality(Held(n))
      /\ \A u \in Units : NodeOf[u] \in Totals /\ at[u] \notin Over \cup {"new"} => scope[NodeOf[u]].open
  BY DEF AccountInv
<1>1. CASE UNCHANGED <<at, call, scope>>
  BY <1>1 DEF AccountInv, Held, Of
<1>2. ASSUME NEW u \in Units, Steps(u) PROVE AccountInv'
  <2>0. at[u] = "loop" => (HeldAt(u) <=> NodeOf[u] \in Totals)
    BY <1>a DEF HeldAt, Over
  <2>1. CASE Begin(u)
    <3>1. /\ at[u] = "new" /\ call[u] = "none" /\ call' = [call EXCEPT ![u] = "none"] /\ scope' = scope
          /\ NodeOf[u] \in Totals => scope[NodeOf[u]].open
      BY <2>1, <1>0 DEF Begin
    <3>2. PICK p \in {"drained", "loop"} : at' = [at EXCEPT ![u] = p]
      BY <2>1 DEF Begin
    <3>3. NodeOf[u] \in Totals =>
              scope'[NodeOf[u]].inFlight = scope[NodeOf[u]].inFlight
                  + (IF IsHeld(p, "none") THEN 1 ELSE 0) - (IF IsHeld(at[u], call[u]) THEN 1 ELSE 0)
      BY <3>1, <1>a DEF IsHeld
    <3>4. p \in Places /\ "none" \in Phases /\ scope' \in [Totals -> [open : BOOLEAN, spent : Nat, inFlight : Int]]
      BY <3>1, <3>2, <1>a DEF Places, Over, Phases
    <3>5. p \in Over \/ (NodeOf[u] \in Totals => scope[NodeOf[u]].open)
      BY <3>1
    <3> QED BY <3>1, <3>2, <3>3, <3>4, <3>5, AccountStep
  <2>2. CASE TakeStep(u)
    <3>1. /\ call[u] = "none" /\ at[u] \in {"loop", "tool", "delegate"} /\ at' = [at EXCEPT ![u] = at[u]]
          /\ scope' = IF HeldAt(u) THEN [scope EXCEPT ![NodeOf[u]].inFlight = @ + 1] ELSE scope
      BY <2>2, <1>0 DEF TakeStep, Calls
    <3>2. PICK c \in {"taken", "back"} : call' = [call EXCEPT ![u] = c]
      BY <2>2 DEF TakeStep
    <3>3. CASE at[u] = "loop"
      <4>1. scope' = IF NodeOf[u] \in Totals THEN [scope EXCEPT ![NodeOf[u]].inFlight = @ + 1] ELSE scope
        BY <3>1, <3>3, <2>0
      <4>2. /\ scope' \in [Totals -> [open : BOOLEAN, spent : Nat, inFlight : Int]]
            /\ \A n \in Totals : scope'[n].open = scope[n].open
            /\ \A n \in Totals : NodeOf[u] # n => scope'[n].inFlight = scope[n].inFlight
            /\ NodeOf[u] \in Totals => scope'[NodeOf[u]].inFlight = scope[NodeOf[u]].inFlight + 1
        BY <4>1, <1>a
      <4>3. scope \in [Totals -> [open : BOOLEAN, spent : Nat, inFlight : Int]]
        BY <1>a
      <4>4. NodeOf[u] \in Totals =>
                scope'[NodeOf[u]].inFlight = scope[NodeOf[u]].inFlight
                    + (IF IsHeld(at[u], c) THEN 1 ELSE 0) - (IF IsHeld(at[u], call[u]) THEN 1 ELSE 0)
        BY <3>1, <3>2, <3>3, <4>2, <4>3 DEF IsHeld
      <4>5. at[u] \in Places /\ c \in Phases /\ at[u] \notin Over \cup {"new"}
        BY <3>1, <3>2 DEF Places, Phases, Over
      <4> QED BY <3>1, <3>2, <4>2, <4>4, <4>5, AccountStep
    <3>4. CASE at[u] # "loop"
      <4>1. scope' = scope
        BY <3>1, <3>4 DEF HeldAt
      <4>2. NodeOf[u] \in Totals =>
                scope'[NodeOf[u]].inFlight = scope[NodeOf[u]].inFlight
                    + (IF IsHeld(at[u], c) THEN 1 ELSE 0) - (IF IsHeld(at[u], call[u]) THEN 1 ELSE 0)
        BY <3>1, <3>2, <3>4, <4>1, <1>a DEF IsHeld
      <4>3. at[u] \in Places /\ c \in Phases /\ at[u] \notin Over \cup {"new"}
        BY <3>1, <3>2 DEF Places, Phases, Over
      <4> QED BY <3>1, <3>2, <4>1, <4>2, <4>3, <1>a, AccountStep
    <3> QED BY <3>3, <3>4
  <2>3. CASE AskBackend(u) \/ Return(u) \/ Charge(u)
    <3>1. /\ call[u] \in {"taken", "out", "back"} /\ at[u] \in {"loop", "tool", "delegate"}
          /\ at' = [at EXCEPT ![u] = at[u]]
          /\ ChargeScope(NodeOf[u], 1) \/ scope' = scope
      BY <2>3, <1>0 DEF AskBackend, Return, Charge
    <3>2. PICK c \in {"out", "back", "charged"} : call' = [call EXCEPT ![u] = c]
      BY <2>3 DEF AskBackend, Return, Charge
    <3>3. /\ scope' \in [Totals -> [open : BOOLEAN, spent : Nat, inFlight : Int]]
          /\ \A m \in Totals : scope'[m].open = scope[m].open /\ scope'[m].inFlight = scope[m].inFlight
      BY <3>1, ChargedOnly
    <3>4. NodeOf[u] \in Totals =>
              scope'[NodeOf[u]].inFlight = scope[NodeOf[u]].inFlight
                  + (IF IsHeld(at[u], c) THEN 1 ELSE 0) - (IF IsHeld(at[u], call[u]) THEN 1 ELSE 0)
      BY <3>1, <3>2, <3>3, <1>a DEF IsHeld
    <3>5. at[u] \in Places /\ c \in Phases /\ at[u] \notin Over \cup {"new"}
      BY <3>1, <3>2 DEF Places, Phases, Over
    <3> QED BY <3>1, <3>2, <3>3, <3>4, <3>5, AccountStep
  <2>6. CASE Raise(u) /\ call[u] = "none"
    <3>1. /\ at[u] \notin Over \cup {"new"} /\ scope' = scope
          /\ call' = [call EXCEPT ![u] = "none"]
      BY <2>6 DEF Raise, GiveBackStep
    <3>2. PICK p \in {"failed", "stopped"} : at' = [at EXCEPT ![u] = p]
      BY <2>6 DEF Raise
    <3>3. NodeOf[u] \in Totals =>
              scope'[NodeOf[u]].inFlight = scope[NodeOf[u]].inFlight
                  + (IF IsHeld(p, "none") THEN 1 ELSE 0) - (IF IsHeld(at[u], call[u]) THEN 1 ELSE 0)
      BY <2>6, <3>1, <1>a DEF IsHeld
    <3>4. p \in Places /\ "none" \in Phases
      BY <3>2 DEF Places, Phases, Over
    <3> QED BY <3>1, <3>2, <3>3, <3>4, <1>a, AccountStep
  <2>4. CASE (Raise(u) /\ call[u] # "none") \/ Release(u)
    <3>1. /\ call[u] # "none" /\ at[u] \in {"loop", "tool", "delegate"}
          /\ call' = [call EXCEPT ![u] = "none"]
          /\ scope' = IF HeldAt(u) THEN [scope EXCEPT ![NodeOf[u]].inFlight = @ - 1] ELSE scope
      BY <2>4, <1>0 DEF Raise, Release, GiveBackStep
    <3>2. PICK p \in {"failed", "stopped", "turn", at[u]} : at' = [at EXCEPT ![u] = p]
      BY <2>4 DEF Raise, Release
    <3>5. p \in Places
      BY <3>1, <3>2 DEF Places, Over
    <3>3. CASE at[u] = "loop"
      <4>1. scope' = IF NodeOf[u] \in Totals THEN [scope EXCEPT ![NodeOf[u]].inFlight = @ - 1] ELSE scope
        BY <3>1, <3>3, <2>0
      <4>2. /\ scope' \in [Totals -> [open : BOOLEAN, spent : Nat, inFlight : Int]]
            /\ \A n \in Totals : scope'[n].open = scope[n].open
            /\ \A n \in Totals : NodeOf[u] # n => scope'[n].inFlight = scope[n].inFlight
            /\ NodeOf[u] \in Totals => scope'[NodeOf[u]].inFlight = scope[NodeOf[u]].inFlight - 1
        BY <4>1, <1>a
      <4>3. scope \in [Totals -> [open : BOOLEAN, spent : Nat, inFlight : Int]]
        BY <1>a
      <4>4. NodeOf[u] \in Totals =>
                scope'[NodeOf[u]].inFlight = scope[NodeOf[u]].inFlight
                    + (IF IsHeld(p, "none") THEN 1 ELSE 0) - (IF IsHeld(at[u], call[u]) THEN 1 ELSE 0)
        BY <3>1, <3>3, <4>2, <4>3 DEF IsHeld
      <4>5. "none" \in Phases /\ at[u] \notin Over \cup {"new"}
        BY <3>1 DEF Phases, Over
      <4> QED BY <3>1, <3>2, <3>5, <4>2, <4>4, <4>5, AccountStep
    <3>4. CASE at[u] # "loop"
      <4>1. scope' = scope
        BY <3>1, <3>4 DEF HeldAt
      <4>2. NodeOf[u] \in Totals =>
                scope'[NodeOf[u]].inFlight = scope[NodeOf[u]].inFlight
                    + (IF IsHeld(p, "none") THEN 1 ELSE 0) - (IF IsHeld(at[u], call[u]) THEN 1 ELSE 0)
        BY <3>1, <3>2, <3>4, <4>1, <1>a DEF IsHeld
      <4>3. "none" \in Phases /\ at[u] \notin Over \cup {"new"}
        BY <3>1 DEF Phases, Over
      <4> QED BY <3>1, <3>2, <3>5, <4>1, <4>2, <4>3, <1>a, AccountStep
    <3> QED BY <3>3, <3>4
  <2>5. CASE \/ Retrieve(u) \/ ChargeRetrieval(u) \/ EndTool(u) \/ EndDelegate(u) \/ RefuseRun(u)
             \/ RefuseNode(u) \/ GoRound(u) \/ Finish(u) \/ AskTool(u) \/ RunTool(u)
             \/ Throttle(u) \/ Delegate(u)
    <3>1. at[u] \notin Over \cup {"new"} /\ ~IsHeld(at[u], call[u])
      BY <2>5, <1>0 DEF Retrieve, ChargeRetrieval, EndTool, EndDelegate, RefuseRun, RefuseNode, GoRound,
                        Finish, AskTool, RunTool, Throttle, Delegate, Calls, Allowance, IsHeld, Over
    <3>2. PICK c \in Phases, p \in Places :
              /\ call' = [call EXCEPT ![u] = c] /\ at' = [at EXCEPT ![u] = p] /\ ~IsHeld(p, c)
      <4>1. CASE Retrieve(u) \/ ChargeRetrieval(u)
        BY <4>1, <1>0 DEF Retrieve, ChargeRetrieval, Phases, Places, IsHeld
      <4>2. CASE \/ EndTool(u) \/ EndDelegate(u) \/ RefuseRun(u) \/ RefuseNode(u) \/ GoRound(u) \/ Finish(u)
                 \/ AskTool(u) \/ RunTool(u) \/ Throttle(u) \/ Delegate(u)
        <5>1. call[u] = "none" /\ call' = call
          BY <4>2, <1>0 DEF EndTool, EndDelegate, RefuseRun, RefuseNode, GoRound, Finish, AskTool,
                            RunTool, Throttle, Delegate, Calls, Allowance
        <5>2. PICK p \in Places : at' = [at EXCEPT ![u] = p]
          BY <4>2 DEF EndTool, EndDelegate, RefuseRun, RefuseNode, GoRound, Finish, AskTool,
                      RunTool, Throttle, Delegate, Places, Over
        <5> QED BY <5>1, <5>2, <1>0 DEF IsHeld, Phases
      <4> QED BY <2>5, <4>1, <4>2
    <3>3. spent - opened[u] \in Nat /\ inner[u] \in Nat
      BY <1>0
    <3>4. \E steps \in Nat : ChargeScope(NodeOf[u], steps) \/ scope' = scope
      BY <2>5, <3>3 DEF Retrieve, ChargeRetrieval, EndTool, EndDelegate, RefuseRun, RefuseNode, GoRound,
                        Finish, AskTool, RunTool, Throttle, Delegate
    <3>5. /\ scope' \in [Totals -> [open : BOOLEAN, spent : Nat, inFlight : Int]]
          /\ \A m \in Totals : scope'[m].open = scope[m].open /\ scope'[m].inFlight = scope[m].inFlight
      BY <3>4, ChargedOnly
    <3>6. NodeOf[u] \in Totals =>
              scope'[NodeOf[u]].inFlight = scope[NodeOf[u]].inFlight
                  + (IF IsHeld(p, c) THEN 1 ELSE 0) - (IF IsHeld(at[u], call[u]) THEN 1 ELSE 0)
      BY <3>1, <3>2, <3>5, <1>a
    <3>7. p \in Places /\ c \in Phases
      BY <3>2
    <3> QED BY <3>1, <3>2, <3>5, <3>6, <3>7, AccountStep
  <2> QED BY <1>2, <2>1, <2>2, <2>3, <2>4, <2>5, <2>6 DEF Steps
<1>3. ASSUME NEW n \in Totals, Open(n) \/ Close(n) PROVE AccountInv'
  <2>1. UNCHANGED <<at, call>> /\ \A u \in Of(n) : at[u] \in Over \cup {"new"}
    BY <1>3 DEF Open, Close, Over
  <2>2. PICK b \in BOOLEAN : scope' = [scope EXCEPT ![n] = [open |-> b, spent |-> 0, inFlight |-> 0]]
    BY <1>3 DEF Open, Close, NoScope
  <2>3. Held(n) = {} /\ \A m \in Totals : Held(m)' = Held(m)
    BY <2>1, <1>0 DEF Held, Of, Over
  <2>4. scope' \in [Totals -> [open : BOOLEAN, spent : Nat, inFlight : Int]]
    BY <2>2, <1>a
  <2>5. \A m \in Totals : scope'[m].inFlight = Cardinality(Held(m)')
    BY <2>2, <2>3, <1>a, FS_EmptySet
  <2>6. \A u \in Units : NodeOf[u] \in Totals /\ at[u] \notin Over \cup {"new"}
            => NodeOf[u] # n /\ scope[NodeOf[u]].open
    BY <2>1, <1>a DEF Of
  <2>7. \A u \in Units : NodeOf[u] \in Totals /\ at'[u] \notin Over \cup {"new"} => scope'[NodeOf[u]].open
    BY <2>1, <2>2, <2>6, <1>a
  <2> QED BY <2>4, <2>5, <2>7 DEF AccountInv
<1> QED BY <1>1, <1>2, <1>3 DEF Next, vars

LEMMA AccountsAlways == Spec => []AccountInv
BY PlacesAlways, BudgetAlways, OwnAlways, InitAccount, NextAccount, PTL DEF Spec

LEMMA CountsAreNat == PlacesInv /\ BudgetInv /\ AccountInv =>
    inFlight \in Nat /\ \A n \in Totals : scope[n].inFlight \in Nat
<1> SUFFICES ASSUME PlacesInv, BudgetInv, AccountInv
             PROVE  inFlight \in Nat /\ \A n \in Totals : scope[n].inFlight \in Nat
  OBVIOUS
<1>1. Stepped \subseteq Units /\ \A n \in Totals : Held(n) \subseteq Units
  BY DEF Stepped, Held, Of
<1> QED BY <1>1, FiniteUnits DEF BudgetInv, AccountInv

(* Every variable keeps its type; of the counts this says that nothing is    *)
(* given back twice.                                                         *)
THEOREM TypesHold == Spec => []TypeOK
<1>1. PlacesInv /\ BudgetInv /\ SlotInv /\ OwnInv /\ AccountInv => TypeOK
  <2> SUFFICES ASSUME PlacesInv, BudgetInv, SlotInv, OwnInv, AccountInv PROVE TypeOK
    OBVIOUS
  <2>1. inFlight \in Nat /\ \A n \in Totals : scope[n].inFlight \in Nat
    BY CountsAreNat
  <2>2. scope \in [Totals -> [open : BOOLEAN, spent : Nat, inFlight : Nat]]
    BY <2>1 DEF AccountInv
  <2>3. free \in 0 .. Ceiling
    <3>1. Cardinality(holding) \in Nat
      BY FiniteUnits DEF SlotInv
    <3> QED BY <3>1, CeilingAssumption DEF SlotInv
  <2> QED BY <2>1, <2>2, <2>3 DEF PlacesInv, BudgetInv, SlotInv, OwnInv, TypeOK
<1> QED BY <1>1, PlacesAlways, BudgetAlways, SlotsAlways, OwnAlways, AccountsAlways, PTL

(* However the items of a run end, no step of the run or of a node and no    *)
(* slot is left with them.                                                   *)
THEOREM NothingLeftBehind == Spec => []EverythingIsGivenBack
<1>1. PlacesInv /\ BudgetInv /\ SlotInv /\ AccountInv => EverythingIsGivenBack
  <2> SUFFICES ASSUME PlacesInv, BudgetInv, SlotInv, AccountInv PROVE EverythingIsGivenBack
    OBVIOUS
  <2>1. ASSUME \A u \in Units : at[u] \in Over PROVE inFlight = 0 /\ free = Ceiling /\ holding = {}
    <3>1. Stepped = {} /\ holding = {}
      BY <2>1 DEF PlacesInv, SlotInv, Stepped, Over
    <3> QED BY <3>1, FS_EmptySet, CeilingAssumption DEF BudgetInv, SlotInv
  <2>2. ASSUME NEW n \in Totals, \A u \in Of(n) : at[u] \in Over PROVE scope[n].inFlight = 0
    <3>1. Held(n) = {}
      BY <2>2 DEF Held, Over
    <3> QED BY <3>1, FS_EmptySet DEF AccountInv
  <2> QED BY <2>1, <2>2 DEF EverythingIsGivenBack
<1> QED BY <1>1, PlacesAlways, BudgetAlways, SlotsAlways, AccountsAlways, PTL

-----------------------------------------------------------------------------
(* What the accounts hold.  The calls an open account may still lack are the *)
(* inner ones of a tool or a delegation that has not ended; a delegation      *)
(* covers its own by what the run has spent since it began, and an item that  *)
(* has not begun has none.                                                   *)
FoldInv ==
    /\ \A u \in Units : inner[u] <= made[u]
    /\ \A u \in Units : at[u] = "new" => made[u] = 0
    /\ \A u \in Units : at[u] \in {"new", "loop", "turn"} => inner[u] = 0
    /\ \A u \in Units : at[u] = "delegate" => opened[u] + inner[u] <= spent
    /\ NothingIsForgotten

(* The calls of a node's items are finitely many, and as many more as are     *)
(* added to one of the items.                                                *)
LEMMA CallsFinite ==
    ASSUME NEW n, NEW count, \A u \in Of(n) : count[u] \in Nat
    PROVE  IsFiniteSet(CallsOf(n, count)) /\ Cardinality(CallsOf(n, count)) \in Nat
<1>1. IsFiniteSet(Of(n))
  BY FiniteUnits DEF Of
<1>2. IsFiniteSet({{u} \X (1 .. count[u]) : u \in Of(n)})
  <2> DEFINE f == [u \in Of(n) |-> {u} \X (1 .. count[u])]
             Images == {{u} \X (1 .. count[u]) : u \in Of(n)}
  <2>1. f \in Surjection(Of(n), Images)
    BY DEF Surjection
  <2> HIDE DEF f, Images
  <2>2. IsFiniteSet(Images)
    BY <2>1, <1>1, FS_Surjection
  <2> QED BY <2>2 DEF Images
<1>3. \A T \in {{u} \X (1 .. count[u]) : u \in Of(n)} : IsFiniteSet(T)
  <2> SUFFICES ASSUME NEW u \in Of(n) PROVE IsFiniteSet({u} \X (1 .. count[u]))
    OBVIOUS
  <2>1. IsFiniteSet({u})
    BY FS_Singleton
  <2>2. IsFiniteSet(1 .. count[u])
    BY FS_Interval
  <2> QED BY <2>1, <2>2, FS_Product
<1>4. IsFiniteSet(CallsOf(n, count))
  BY <1>2, <1>3, FS_UNION DEF CallsOf
<1> QED BY <1>4, FS_CardinalityType

LEMMA NumbersAdded ==
    ASSUME NEW c \in Nat, NEW k \in Nat
    PROVE  IsFiniteSet(c + 1 .. c + k) /\ Cardinality(c + 1 .. c + k) = k
<1>1. PICK a \in Int, b \in Int : a = c + 1 /\ b = c + k
  OBVIOUS
<1>2. IsFiniteSet(a .. b)
  BY FS_Interval
<1>3. Cardinality(a .. b) = IF a > b THEN 0 ELSE b - a + 1
  BY FS_Interval
<1>4. CASE a > b
  <2>1. k = 0
    BY <1>1, <1>4
  <2> QED BY <1>1, <1>2, <1>3, <1>4, <2>1
<1>5. CASE ~(a > b)
  <2>1. Cardinality(a .. b) = b - a + 1
    BY <1>3, <1>5
  <2>2. b - a + 1 = k
    BY <1>1
  <2> QED BY <1>1, <1>2, <2>1, <2>2
<1> QED BY <1>4, <1>5

LEMMA CallsAdded ==
    ASSUME NEW n, NEW u \in Of(n), NEW k \in Nat, NEW count, NEW next,
           \A v \in Of(n) : count[v] \in Nat,
           next[u] = count[u] + k, \A v \in Of(n) \ {u} : next[v] = count[v]
    PROVE  Cardinality(CallsOf(n, next)) = Cardinality(CallsOf(n, count)) + k
<1> DEFINE New == {u} \X (count[u] + 1 .. count[u] + k)
<1>1. CallsOf(n, next) = CallsOf(n, count) \cup New
  <2>1. 1 .. next[u] = (1 .. count[u]) \cup (count[u] + 1 .. count[u] + k)
    <3>1. count[u] \in Nat /\ k \in Nat /\ next[u] = count[u] + k
      OBVIOUS
    <3> QED BY <3>1
  <2>2. {u} \X (1 .. next[u]) = ({u} \X (1 .. count[u])) \cup New
    BY <2>1
  <2> QED BY <2>2 DEF CallsOf
<1>2. CallsOf(n, count) \cap New = {}
  <2> SUFFICES ASSUME NEW c \in CallsOf(n, count), c \in New PROVE FALSE
    OBVIOUS
  <2>1. PICK v \in Of(n) : c \in {v} \X (1 .. count[v])
    BY DEF CallsOf
  <2>2. v = u /\ c[2] \in 1 .. count[u] /\ c[2] \in count[u] + 1 .. count[u] + k
    BY <2>1
  <2> QED BY <2>2
<1>3. IsFiniteSet(New) /\ Cardinality(New) = k
  <2>1. IsFiniteSet({u}) /\ Cardinality({u}) = 1
    BY FS_Singleton
  <2>2. IsFiniteSet(count[u] + 1 .. count[u] + k) /\ Cardinality(count[u] + 1 .. count[u] + k) = k
    BY NumbersAdded
  <2>3. /\ IsFiniteSet(New)
        /\ Cardinality(New) = Cardinality({u}) * Cardinality(count[u] + 1 .. count[u] + k)
    BY <2>1, <2>2, FS_Product
  <2> QED BY <2>1, <2>2, <2>3
<1>4. IsFiniteSet(CallsOf(n, count)) /\ Cardinality(CallsOf(n, count)) \in Nat
  BY CallsFinite
<1> QED BY <1>1, <1>2, <1>3, <1>4, FS_Union, FS_EmptySet

LEMMA CallsSame ==
    ASSUME NEW n, NEW count, NEW next, \A v \in Of(n) : next[v] = count[v]
    PROVE  CallsOf(n, next) = CallsOf(n, count)
BY DEF CallsOf

LEMMA FoldedIsNat ==
    ASSUME OwnInv, FoldInv, NEW n PROVE Folded(n) \in Nat
<1> DEFINE count == [u \in Of(n) |-> made[u] - inner[u]]
<1>1. \A u \in Of(n) : count[u] \in Nat
  BY DEF OwnInv, FoldInv, Of
<1> HIDE DEF count
<1>2. Cardinality(CallsOf(n, count)) \in Nat
  BY <1>1, CallsFinite
<1> QED BY <1>2 DEF Folded, count

(* A step that changes the calls of one item changes the sum of its node by    *)
(* as much, and the sums of the other nodes stay.                            *)
LEMMA FoldedStep ==
    ASSUME OwnInv, FoldInv, OwnInv', NEW u \in Units, NEW k \in Nat,
           made'[u] - inner'[u] = made[u] - inner[u] + k,
           \A v \in Units \ {u} : made'[v] = made[v] /\ inner'[v] = inner[v],
           NEW n
    PROVE  Folded(n)' = IF NodeOf[u] = n THEN Folded(n) + k ELSE Folded(n)
<1>1. PICK count : count = [v \in Of(n) |-> made[v] - inner[v]]
  OBVIOUS
<1>2. PICK next : next = [v \in Of(n) |-> made'[v] - inner'[v]]
  OBVIOUS
<1>3. Folded(n) = Cardinality(CallsOf(n, count)) /\ Folded(n)' = Cardinality(CallsOf(n, next))
  BY <1>1, <1>2 DEF Folded
<1>4. \A v \in Of(n) : count[v] \in Nat
  BY <1>1 DEF OwnInv, FoldInv, Of
<1>5. \A v \in Of(n) \ {u} : next[v] = count[v]
  BY <1>1, <1>2 DEF Of
<1>6. CASE NodeOf[u] = n
  <2>1. u \in Of(n) /\ next[u] = count[u] + k
    BY <1>1, <1>2, <1>6 DEF Of
  <2>2. Cardinality(CallsOf(n, next)) = Cardinality(CallsOf(n, count)) + k
    BY <2>1, <1>4, <1>5, CallsAdded
  <2> QED BY <2>2, <1>3, <1>6
<1>7. CASE NodeOf[u] # n
  <2>1. \A v \in Of(n) : next[v] = count[v]
    BY <1>5, <1>7 DEF Of
  <2> QED BY <2>1, <1>3, <1>7, CallsSame
<1> QED BY <1>6, <1>7

LEMMA AccountCovers ==
    ASSUME OwnInv, FoldInv, OwnInv', NEW u \in Units, NEW k \in Nat,
           made'[u] - inner'[u] = made[u] - inner[u] + k,
           \A v \in Units \ {u} : made'[v] = made[v] /\ inner'[v] = inner[v],
           \A n \in Totals : scope[n].spent \in Nat /\ scope'[n].spent \in Nat,
           \A n \in Totals : scope'[n].open = scope[n].open,
           \A n \in Totals : scope'[n].spent >= scope[n].spent,
           NodeOf[u] \in Totals /\ scope[NodeOf[u]].open
               => scope'[NodeOf[u]].spent >= scope[NodeOf[u]].spent + k
    PROVE  NothingIsForgotten'
<1> SUFFICES ASSUME NEW n \in Totals, scope'[n].open PROVE scope'[n].spent >= Folded(n)'
  BY DEF NothingIsForgotten
<1>1. scope[n].spent >= Folded(n)
  BY DEF FoldInv, NothingIsForgotten
<1>2. Folded(n)' = IF NodeOf[u] = n THEN Folded(n) + k ELSE Folded(n)
  BY FoldedStep
<1>3. Folded(n) \in Nat
  BY FoldedIsNat
<1>4. CASE NodeOf[u] = n
  <2>1. Folded(n)' = Folded(n) + k
    BY <1>2, <1>4
  <2>2. scope'[n].spent >= scope[n].spent + k
    BY <1>4
  <2> QED BY <2>1, <2>2, <1>1, <1>3
<1>5. CASE NodeOf[u] # n
  <2>1. Folded(n)' = Folded(n)
    BY <1>2, <1>5
  <2> QED BY <2>1, <1>1, <1>3
<1> QED BY <1>4, <1>5

(* What charge_scope adds to an account, and that it leaves the others. *)
LEMMA ChargeAdds ==
    ASSUME AccountInv, NEW n, NEW steps \in Nat, ChargeScope(n, steps)
    PROVE  /\ \A m \in Totals : scope[m].spent \in Nat /\ scope'[m].spent \in Nat
           /\ \A m \in Totals : scope'[m].open = scope[m].open
           /\ \A m \in Totals : scope'[m].spent >= scope[m].spent
           /\ n \in Totals /\ scope[n].open => scope'[n].spent >= scope[n].spent + steps
<1>1. CASE n \in Totals /\ scope[n].open
  <2>1. scope' = [scope EXCEPT ![n].spent = @ + steps]
    BY <1>1 DEF ChargeScope
  <2>2. scope \in [Totals -> [open : BOOLEAN, spent : Nat, inFlight : Int]]
    BY DEF AccountInv
  <2>3. scope'[n].spent = scope[n].spent + steps /\ scope'[n].open = scope[n].open
    BY <2>1, <2>2, <1>1
  <2>4. \A m \in Totals \ {n} : scope'[m] = scope[m]
    BY <2>1, <2>2
  <2>5. \A m \in Totals : scope[m].spent \in Nat
    BY <2>2
  <2>6. scope'[n].spent \in Nat /\ scope'[n].spent >= scope[n].spent
    BY <2>3, <2>5, <1>1
  <2>7. \A m \in Totals \ {n} : /\ scope'[m].open = scope[m].open /\ scope'[m].spent \in Nat
                                /\ scope'[m].spent >= scope[m].spent
    BY <2>4, <2>5
  <2>8. scope'[n].spent >= scope[n].spent + steps
    BY <2>3, <2>5, <2>6, <1>1
  <2> QED BY <2>3, <2>5, <2>6, <2>7, <2>8
<1>2. CASE ~(n \in Totals /\ scope[n].open)
  BY <1>2 DEF ChargeScope, AccountInv
<1> QED BY <1>1, <1>2

LEMMA InitFold == Init => FoldInv
BY DEF Init, FoldInv, NothingIsForgotten, NoScope

LEMMA NextFold ==
    PlacesInv /\ BudgetInv /\ OwnInv /\ OwnInv' /\ AccountInv /\ FoldInv /\ [Next]_vars => FoldInv'
<1> SUFFICES ASSUME PlacesInv, BudgetInv, OwnInv, OwnInv', AccountInv, FoldInv, [Next]_vars
             PROVE  FoldInv'
  OBVIOUS
<1> USE DEF Ends
<1>0. /\ at \in [Units -> Places] /\ spent \in Nat
      /\ \A u \in Units : call[u] # "none" => at[u] \in {"loop", "tool", "delegate"}
      /\ \A u \in Units : call[u] \in {"fetch", "fetched"} => at[u] = "tool"
      /\ inner \in [Units -> Nat] /\ opened \in [Units -> Nat] /\ made \in [Units -> Nat]
      /\ scope \in [Totals -> [open : BOOLEAN, spent : Nat, inFlight : Int]]
  BY DEF PlacesInv, BudgetInv, OwnInv, AccountInv
<1>a. /\ \A u \in Units : inner[u] <= made[u]
      /\ \A u \in Units : at[u] = "new" => made[u] = 0
      /\ \A u \in Units : at[u] \in {"new", "loop", "turn"} => inner[u] = 0
      /\ \A u \in Units : at[u] = "delegate" => opened[u] + inner[u] <= spent
  BY DEF FoldInv
<1>1. CASE UNCHANGED vars
  BY <1>1 DEF vars, FoldInv, NothingIsForgotten, Folded
<1>2. ASSUME NEW u \in Units, Steps(u) PROVE FoldInv'
  <2>0. ASSUME /\ UNCHANGED <<spent, inner, opened, made>>
               /\ \A n \in Totals : /\ scope'[n].open = scope[n].open
                                     /\ scope'[n].spent = scope[n].spent,
               NEW p \in Places \ {"new"}, at' = [at EXCEPT ![u] = p],
               p \in {"loop", "turn"} => at[u] \in {"new", "loop", "turn"},
               p = "delegate" => at[u] = "delegate"
        PROVE  FoldInv'
    <3>1. NothingIsForgotten'
      <4>1. made'[u] - inner'[u] = made[u] - inner[u] + 0
        BY <2>0, <1>0
      <4>2. \A n \in Totals : /\ scope[n].spent \in Nat /\ scope'[n].spent \in Nat
                               /\ scope'[n].spent >= scope[n].spent + 0
                               /\ scope'[n].spent >= scope[n].spent
        BY <2>0, <1>0
      <4> QED BY <2>0, <4>1, <4>2, AccountCovers
    <3>2. \A v \in Units : at'[v] = "new" => made'[v] = 0
      BY <2>0, <1>0, <1>a
    <3>3. \A v \in Units : at'[v] \in {"new", "loop", "turn"} => inner'[v] = 0
      BY <2>0, <1>0, <1>a
    <3>4. \A v \in Units : at'[v] = "delegate" => opened'[v] + inner'[v] <= spent'
      BY <2>0, <1>0, <1>a
    <3> QED BY <2>0, <3>1, <3>2, <3>3, <3>4, <1>a DEF FoldInv
  <2>7. CASE Raise(u)
    <3>1. /\ UNCHANGED <<spent, inner, opened, made>>
          /\ \/ scope' = scope
             \/ HeldAt(u) /\ scope' = [scope EXCEPT ![NodeOf[u]].inFlight = @ - 1]
      BY <2>7 DEF Raise, GiveBackStep
    <3>2. \A n \in Totals : scope'[n].open = scope[n].open /\ scope'[n].spent = scope[n].spent
      BY <3>1, <1>0 DEF HeldAt
    <3>3. PICK p \in {"failed", "stopped"} : at' = [at EXCEPT ![u] = p]
      BY <2>7 DEF Raise
    <3>4. p \in Places \ {"new"} /\ p \notin {"loop", "turn", "delegate"}
      BY <3>3 DEF Places, Over
    <3> QED BY <3>1, <3>2, <3>3, <3>4, <2>0
  <2>1. CASE TakeStep(u) \/ AskBackend(u) \/ Return(u) \/ Retrieve(u) \/ Release(u)
    <3>1. /\ UNCHANGED <<spent, inner, opened, made>>
          /\ \/ scope' = scope
             \/ HeldAt(u) /\ scope' = [scope EXCEPT ![NodeOf[u]].inFlight = @ + 1]
             \/ HeldAt(u) /\ scope' = [scope EXCEPT ![NodeOf[u]].inFlight = @ - 1]
      BY <2>1 DEF TakeStep, AskBackend, Return, Retrieve, Release, GiveBackStep
    <3>2. \A n \in Totals : scope'[n].open = scope[n].open /\ scope'[n].spent = scope[n].spent
      BY <3>1, <1>0 DEF HeldAt
    <3>3. call[u] # "none" \/ at[u] \in {"loop", "tool", "delegate"}
      BY <2>1 DEF TakeStep, AskBackend, Return, Retrieve, Release, Calls
    <3>4. at[u] \in {"loop", "tool", "delegate"}
      BY <3>3, <1>0
    <3>5. \/ at' = [at EXCEPT ![u] = at[u]]
          \/ at' = [at EXCEPT ![u] = "turn"] /\ at[u] = "loop"
      <4>1. CASE TakeStep(u) \/ AskBackend(u) \/ Return(u) \/ Retrieve(u)
        BY <4>1, <1>0 DEF TakeStep, AskBackend, Return, Retrieve
      <4>2. CASE Release(u)
        BY <4>2 DEF Release
      <4> QED BY <2>1, <4>1, <4>2
    <3>6. PICK p \in {"turn", at[u]} :
             at' = [at EXCEPT ![u] = p] /\ (p = "turn" => at[u] = "loop")
      BY <3>4, <3>5
    <3>7. p \in Places \ {"new"}
      BY <3>4, <3>6 DEF Places, Over
    <3>8. /\ p \in {"loop", "turn"} => at[u] \in {"new", "loop", "turn"}
          /\ p = "delegate" => at[u] = "delegate"
      BY <3>4, <3>6
    <3> QED BY <3>1, <3>2, <3>6, <3>7, <3>8, <2>0
  <2>2. CASE \/ Begin(u) \/ RefuseRun(u) \/ RefuseNode(u) \/ GoRound(u) \/ Finish(u) \/ AskTool(u)
             \/ RunTool(u) \/ Throttle(u)
    <3>1. UNCHANGED <<spent, inner, opened, made, scope>>
      BY <2>2 DEF Begin, RefuseRun, RefuseNode, GoRound, Finish, AskTool, RunTool, Throttle
    <3>2. PICK p \in {"drained", "loop", "stopped", "refused", "finished", "queued", "tool"} :
              at' = [at EXCEPT ![u] = p] /\ (p = "loop" => at[u] \in {"new", "turn"})
      BY <2>2 DEF Begin, RefuseRun, RefuseNode, GoRound, Finish, AskTool, RunTool, Throttle
    <3>3. p \in Places \ {"new"}
      BY <3>2 DEF Places, Over
    <3> QED BY <3>1, <3>2, <3>3, <2>0
  <2>3. CASE Charge(u)
    <3>1. /\ at' = at /\ opened' = opened /\ spent' = spent + 1
          /\ made' = [made EXCEPT ![u] = @ + 1]
          /\ at[u] \in {"loop", "tool", "delegate"}
      BY <2>3, <1>0 DEF Charge
    <3>2. CASE at[u] = "loop"
      <4>1. ChargeScope(NodeOf[u], 1) /\ inner' = inner
        BY <2>3, <3>2 DEF Charge
      <4>2. NothingIsForgotten'
        <5>1. made'[u] - inner'[u] = made[u] - inner[u] + 1
          BY <3>1, <4>1, <1>0
        <5>2. \A v \in Units \ {u} : made'[v] = made[v] /\ inner'[v] = inner[v]
          BY <3>1, <4>1, <1>0
        <5>3. /\ \A m \in Totals : scope[m].spent \in Nat /\ scope'[m].spent \in Nat
              /\ \A m \in Totals : scope'[m].open = scope[m].open
              /\ \A m \in Totals : scope'[m].spent >= scope[m].spent
              /\ NodeOf[u] \in Totals /\ scope[NodeOf[u]].open
                     => scope'[NodeOf[u]].spent >= scope[NodeOf[u]].spent + 1
          BY <4>1, ChargeAdds
        <5> QED BY <5>1, <5>2, <5>3, AccountCovers
      <4> QED BY <3>1, <3>2, <4>1, <4>2, <1>0, <1>a DEF FoldInv
    <3>3. CASE at[u] # "loop"
      <4>1. scope' = scope /\ inner' = [inner EXCEPT ![u] = @ + 1]
        BY <2>3, <3>3 DEF Charge
      <4>2. NothingIsForgotten'
        <5>1. made'[u] - inner'[u] = made[u] - inner[u] + 0
          BY <3>1, <4>1, <1>0
        <5>2. \A v \in Units \ {u} : made'[v] = made[v] /\ inner'[v] = inner[v]
          BY <3>1, <4>1, <1>0
        <5>3. \A m \in Totals : /\ scope[m].spent \in Nat /\ scope'[m].spent \in Nat
                                 /\ scope'[m].open = scope[m].open /\ scope'[m].spent >= scope[m].spent
                                 /\ scope'[m].spent >= scope[m].spent + 0
          BY <4>1, <1>0
        <5> QED BY <5>1, <5>2, <5>3, AccountCovers
      <4> QED BY <3>1, <3>3, <4>1, <4>2, <1>0, <1>a DEF FoldInv
    <3> QED BY <3>2, <3>3
  <2>4. CASE ChargeRetrieval(u)
    <3>1. UNCHANGED <<at, inner, opened, made, scope>> /\ spent' = spent + 1
      BY <2>4 DEF ChargeRetrieval
    <3>2. NothingIsForgotten'
      BY <3>1 DEF FoldInv, NothingIsForgotten, Folded
    <3> QED BY <3>1, <3>2, <1>0, <1>a DEF FoldInv
  <2>5. CASE Delegate(u)
    <3>1. /\ UNCHANGED <<spent, inner, made, scope>> /\ at[u] = "turn"
          /\ at' = [at EXCEPT ![u] = "delegate"] /\ opened' = [opened EXCEPT ![u] = spent]
      BY <2>5 DEF Delegate
    <3>2. NothingIsForgotten'
      BY <3>1 DEF FoldInv, NothingIsForgotten, Folded
    <3> QED BY <3>1, <3>2, <1>0, <1>a DEF FoldInv
  <2>6. CASE EndTool(u) \/ EndDelegate(u)
    <3>1. /\ UNCHANGED <<spent, made>> /\ at[u] \in {"tool", "delegate"}
          /\ at' = [at EXCEPT ![u] = "loop"] /\ inner' = [inner EXCEPT ![u] = 0]
          /\ opened' \in {opened, [opened EXCEPT ![u] = 0]}
      BY <2>6 DEF EndTool, EndDelegate
    <3>2. PICK steps \in Nat : steps >= inner[u] /\ ChargeScope(NodeOf[u], steps)
      <4>1. CASE EndTool(u)
        BY <4>1, <1>0 DEF EndTool
      <4>2. CASE EndDelegate(u)
        <5>1. at[u] = "delegate" /\ ChargeScope(NodeOf[u], spent - opened[u])
          BY <4>2 DEF EndDelegate
        <5>2. spent - opened[u] \in Nat /\ spent - opened[u] >= inner[u]
          BY <5>1, <1>0, <1>a
        <5> QED BY <5>1, <5>2
      <4> QED BY <2>6, <4>1, <4>2
    <3>3. NothingIsForgotten'
      <4>1. made'[u] - inner'[u] = made[u] - inner[u] + inner[u] /\ inner[u] \in Nat
        BY <3>1, <1>0
      <4>2. \A v \in Units \ {u} : made'[v] = made[v] /\ inner'[v] = inner[v]
        BY <3>1, <1>0
      <4>3. /\ \A m \in Totals : scope[m].spent \in Nat /\ scope'[m].spent \in Nat
            /\ \A m \in Totals : scope'[m].open = scope[m].open
            /\ \A m \in Totals : scope'[m].spent >= scope[m].spent
            /\ NodeOf[u] \in Totals /\ scope[NodeOf[u]].open
                   => scope'[NodeOf[u]].spent >= scope[NodeOf[u]].spent + steps
        BY <3>2, ChargeAdds
      <4>4. NodeOf[u] \in Totals /\ scope[NodeOf[u]].open
                => scope'[NodeOf[u]].spent >= scope[NodeOf[u]].spent + inner[u]
        BY <3>2, <4>1, <4>3
      <4> QED BY <4>1, <4>2, <4>3, <4>4, AccountCovers
    <3> QED BY <3>1, <3>3, <1>0, <1>a DEF FoldInv
  <2> QED BY <1>2, <2>1, <2>2, <2>3, <2>4, <2>5, <2>6, <2>7 DEF Steps
<1>3. ASSUME NEW n \in Totals, Open(n) \/ Close(n) PROVE FoldInv'
  <2>1. UNCHANGED <<at, spent, inner, opened, made>>
    BY <1>3 DEF Open, Close
  <2>2. PICK b \in BOOLEAN : scope' = [scope EXCEPT ![n] = [open |-> b, spent |-> 0, inFlight |-> 0]]
    BY <1>3 DEF Open, Close, NoScope
  <2>3. ASSUME NEW m \in Totals, scope'[m].open PROVE scope'[m].spent >= Folded(m)'
    <3>1. Folded(m)' = Folded(m)
      BY <2>1 DEF Folded
    <3>2. CASE m = n
      <4>1. Open(n)
        BY <1>3, <2>3, <3>2, <1>0 DEF Close, NoScope
      <4>2. \A u \in Of(n) : made[u] = 0 /\ inner[u] = 0
        BY <4>1, <1>a DEF Open, Of
      <4>3. CallsOf(n, [u \in Of(n) |-> made[u] - inner[u]]) = {}
        BY <4>2 DEF CallsOf
      <4>4. Folded(n) = 0
        BY <4>3, FS_EmptySet DEF Folded
      <4> QED BY <2>2, <3>1, <3>2, <4>4, <1>0
    <3>3. CASE m # n
      BY <2>2, <2>3, <3>1, <3>3, <1>0 DEF FoldInv, NothingIsForgotten
    <3> QED BY <3>2, <3>3
  <2> QED BY <2>1, <2>3, <1>a DEF FoldInv, NothingIsForgotten
<1> QED BY <1>1, <1>2, <1>3 DEF Next

LEMMA FoldsAlways == Spec => []FoldInv
BY PlacesAlways, BudgetAlways, OwnAlways, AccountsAlways, InitFold, NextFold, PTL DEF Spec

(* An open account holds every call of its node that is over, for any items,  *)
(* nodes and numbers of inner calls, whatever overlaps or fails.             *)
THEOREM AccountsHoldTheirCalls == Spec => []NothingIsForgotten
<1>1. FoldInv => NothingIsForgotten
  BY DEF FoldInv
<1> QED BY <1>1, FoldsAlways, PTL

(* No item asks its model once the calls that are over and the calls of loops *)
(* on their way have used up the total its node declared, for any totals.    *)
THEOREM TotalsBind == Spec => TotalBindsEveryItem
<1>1. ASSUME OwnInv, AccountInv, FoldInv, NEW u \in Units, TakeStep(u), HeldAt(u),
             NEW n, n = NodeOf[u]
      PROVE  Folded(n) + Cardinality(AskingLoops(n)) < NodeMax[n]
  <2>1. n \in Totals /\ scope[n].open
    BY <1>1 DEF HeldAt
  <2>2. NodeMax[n] \in Nat /\ scope[n].spent \in Nat
    BY <2>1, <1>1, LimitsAssumption DEF AccountInv
  <2>3. scope[n].spent >= Folded(n) /\ Folded(n) \in Nat
    BY <2>1, <1>1, FoldedIsNat DEF FoldInv, NothingIsForgotten
  <2>4. scope[n].inFlight = Cardinality(Held(n))
    BY <2>1, <1>1 DEF AccountInv
  <2>5. AskingLoops(n) \subseteq Held(n) /\ Held(n) \subseteq Units
    BY DEF AskingLoops, Held, Of
  <2>6. /\ Cardinality(AskingLoops(n)) \in Nat /\ Cardinality(Held(n)) \in Nat
        /\ Cardinality(AskingLoops(n)) <= Cardinality(Held(n))
    BY <2>5, FiniteUnits, FS_Subset
  <2>7. ~(scope[n].spent + scope[n].inFlight >= NodeMax[n])
    BY <1>1 DEF TakeStep, NodeExceeded
  <2> QED BY <2>2, <2>3, <2>4, <2>6, <2>7
<1>2. OwnInv /\ AccountInv /\ FoldInv
          => [\A u \in Units :
                 (TakeStep(u) /\ HeldAt(u))
                     => LET n == NodeOf[u]
                        IN  Folded(n) + Cardinality(AskingLoops(n)) < NodeMax[n]]_vars
  BY <1>1
<1> QED BY <1>2, OwnAlways, AccountsAlways, FoldsAlways, PTL DEF TotalBindsEveryItem
=============================================================================
