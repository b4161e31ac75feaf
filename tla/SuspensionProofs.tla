-------------------------- MODULE SuspensionProofs --------------------------
(***************************************************************************)
(* What holds of a suspended run for any set of workers and any number of  *)
(* stops. The state of a run is at any time in one place: in one of the    *)
(* two files, or with the worker that drives it. FilesInv says so, and     *)
(* everything else follows from it.                                        *)
(***************************************************************************)
EXTENDS Suspension, TLAPS

Active == Is({"claimed", "holding", "driving"})

FilesInv ==
  /\ \A v, w \in Active : v = w
  /\ suspension # 0 => claimed = 0 /\ Active = {}
  /\ claimed # 0 => Is({"driving"}) = {}
  /\ Is({"claimed", "holding"}) # {} => claimed # 0
  /\ suspension \in {0, last_stop} /\ claimed \in {0, last_stop}
  /\ GoesOnFromTheLastStop
  /\ \A v, w \in Is({"writing"}) : v = w
  /\ ~whole => Is({"holding", "driving"}) = {}
  /\ Is({"writing"}) # {} => ~whole
  /\ over => suspension = 0 /\ claimed = 0 /\ Active = {}

LEMMA TypesHold == Spec => []Types
<1>1. Init => Types
  <2> SUFFICES ASSUME Init PROVE Types
    OBVIOUS
  <2>1. PICK first \in Workers :
          status = [w \in Workers |-> IF w = first THEN "driving" ELSE "idle"]
    BY DEF Init
  <2> QED BY <2>1 DEF Init, Types
<1>2. Types /\ [Next]_vars => Types'
  <2> SUFFICES ASSUME Types, [Next]_vars PROVE Types'
    OBVIOUS
  <2> USE DEF Types, Becomes
  <2>1. ASSUME NEW w \in Workers, WorkerStep(w) PROVE Types'
    <3>1. CASE Claim(w)
      BY <3>1 DEF Claim
    <3>2. CASE Read(w)
      BY <3>2 DEF Read
    <3>3. CASE Refuse(w)
      BY <3>3 DEF Refuse, Release
    <3>4. CASE Interrupt(w)
      BY <3>4 DEF Interrupt
    <3>5. CASE Drive(w)
      BY <3>5 DEF Drive
    <3>6. CASE Stops(w)
      <4>1. /\ WriteState(w, last_stop + 1) /\ last_stop' = last_stop + 1
            /\ UNCHANGED <<claimed, state, over, abandoned>>
        BY <3>6 DEF Stops
      <4>2. last_stop + 1 \in Nat
        OBVIOUS
      <4>3. /\ suspension' = last_stop + 1 /\ whole' = FALSE
            /\ status' = [status EXCEPT ![w] = "writing"]
        BY <4>1 DEF WriteState
      <4> QED BY <4>1, <4>2, <4>3
    <3>7. CASE Fails(w)
      <4>1. CASE state[w] # 0
        BY <3>7, <4>1 DEF Fails, WriteState
      <4>2. CASE state[w] = 0
        BY <3>7, <4>2 DEF Fails
      <4> QED BY <4>1, <4>2
    <3>8. CASE Completes(w)
      BY <3>8 DEF Completes
    <3>9. CASE Written(w) \/ Crash(w)
      BY <3>9 DEF Written, Crash
    <3> QED BY <2>1, <3>1, <3>2, <3>3, <3>4, <3>5, <3>6, <3>7, <3>8, <3>9
            DEF WorkerStep, Resolve
  <2>2. CASE UNCHANGED vars
    BY <2>2 DEF vars
  <2> QED BY <2>1, <2>2 DEF Next
<1> QED BY <1>1, <1>2, PTL DEF Spec

LEMMA InitFiles == Init => FilesInv /\ StaysResumable
<1> SUFFICES ASSUME Init PROVE FilesInv /\ StaysResumable
  OBVIOUS
<1>1. PICK first \in Workers :
        status = [w \in Workers |-> IF w = first THEN "driving" ELSE "idle"]
  BY DEF Init
<1> QED BY <1>1 DEF Init, FilesInv, StaysResumable, GoesOnFromTheLastStop, Active, Is

LEMMA NextFiles ==
  Types /\ FilesInv /\ StaysResumable /\ [Next]_vars => FilesInv' /\ StaysResumable'
<1> SUFFICES ASSUME Types, FilesInv, StaysResumable, [Next]_vars
             PROVE  FilesInv' /\ StaysResumable'
  OBVIOUS
<1> USE DEF Types, FilesInv, StaysResumable, GoesOnFromTheLastStop, Active, Is, Becomes
<1>1. ASSUME NEW w \in Workers, WorkerStep(w)
      PROVE  FilesInv' /\ StaysResumable'
  <2>1. CASE Claim(w)
    BY <2>1 DEF Claim
  <2>2. CASE Read(w)
    BY <2>2 DEF Read
  <2>3. CASE Refuse(w)
    BY <2>3 DEF Refuse, Release
  <2>4. CASE Interrupt(w)
    BY <2>4 DEF Interrupt
  <2>5. CASE Drive(w)
    BY <2>5 DEF Drive
  <2>6. CASE Stops(w)
    BY <2>6 DEF Stops, WriteState
  <2>7. CASE Fails(w)
    BY <2>7 DEF Fails, WriteState
  <2>8. CASE Completes(w)
    BY <2>8 DEF Completes
  <2>9. CASE Written(w)
    BY <2>9 DEF Written
  <2>10. CASE Crash(w)
    BY <2>10 DEF Crash
  <2> QED BY <1>1, <2>1, <2>2, <2>3, <2>4, <2>5, <2>6, <2>7, <2>8, <2>9, <2>10
          DEF WorkerStep, Resolve
<1>2. CASE UNCHANGED vars
  BY <1>2 DEF vars
<1> QED BY <1>1, <1>2 DEF Next

\* In every reachable state the variables have their types, and the state of
\* the run is never under both of its names.
THEOREM TypeCorrect == Spec => []TypeOK
<1>1. Types /\ FilesInv /\ StaysResumable /\ [Next]_vars
        => FilesInv' /\ StaysResumable'
  BY NextFiles
<1>2. Types /\ FilesInv => TypeOK
  BY DEF FilesInv, TypeOK, Types
<1> QED BY TypesHold, InitFiles, <1>1, <1>2, PTL DEF Spec

\* Whoever claims, refuses, fails and stops again, at most one worker drives
\* the run.
THEOREM NeverTwoDrivers == Spec => []OneDriver
<1>1. Types /\ FilesInv /\ StaysResumable /\ [Next]_vars
        => FilesInv' /\ StaysResumable'
  BY NextFiles
<1>2. FilesInv => OneDriver
  BY DEF FilesInv, OneDriver, Active, Is
<1> QED BY TypesHold, InitFiles, <1>1, <1>2, PTL DEF Spec

\* Every resume goes on from the stop the run last came to.
THEOREM ResumesGoOn == Spec => []GoesOnFromTheLastStop
<1>1. Types /\ FilesInv /\ StaysResumable /\ [Next]_vars
        => FilesInv' /\ StaysResumable'
  BY NextFiles
<1>2. FilesInv => GoesOnFromTheLastStop
  BY DEF FilesInv
<1> QED BY TypesHold, InitFiles, <1>1, <1>2, PTL DEF Spec

\* A run that is not over is driven or can be resumed, unless a process was
\* killed or interrupted while it held the claim.
THEOREM RunsStayResumable == Spec => []StaysResumable
<1>1. Types /\ FilesInv /\ StaysResumable /\ [Next]_vars
        => FilesInv' /\ StaysResumable'
  BY NextFiles
<1> QED BY TypesHold, InitFiles, <1>1, PTL DEF Spec

-----------------------------------------------------------------------------
(* The files implement one run *)

LEMMA InitMaps == Init => Run!Init
<1> SUFFICES ASSUME Init PROVE Run!Init
  OBVIOUS
<1>1. Is({"driving"}) # {}
  BY DEF Init, Is
<1> QED BY <1>1 DEF Init, Run!Init, Life

LEMMA NextMaps ==
  Types /\ FilesInv /\ [Next]_vars => [Run!Next]_(Run!vars)
<1> SUFFICES ASSUME Types, FilesInv, [Next]_vars PROVE [Run!Next]_(Run!vars)
  OBVIOUS
<1> USE DEF Types, FilesInv, GoesOnFromTheLastStop, Active, Is, Becomes, Life, Stopped
<1>1. ASSUME NEW w \in Workers, WorkerStep(w)
      PROVE  [Run!Next]_(Run!vars)
  <2>1. CASE Claim(w)
    <3>1. Life' = Life /\ last_stop' = last_stop
      BY <2>1 DEF Claim
    <3> QED BY <3>1 DEF Run!vars
  <2>2. CASE Read(w)
    <3>1. Life' = Life /\ last_stop' = last_stop
      BY <2>2 DEF Read
    <3> QED BY <3>1 DEF Run!vars
  <2>3. CASE Refuse(w)
    <3>1. Life' = Life /\ last_stop' = last_stop
      BY <2>3 DEF Refuse, Release
    <3> QED BY <3>1 DEF Run!vars
  <2>4. CASE Interrupt(w)
    <3>1. Life \in {"stopped", "lost"} /\ Life' = "lost" /\ last_stop' = last_stop
      BY <2>4 DEF Interrupt
    <3> QED BY <3>1 DEF Run!vars, Run!Next, Run!Lose
  <2>5. CASE Drive(w)
    <3>1. Life = "stopped" /\ Life' = "driven" /\ last_stop' = last_stop
      BY <2>5 DEF Drive
    <3> QED BY <3>1 DEF Run!Next, Run!GoOn
  <2>6. CASE Stops(w)
    <3>1. Life = "driven" /\ last_stop' = last_stop + 1
      BY <2>6 DEF Stops
    <3>2. Life' = "stopped"
      BY <2>6 DEF Stops, WriteState
    <3> QED BY <3>1, <3>2 DEF Run!Next, Run!Stop
  <2>7. CASE Fails(w)
    <3>1. Life = "driven" /\ last_stop' = last_stop /\ state[w] = last_stop
      BY <2>7 DEF Fails
    <3>2. CASE state[w] # 0
      <4>1. Life' = "stopped"
        BY <2>7, <3>2 DEF Fails, WriteState
      <4> QED BY <3>1, <3>2, <4>1 DEF Run!Next, Run!PutBack
    <3>3. CASE state[w] = 0
      <4>1. Life' = "over"
        BY <2>7, <3>3 DEF Fails
      <4> QED BY <3>1, <4>1 DEF Run!Next, Run!End
    <3> QED BY <3>2, <3>3
  <2>8. CASE Completes(w)
    <3>1. Life = "driven" /\ Life' = "over" /\ last_stop' = last_stop
      BY <2>8 DEF Completes
    <3> QED BY <3>1 DEF Run!Next, Run!End
  <2>9. CASE Written(w)
    <3>1. Life' = Life /\ last_stop' = last_stop
      BY <2>9 DEF Written
    <3> QED BY <3>1 DEF Run!vars
  <2>10. CASE Crash(w)
    <3>1. last_stop' = last_stop
      BY <2>10 DEF Crash
    <3>2. Life' = Life \/ (Life \in {"driven", "stopped"} /\ Life' = "lost")
      BY <2>10 DEF Crash
    <3> QED BY <3>1, <3>2 DEF Run!vars, Run!Next, Run!Lose
  <2> QED BY <1>1, <2>1, <2>2, <2>3, <2>4, <2>5, <2>6, <2>7, <2>8, <2>9, <2>10
          DEF WorkerStep, Resolve
<1>2. CASE UNCHANGED vars
  BY <1>2 DEF vars, Run!vars
<1> QED BY <1>1, <1>2 DEF Next

\* What the workers do with the two files is what RunLife says of one run.
THEOREM Implements == Spec => IsOneRun
<1>1. Types /\ FilesInv /\ StaysResumable /\ [Next]_vars
        => FilesInv' /\ StaysResumable'
  BY NextFiles
<1> QED BY TypesHold, InitFiles, InitMaps, NextMaps, <1>1, PTL
        DEF Spec, IsOneRun, Run!Spec
=============================================================================
