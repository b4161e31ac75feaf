----------------------------- MODULE ShelfProofs -----------------------------
(***************************************************************************)
(* What holds of a shelf for any questions and any number of calls, until  *)
(* the run that asked is resumed. What is outstanding is then in one place *)
(* at a time: on the shelf, or with the one call that took it. A claim     *)
(* left behind by a call that is settling, or was killed, is of no use to  *)
(* anybody: only the call that took the shelf reads or puts back a claim,  *)
(* and taking it overwrote what was there.                                 *)
(***************************************************************************)
EXTENDS Shelf, TLAPS

Takers == Is({"claimed", "holding", "recorded"})

OnePlace ==
  /\ run = "driving" => shelf = {} /\ claim = {} /\ Takers = {} /\ Answered = {}
  /\ \A b, c \in Takers : b = c
  /\ shelf # {} => Takers = {}
  /\ Is({"claimed", "holding"}) # {} => claim \intersect Answered = {}
  /\ \A c \in Is({"holding"}) : held[c] \intersect Answered = {}
  /\ \A c \in Is({"recorded"}) : held[c] \intersect Answered \subseteq {wants[c]}
  /\ shelf \intersect Answered = {}

ShelfInv ==
  /\ run = "suspended" => stops > 0
  /\ Resumed \/ OnePlace

LEMMA InitShelf == Init => TypeOK /\ ShelfInv
<1> SUFFICES ASSUME Init PROVE TypeOK /\ ShelfInv
  OBVIOUS
<1>1. TypeOK
  BY BoundsAssumption DEF Init, TypeOK
<1>2. OnePlace
  BY DEF Init, OnePlace, Takers, Is, Answered
<1> QED BY <1>1, <1>2 DEF Init, ShelfInv

LEMMA NextType == TypeOK /\ [Next]_vars => TypeOK'
<1> SUFFICES ASSUME TypeOK, [Next]_vars PROVE TypeOK'
  OBVIOUS
<1> USE DEF TypeOK, Becomes, calls, asking
<1>1. CASE CloseRun
  BY <1>1, BoundsAssumption DEF CloseRun
<1>2. CASE ResumeRun
  BY <1>2 DEF ResumeRun
<1>3. ASSUME NEW q \in Questions, NoteShelved(q) PROVE TypeOK'
  BY <1>3 DEF NoteShelved
<1>4. ASSUME NEW c \in Calls, LookAgain(c)
      PROVE  /\ tries' \in [Calls -> 1..Attempts]
             /\ status' = [status EXCEPT ![c] = "looking"]
                \/ status' = [status EXCEPT ![c] = "refused"]
  BY <1>4, BoundsAssumption DEF LookAgain
<1>5. ASSUME NEW c \in Calls, Answering(c) \/ Crash(c) PROVE TypeOK'
  <2>1. CASE Look(c)
    BY <2>1, <1>4 DEF Look
  <2>2. CASE Claim(c)
    BY <2>2, <1>4 DEF Claim
  <2>3. CASE Read(c)
    BY <2>3 DEF Read
  <2>4. CASE Refuse(c)
    BY <2>4 DEF Refuse
  <2>5. CASE Record(c)
    BY <2>5 DEF Record
  <2>6. CASE WriteWhatIsLeft(c)
    BY <2>6 DEF WriteWhatIsLeft
  <2>7. CASE DropClaim(c) \/ Crash(c)
    BY <2>7 DEF DropClaim, Crash
  <2> QED BY <1>5, <2>1, <2>2, <2>3, <2>4, <2>5, <2>6, <2>7 DEF Answering
<1>6. CASE UNCHANGED vars
  BY <1>6 DEF vars
<1> QED BY <1>1, <1>2, <1>3, <1>5, <1>6 DEF Next

LEMMA NextShelf == TypeOK /\ ShelfInv /\ [Next]_vars => ShelfInv'
<1> SUFFICES ASSUME TypeOK, ShelfInv, [Next]_vars PROVE ShelfInv'
  OBVIOUS
<1>1. (run = "suspended" => stops > 0)'
  BY DEF Next, vars, asking, TypeOK, ShelfInv, CloseRun, ResumeRun, NoteShelved, Answering,
     Look, Claim, Read, Refuse, Record, WriteWhatIsLeft, DropClaim, Crash
<1>2. CASE Resumed
  <2>1. Resumed'
    BY <1>2 DEF Next, vars, asking, TypeOK, CloseRun, ResumeRun, NoteShelved, Answering,
       Look, Claim, Read, Refuse, Record, WriteWhatIsLeft, DropClaim, Crash, Resumed
  <2> QED BY <1>1, <2>1 DEF ShelfInv
<1>3. CASE ~Resumed
  <2>1. OnePlace
    BY <1>3 DEF ShelfInv
  <2>2. CASE ResumeRun
    <3>1. Resumed'
      BY <2>2 DEF ResumeRun, Resumed, ShelfInv, TypeOK
    <3> QED BY <1>1, <3>1 DEF ShelfInv
  <2> USE DEF OnePlace, Takers, Is, Answered, Becomes, calls, asking, TypeOK
  <2>3. ASSUME CloseRun PROVE OnePlace'
    BY <2>1, <2>3 DEF CloseRun
  <2>4. ASSUME NEW q \in Questions, NoteShelved(q) PROVE OnePlace'
    BY <2>1, <2>4 DEF NoteShelved
  <2>5. ASSUME NEW c \in Calls, LookAgain(c)
        PROVE  status' = [status EXCEPT ![c] = "looking"]
               \/ status' = [status EXCEPT ![c] = "refused"]
    BY <2>5 DEF LookAgain
  <2>6. ASSUME NEW c \in Calls, Answering(c) \/ Crash(c) PROVE OnePlace'
    <3>1. CASE Look(c)
      BY <2>1, <2>5, <3>1 DEF Look
    <3>2. CASE Claim(c)
      BY <2>1, <2>5, <3>2 DEF Claim
    <3>3. CASE Read(c)
      BY <2>1, <3>3 DEF Read
    <3>4. CASE Refuse(c)
      BY <2>1, <3>4 DEF Refuse
    <3>5. CASE Record(c)
      BY <2>1, <3>5 DEF Record
    <3>6. CASE WriteWhatIsLeft(c)
      BY <2>1, <3>6 DEF WriteWhatIsLeft
    <3>7. CASE DropClaim(c)
      BY <2>1, <3>7 DEF DropClaim
    <3>8. CASE Crash(c)
      BY <2>1, <3>8 DEF Crash
    <3> QED BY <2>6, <3>1, <3>2, <3>3, <3>4, <3>5, <3>6, <3>7, <3>8 DEF Answering
  <2>7. ASSUME UNCHANGED vars PROVE OnePlace'
    BY <2>1, <2>7 DEF vars
  <2> QED BY <1>1, <2>2, <2>3, <2>4, <2>6, <2>7 DEF Next, ShelfInv
<1> QED BY <1>2, <1>3

LEMMA Inductive == Spec => [](TypeOK /\ ShelfInv)
<1>1. TypeOK /\ ShelfInv /\ [Next]_vars => (TypeOK /\ ShelfInv)'
  BY NextType, NextShelf
<1> QED BY InitShelf, <1>1, PTL DEF Spec

\* A shelf, its claim and what the calls hold are questions the run left, and a
\* call looks for its question no more than HELD_ATTEMPTS times.
THEOREM TypeCorrect == Spec => []TypeOK
BY Inductive, PTL

\* However many calls answer the shelf of a run, no two of them hold the same
\* question before that run is resumed.
THEOREM OneHolder == Spec => []HeldByOne
<1>1. TypeOK /\ ShelfInv => HeldByOne
  BY DEF ShelfInv, OnePlace, HeldByOne, Takers, Is
<1> QED BY Inductive, <1>1, PTL

\* A question with an answer on record does not come back on the shelf before
\* the run that asked it is resumed, whichever calls refuse or are killed.
THEOREM AnsweredStaysOff == Spec => []AnsweredIsOff
<1>1. TypeOK /\ ShelfInv => AnsweredIsOff
  BY DEF ShelfInv, OnePlace, AnsweredIsOff
<1> QED BY Inductive, <1>1, PTL
=============================================================================
