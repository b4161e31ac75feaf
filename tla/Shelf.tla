-------------------------------- MODULE Shelf --------------------------------
(***************************************************************************)
(* The questions one run left for somebody to answer later, and the calls  *)
(* of `answer_shelved` that answer them (records/shelf.py,                 *)
(* pipeline/answering.py, Pipeline.answer_shelved and the end of           *)
(* Pipeline._drive). Each call is a thread or a process of its own on the  *)
(* run's directory. A shelf is the set of questions it holds, and an empty *)
(* one is no file. A file is written beside and renamed into place, so it  *)
(* is read whole or not at all.                                            *)
(***************************************************************************)
EXTENDS Naturals

CONSTANTS Questions,
          Calls,      \* the calls of answer_shelved
          Attempts,   \* HELD_ATTEMPTS: how often a call looks for its question
          MaxStops    \* bound: how often the asking run suspends

ASSUME BoundsAssumption == Attempts \in Nat \ {0} /\ MaxStops \in Nat

VARIABLES
  shelf,     \* shelf.json
  claim,     \* shelf.claimed.json
  wants,     \* the question each call is for
  status,    \* where each call is
  tries,     \* how often it has looked
  held,      \* the shelf it read when it claimed it
  run,       \* the asking run: "driving", "suspended" or "closed"
  noted,     \* RunContext._shelved of its present drive
  stops,     \* how often it suspended
  asked,     \* history: every question it left
  answers    \* history: how many answers each question has on record

calls == <<wants, tries>>
asking == <<run, noted, stops, asked>>
vars == <<shelf, claim, calls, status, held, asking, answers>>

Is(s) == {c \in Calls : status[c] \in s}

Becomes(c, s) == status' = [status EXCEPT ![c] = s]

Init ==
  /\ shelf = {} /\ claim = {}
  /\ wants \in [Calls -> Questions]
  /\ status = [c \in Calls |-> "looking"]
  /\ tries = [c \in Calls |-> 1]
  /\ held = [c \in Calls |-> {}]
  /\ run = "driving" /\ noted = {} /\ stops = 0 /\ asked = {}
  /\ answers = [q \in Questions |-> 0]

-----------------------------------------------------------------------------
(* The run that asks *)

NoteShelved(q) ==
  /\ run = "driving" /\ q \notin asked
  /\ noted' = noted \union {q} /\ asked' = asked \union {q}
  /\ UNCHANGED <<shelf, claim, calls, status, held, run, stops, answers>>

\* However a drive ends, the questions of this drive are what the shelf holds.
CloseRun ==
  /\ run = "driving"
  /\ shelf' = noted
  /\ \/ run' = "closed" /\ UNCHANGED stops
     \/ stops < MaxStops /\ run' = "suspended" /\ stops' = stops + 1
  /\ UNCHANGED <<claim, calls, status, held, noted, asked, answers>>

\* The questions are not among the counters a resumed run restores.
ResumeRun ==
  /\ run = "suspended"
  /\ run' = "driving" /\ noted' = {}
  /\ UNCHANGED <<shelf, claim, calls, status, held, stops, asked, answers>>

-----------------------------------------------------------------------------
(* A call of answer_shelved *)

\* Mutant of LookAgain: one look more than HELD_ATTEMPTS.
LookOnceMore(c) ==
  IF tries[c] <= Attempts
  THEN tries' = [tries EXCEPT ![c] = @ + 1] /\ Becomes(c, "looking")
  ELSE Becomes(c, "refused") /\ UNCHANGED tries

\* Mutant of LookAgain: the looks are not counted.
LookForEver(c) == Becomes(c, "looking") /\ UNCHANGED tries

\* Nothing found: look again a little later, or refuse.
LookAgain(c) ==
  IF tries[c] < Attempts
  THEN tries' = [tries EXCEPT ![c] = @ + 1] /\ Becomes(c, "looking")
  ELSE Becomes(c, "refused") /\ UNCHANGED tries

\* What is outstanding is read, and no file is taken yet.
Look(c) ==
  /\ status[c] = "looking"
  /\ IF wants[c] \in shelf THEN Becomes(c, "found") /\ UNCHANGED tries ELSE LookAgain(c)
  /\ UNCHANGED <<shelf, claim, wants, held, asking, answers>>

\* Mutant of Claim: the shelf is read where it is.
ClaimByReading(c) ==
  /\ status[c] = "found"
  /\ IF shelf # {}
     THEN claim' = shelf /\ Becomes(c, "claimed") /\ UNCHANGED tries
     ELSE LookAgain(c) /\ UNCHANGED claim
  /\ UNCHANGED <<shelf, wants, held, asking, answers>>

\* claim_shelf: whatever is on the shelf by now is renamed away.
Claim(c) ==
  /\ status[c] = "found"
  /\ IF shelf # {}
     THEN claim' = shelf /\ shelf' = {} /\ Becomes(c, "claimed") /\ UNCHANGED tries
     ELSE LookAgain(c) /\ UNCHANGED <<shelf, claim>>
  /\ UNCHANGED <<wants, held, asking, answers>>

\* What the claim holds is read. Where there is no file the read raises.
Read(c) ==
  /\ status[c] = "claimed"
  /\ IF claim # {}
     THEN held' = [held EXCEPT ![c] = claim] /\ Becomes(c, "holding")
     ELSE UNCHANGED held /\ Becomes(c, "refused")
  /\ UNCHANGED <<shelf, claim, calls, asking, answers>>

\* Refused before the answer was recorded: the claim is put back if it is there.
Refuse(c) ==
  /\ status[c] = "holding"
  /\ IF claim # {} THEN shelf' = claim /\ claim' = {} ELSE UNCHANGED <<shelf, claim>>
  /\ Becomes(c, "refused")
  /\ UNCHANGED <<calls, held, asking, answers>>

Record(c) ==
  /\ status[c] = "holding"
  /\ answers' = [answers EXCEPT ![wants[c]] = @ + 1]
  /\ Becomes(c, "recorded")
  /\ UNCHANGED <<shelf, claim, calls, held, asking>>

\* Mutant of WriteWhatIsLeft: the answered question is written back too.
WriteAllBack(c) ==
  /\ status[c] = "recorded"
  /\ shelf' = held[c]
  /\ Becomes(c, "settling")
  /\ UNCHANGED <<claim, calls, held, asking, answers>>

\* settle_shelf: what is left is written, then the claim is dropped.
WriteWhatIsLeft(c) ==
  /\ status[c] = "recorded"
  /\ shelf' = held[c] \ {wants[c]}
  /\ Becomes(c, "settling")
  /\ UNCHANGED <<claim, calls, held, asking, answers>>

DropClaim(c) ==
  /\ status[c] = "settling"
  /\ claim' = {}
  /\ Becomes(c, "answered")
  /\ UNCHANGED <<shelf, calls, held, asking, answers>>

\* The process of the call is killed. One that has claimed nothing yet leaves
\* no more behind than a call that was refused.
Crash(c) ==
  /\ status[c] \in {"claimed", "holding", "recorded", "settling"}
  /\ Becomes(c, "gone")
  /\ UNCHANGED <<shelf, claim, calls, held, asking, answers>>

Answering(c) ==
  Look(c) \/ Claim(c) \/ Read(c) \/ Refuse(c) \/ Record(c) \/ WriteWhatIsLeft(c) \/ DropClaim(c)

Next ==
  \/ CloseRun \/ ResumeRun
  \/ \E q \in Questions : NoteShelved(q)
  \/ \E c \in Calls : Answering(c) \/ Crash(c)

Spec == Init /\ [][Next]_vars

\* A call that was made runs on.
FairSpec == Spec /\ \A c \in Calls : WF_vars(Answering(c))

-----------------------------------------------------------------------------
(* What the shelf promises *)

TypeOK ==
  /\ shelf \subseteq Questions /\ claim \subseteq Questions
  /\ wants \in [Calls -> Questions]
  /\ status \in [Calls -> {"looking", "found", "claimed", "holding", "recorded",
                           "settling", "answered", "refused", "gone"}]
  /\ tries \in [Calls -> 1..Attempts]
  /\ held \in [Calls -> SUBSET Questions]
  /\ run \in {"driving", "suspended", "closed"} /\ stops \in 0..MaxStops
  /\ noted \subseteq asked /\ asked \subseteq Questions
  /\ answers \in [Questions -> Nat]

Answered == {q \in Questions : answers[q] > 0}

\* The end of a resumed drive writes the shelf whoever holds it.
Resumed == stops > (IF run = "suspended" THEN 1 ELSE 0)

\* No two calls hold the same question, though a shelf is written back while
\* others wait for it and one call's claim may be renamed over another's
\* (claim_shelf: "so nothing else answers the same question"), until the run
\* that asked is resumed.
HeldByOne ==
  \/ Resumed
  \/ \A b, c \in Is({"holding", "recorded"}) : b # c => held[b] \intersect held[c] = {}

\* A question with an answer on record does not come back on the shelf, with
\* what a refused call puts back or what an answering one leaves
\* (answer_shelved: "once it is recorded the question leaves the shelf"), until
\* the run that asked is resumed.
AnsweredIsOff == Resumed \/ shelf \intersect Answered = {}

\* A call ends: it does not wait for ever on the shelf others hold in turn
\* (_claim_the_question: a lookup is tried again HELD_ATTEMPTS times).
CallsEnd == \A c \in Calls : <>(status[c] \in {"answered", "refused", "gone"})

\* docs/product.md, 4.3: "Two workers cannot answer one question twice".
AnsweredOnce == \A q \in Questions : answers[q] <= 1

\* A question that was left is outstanding until it is answered
\* (Pipeline._drive: "outlives the run that asked it").
NoQuestionIsLost ==
  Is({"gone"}) = {} =>
    asked \subseteq Answered \union shelf \union claim
      \union (IF run = "driving" THEN noted ELSE {})
      \union UNION {held[c] : c \in Is({"holding", "recorded"})}
=============================================================================
