--------------------------- MODULE EvaluationProofs ---------------------------
(***************************************************************************)
(* For any rollouts, turns, threads and number of attempts: a rollout that is *)
(* one run is never run into a trajectory it finds, and an evaluation that   *)
(* reports has the numbers of one that ran through, spoiled rollouts apart.   *)
(***************************************************************************)
EXTENDS Evaluation, TLAPS

Endings == {"none", "completed", "error", "suspended"}

TypesInv ==
    /\ phase \in {"running", "over", "raised", "killed", "refused"}
    /\ job \in [Rollouts -> {"queued", "running", "between", "ended", "raised", "cancelled",
                             "seen", "resumed"}]
    /\ turn \in [Rollouts -> Nat]
    /\ result \in [Rollouts -> {"none", "scored", "failed"}]
    /\ stopping \in BOOLEAN
    /\ dir \in [Places -> [runs : Nat, ended : Endings]]
    /\ attempts \in 1 .. MaxAttempts
    /\ fails \in [Rollouts -> Nat \ {0}] /\ \A r \in Rollouts : fails[r] \in Failings[r]
    /\ spoiled \subseteq Rollouts

(* Where a rollout is in its turns: none it has behind it failed. *)
TurnsInv ==
    \A r \in Rollouts :
        /\ turn[r] <= Turns[r]
        /\ job[r] \in {"queued", "resumed", "cancelled"} => turn[r] = 0
        /\ job[r] \in Busy => 1 <= turn[r] /\ turn[r] <= fails[r]
        /\ job[r] = "between" => turn[r] < Turns[r] /\ turn[r] < fails[r]

(* An attempt runs a turn once. *)
CountInv ==
    \A r \in Rollouts : \A t \in 1 .. Turns[r] :
        /\ dir[<<r, t>>].runs <= attempts
        /\ phase = "running" /\ turn[r] < t => dir[<<r, t>>].runs < attempts

(* What is queued has no trajectory. *)
QueuedInv ==
    \A r \in Rollouts : Turns[r] = 1 =>
        /\ dir[<<r, 1>>].runs <= 1
        /\ phase = "running" /\ job[r] = "queued" => dir[<<r, 1>>].runs = 0

(* Unless spoiled, a run on disk has ended as its rollout does. *)
RightEnd(r) == IF fails[r] = 1 THEN "error" ELSE "completed"
IsKept(r) ==
    /\ Turns[r] = 1 /\ r \notin spoiled => dir[<<r, 1>>].ended \in {"none", RightEnd(r)}
    /\ job[r] \in {"ended", "seen"} => IsRight(r)
    /\ phase \in {"running", "over"} /\ job[r] = "resumed" /\ r \notin spoiled => IsRight(r)
    /\ phase = "over" => job[r] \in {"seen", "resumed"}
RightInv == \A r \in Rollouts : IsKept(r)

LEMMA InPlaces ==
    /\ \A r \in Rollouts : \A t \in 1 .. Turns[r] : <<r, t>> \in Places
    /\ \A p \in Places : /\ p = <<p[1], p[2]>> /\ p[1] \in Rollouts
                          /\ p[2] \in 1 .. Turns[p[1]]
    /\ \A r \in Rollouts : <<r, 1>> \in Places /\ Turns[r] \in Nat \ {0}
<1>1. \A r \in Rollouts : Turns[r] \in Nat \ {0}
  BY RolloutsAssumption
<1>2. \A r \in Rollouts : \A t \in 1 .. Turns[r] : <<r, t>> \in Places
  BY DEF Places
<1>3. ASSUME NEW p \in Places
      PROVE  p = <<p[1], p[2]>> /\ p[1] \in Rollouts /\ p[2] \in 1 .. Turns[p[1]]
  <2>1. PICK r \in Rollouts : p \in {<<r, t>> : t \in 1 .. Turns[r]}
    BY DEF Places
  <2>2. PICK t \in 1 .. Turns[r] : p = <<r, t>>
    BY <2>1
  <2> QED BY <2>2
<1> QED BY <1>1, <1>2, <1>3

(* A run begins in a directory, or ends there. *)
LEMMA DirsWritten ==
    ASSUME TypesInv, NEW r, NEW t, Writes(r, t)
    PROVE  /\ dir' \in [Places -> [runs : Nat, ended : Endings]]
           /\ \A q \in Places :
                 /\ dir'[q].runs = IF q = <<r, t>> THEN dir[q].runs + 1 ELSE dir[q].runs
                 /\ dir'[q].ended = IF q = <<r, t>> THEN "none" ELSE dir[q].ended
<1>1. \A q \in Places : dir'[q] = IF q = <<r, t>> THEN [runs |-> dir[q].runs + 1, ended |-> "none"]
                                   ELSE dir[q]
  BY DEF TypesInv, Writes
<1>2. DOMAIN dir' = Places /\ dir' = [q \in Places |-> dir'[q]]
  BY DEF TypesInv, Writes
<1>3. \A q \in Places : dir'[q] \in [runs : Nat, ended : Endings]
  <2> TAKE q \in Places
  <2>1. dir[q] \in [runs : Nat, ended : Endings]
    BY DEF TypesInv
  <2>2. dir[q].runs \in Nat
    BY <2>1
  <2>3. [runs |-> dir[q].runs + 1, ended |-> "none"] \in [runs : Nat, ended : Endings]
    BY <2>2 DEF Endings
  <2> QED BY <1>1, <2>1, <2>3
<1>4. ASSUME NEW q \in Places
      PROVE  /\ dir'[q].runs = IF q = <<r, t>> THEN dir[q].runs + 1 ELSE dir[q].runs
             /\ dir'[q].ended = IF q = <<r, t>> THEN "none" ELSE dir[q].ended
  <2>1. CASE q = <<r, t>>
    <3>1. dir'[q] = [runs |-> dir[q].runs + 1, ended |-> "none"]
      BY <1>1, <2>1
    <3> QED BY <2>1, <3>1
  <2>2. CASE q # <<r, t>>
    BY <1>1, <2>2
  <2> QED BY <2>1, <2>2
<1> QED BY <1>2, <1>3, <1>4

LEMMA DirsEnded ==
    ASSUME TypesInv, NEW r \in Rollouts, NEW how \in Endings, Ends(r, how)
    PROVE  /\ dir' \in [Places -> [runs : Nat, ended : Endings]]
           /\ \A q \in Places :
                 /\ dir'[q].runs = dir[q].runs
                 /\ dir'[q].ended = IF q = <<r, turn[r]>> THEN how ELSE dir[q].ended
<1>1. \A q \in Places : dir'[q] = IF q = <<r, turn[r]>> THEN [runs |-> dir[q].runs, ended |-> how]
                                   ELSE dir[q]
  BY DEF TypesInv, Ends
<1>2. DOMAIN dir' = Places /\ dir' = [q \in Places |-> dir'[q]]
  BY DEF TypesInv, Ends
<1>3. \A q \in Places : dir'[q] \in [runs : Nat, ended : Endings]
  <2> TAKE q \in Places
  <2>1. dir[q] \in [runs : Nat, ended : Endings]
    BY DEF TypesInv
  <2>2. dir[q].runs \in Nat
    BY <2>1
  <2>3. [runs |-> dir[q].runs, ended |-> how] \in [runs : Nat, ended : Endings]
    BY <2>2 DEF Endings
  <2> QED BY <1>1, <2>1, <2>3
<1>4. ASSUME NEW q \in Places
      PROVE  /\ dir'[q].runs = dir[q].runs
             /\ dir'[q].ended = IF q = <<r, turn[r]>> THEN how ELSE dir[q].ended
  <2>1. CASE q = <<r, turn[r]>>
    <3>1. dir'[q] = [runs |-> dir[q].runs, ended |-> how]
      BY <1>1, <2>1
    <3> QED BY <2>1, <3>1
  <2>2. CASE q # <<r, turn[r]>>
    BY <1>1, <2>2
  <2> QED BY <2>1, <2>2
<1> QED BY <1>2, <1>3, <1>4

LEMMA NextTypes ==
    TypesInv /\ [Next]_vars => TypesInv'
<1> SUFFICES ASSUME TypesInv, [Next]_vars PROVE TypesInv'
  OBVIOUS
<1> USE DEF TypesInv
<1>1. CASE UNCHANGED vars
  BY <1>1 DEF vars
<1>2. ASSUME NEW r \in Rollouts, Goes(r) \/ Suspend(r) \/ Break(r) PROVE TypesInv'
  <2>1. CASE Begin(r)
    <3>1. dir' \in [Places -> [runs : Nat, ended : Endings]]
      BY <2>1, DirsWritten DEF Begin, Endings
    <3> QED BY <2>1, <3>1 DEF Begin, Becomes, ScoredAs
  <2>2. CASE NextTurn(r)
    <3>1. dir' \in [Places -> [runs : Nat, ended : Endings]]
      BY <2>2, DirsWritten DEF NextTurn
    <3> QED BY <2>2, <3>1 DEF NextTurn, Becomes
  <2>3. CASE Complete(r)
    <3>1. dir' \in [Places -> [runs : Nat, ended : Endings]]
      BY <2>3, DirsEnded DEF Complete, Endings
    <3> QED BY <2>3, <3>1 DEF Complete, Becomes, ScoredAs
  <2>4. CASE Fail(r)
    <3>1. dir' \in [Places -> [runs : Nat, ended : Endings]]
      BY <2>4, DirsEnded DEF Fail, Endings
    <3> QED BY <2>4, <3>1 DEF Fail, Becomes, ScoredAs
  <2>5. CASE Collect(r)
    BY <2>5, InPlaces DEF Collect, Becomes
  <2>6. CASE CollectRaised(r)
    BY <2>6, InPlaces DEF CollectRaised, Cancelled
  <2>7. CASE Suspend(r)
    <3>1. dir' \in [Places -> [runs : Nat, ended : Endings]]
      BY <2>7, DirsEnded DEF Suspend, Raises, Endings
    <3> QED BY <2>7, <3>1 DEF Suspend, Raises, Becomes, ScoredAs
  <2>8. CASE Break(r)
    <3>1. dir' \in [Places -> [runs : Nat, ended : Endings]]
      BY <2>8, DirsEnded DEF Break, Raises, Endings
    <3> QED BY <2>8, <3>1 DEF Break, Raises, Becomes, ScoredAs
  <2> QED BY <1>2, <2>1, <2>2, <2>3, <2>4, <2>5, <2>6, <2>7, <2>8 DEF Goes
<1>3. CASE Leave
  BY <1>3, InPlaces DEF Leave
<1>4. CASE Report
  BY <1>4, InPlaces DEF Report
<1>5. CASE Kill
  BY <1>5, InPlaces DEF Kill
<1>6. CASE Interrupt
  <2>1. dir' \in [Places -> [runs : Nat, ended : Endings]]
    BY <1>6 DEF Interrupt, Endings
  <2>2. job' \in [Rollouts -> {"queued", "running", "between", "ended", "raised", "cancelled",
                             "seen", "resumed"}]
    BY <1>6 DEF Interrupt, Cancelled
  <2> QED BY <1>6, <2>1, <2>2 DEF Interrupt
<1>7. CASE ResumeFrom
  <2>1. dir' \in [Places -> [runs : Nat, ended : Endings]]
    BY <1>7 DEF ResumeFrom, Called, LeftDirs, NoDir, Endings
  <2>2. result' \in [Rollouts -> {"none", "scored", "failed"}] /\ turn' \in [Rollouts -> Nat]
    BY <1>7 DEF ResumeFrom, Called, Rescored
  <2>3. attempts' \in 1 .. MaxAttempts
    BY <1>7, RolloutsAssumption DEF ResumeFrom, Called
  <2> QED BY <1>7, <2>1, <2>2, <2>3 DEF ResumeFrom, Called
<1>8. ASSUME NEW p \in Places, Answer(p) PROVE TypesInv'
  <2>1. dir' \in [Places -> [runs : Nat, ended : Endings]]
    BY <1>8 DEF Answer, Endings
  <2> QED BY <1>8, <2>1 DEF Answer
<1>9. CASE ResumeRaises
  <2>1. PICK kept \in SUBSET Rollouts :
          dir' = [p \in Places |-> IF p[1] \in kept THEN dir[p] ELSE LeftDirs[p]]
    BY <1>9 DEF ResumeRaises
  <2>2. LeftDirs \in [Places -> [runs : Nat, ended : Endings]]
    BY DEF LeftDirs, NoDir, Endings
  <2>3. dir' \in [Places -> [runs : Nat, ended : Endings]]
    BY <2>1, <2>2
  <2>4. attempts' \in 1 .. MaxAttempts
    BY <1>9, RolloutsAssumption DEF ResumeRaises, Called
  <2> QED BY <1>9, <2>3, <2>4 DEF ResumeRaises, Called
<1> QED BY <1>1, <1>2, <1>3, <1>4, <1>5, <1>6, <1>7, <1>8, <1>9 DEF Next

LEMMA NextTurns ==
    TypesInv /\ TurnsInv /\ [Next]_vars => TurnsInv'
<1> SUFFICES ASSUME TypesInv, TurnsInv, [Next]_vars PROVE TurnsInv'
  OBVIOUS
<1> USE DEF TurnsInv, Busy
<1>1. CASE UNCHANGED vars
  BY <1>1 DEF vars
<1>2. ASSUME NEW r \in Rollouts, Goes(r) \/ Suspend(r) \/ Break(r) PROVE TurnsInv'
  <2>1. CASE Begin(r)
    <3>1. Turns[r] \in Nat \ {0} /\ fails[r] \in Nat \ {0}
      BY InPlaces DEF TypesInv
    <3>2. turn' = [turn EXCEPT ![r] = 1] /\ job' = [job EXCEPT ![r] = "running"] /\ fails' = fails
      BY <2>1 DEF Begin, Becomes
    <3> QED BY <3>1, <3>2 DEF TypesInv
  <2>2. CASE NextTurn(r)
    <3>1. /\ turn[r] < Turns[r] /\ turn[r] < fails[r] /\ job[r] = "between"
          /\ turn[r] \in Nat /\ Turns[r] \in Nat /\ fails[r] \in Nat
      BY <2>2, InPlaces DEF NextTurn, TypesInv
    <3>2. turn' = [turn EXCEPT ![r] = turn[r] + 1] /\ job' = [job EXCEPT ![r] = "running"] /\ fails' = fails
      BY <2>2 DEF NextTurn, Becomes
    <3> QED BY <3>1, <3>2 DEF TypesInv
  <2>3. CASE Complete(r)
    <3>1. /\ turn[r] <= Turns[r] /\ turn[r] <= fails[r] /\ turn[r] # fails[r]
          /\ turn[r] \in Nat /\ Turns[r] \in Nat /\ fails[r] \in Nat
      BY <2>3, InPlaces DEF Complete, Runs, TypesInv
    <3>2. turn[r] < fails[r]
      BY <3>1
    <3>3. UNCHANGED <<turn, fails>> /\ job[r] = "running"
      BY <2>3 DEF Complete, Runs
    <3>4. \/ job' = [job EXCEPT ![r] = "between"] /\ turn[r] < Turns[r]
          \/ job' = [job EXCEPT ![r] = "ended"]
      BY <2>3 DEF Complete, Becomes
    <3> QED BY <3>2, <3>3, <3>4 DEF TypesInv
  <2>4. CASE Fail(r)
    BY <2>4, InPlaces DEF Fail, Runs, Becomes, ScoredAs, TypesInv
  <2>5. CASE Collect(r)
    BY <2>5, InPlaces DEF Collect, Becomes, TypesInv
  <2>6. CASE CollectRaised(r)
    BY <2>6, InPlaces DEF CollectRaised, Cancelled, TypesInv
  <2>7. CASE Suspend(r)
    BY <2>7, InPlaces DEF Suspend, Raises, Runs, Becomes, TypesInv
  <2>8. CASE Break(r)
    BY <2>8, InPlaces DEF Break, Raises, Runs, Becomes, TypesInv
  <2> QED BY <1>2, <2>1, <2>2, <2>3, <2>4, <2>5, <2>6, <2>7, <2>8 DEF Goes
<1>3. CASE Leave
  BY <1>3, InPlaces DEF Leave
<1>4. CASE Report
  BY <1>4, InPlaces DEF Report
<1>5. CASE Kill
  BY <1>5, InPlaces DEF Kill
<1>6. CASE Interrupt
  BY <1>6, InPlaces DEF Interrupt, Cancelled, TypesInv
<1>7. CASE ResumeFrom
  <2>1. turn' = [q \in Rollouts |-> 0] /\ \A q \in Rollouts : job'[q] \in {"queued", "resumed"}
    BY <1>7 DEF ResumeFrom, Called
  <2>2. \A q \in Rollouts : Turns[q] \in Nat
    BY InPlaces
  <2>3. ASSUME NEW q \in Rollouts PROVE turn'[q] = 0 /\ job'[q] \notin Busy
    BY <2>1
  <2> QED BY <2>2, <2>3
<1>8. ASSUME NEW p \in Places, Answer(p) PROVE TurnsInv'
  BY <1>8, InPlaces DEF Answer, TypesInv
<1>9. CASE ResumeRaises
  <2>1. turn' = [q \in Rollouts |-> 0] /\ \A q \in Rollouts : job'[q] = "cancelled"
    BY <1>9 DEF ResumeRaises, Called
  <2>2. \A q \in Rollouts : Turns[q] \in Nat
    BY InPlaces
  <2> QED BY <2>1, <2>2
<1> QED BY <1>1, <1>2, <1>3, <1>4, <1>5, <1>6, <1>7, <1>8, <1>9 DEF Next

LEMMA NextCount ==
    TypesInv /\ TurnsInv /\ CountInv /\ [Next]_vars => CountInv'
<1> SUFFICES ASSUME TypesInv, TurnsInv, CountInv, [Next]_vars PROVE CountInv'
  OBVIOUS
<1> USE DEF CountInv
<1>1. CASE UNCHANGED vars
  BY <1>1 DEF vars
<1>2. ASSUME NEW r \in Rollouts, Goes(r) \/ Suspend(r) \/ Break(r) PROVE CountInv'
  <2>1. CASE Begin(r)
    <3>1. \A q \in Places : dir'[q].runs = IF q = <<r, 1>> THEN dir[q].runs + 1 ELSE dir[q].runs
      BY <2>1, DirsWritten DEF Begin
    <3>2. \A q \in Places : dir[q].runs \in Nat
      BY DEF TypesInv
    <3>3. /\ turn' = [turn EXCEPT ![r] = 1] /\ job' = [job EXCEPT ![r] = "running"]
          /\ phase = "running" /\ turn[r] < 1 /\ UNCHANGED <<phase, attempts>>
      BY <2>1 DEF Begin, Becomes, TurnsInv, TypesInv
    <3>4. attempts \in Nat /\ turn[r] \in Nat
      BY RolloutsAssumption DEF TypesInv
    <3> SUFFICES ASSUME NEW q \in Rollouts, NEW t \in 1 .. Turns[q]
                 PROVE  /\ dir'[<<q, t>>].runs <= attempts
                        /\ turn'[q] < t => dir'[<<q, t>>].runs < attempts
      BY <3>3
    <3>5. <<q, t>> \in Places /\ t \in Nat /\ turn[q] \in Nat
      BY InPlaces DEF TypesInv
    <3>6. CASE q = r /\ t = 1
      BY <3>1, <3>2, <3>3, <3>4, <3>5, <3>6 DEF TypesInv
    <3>7. CASE q = r /\ t # 1
      BY <3>1, <3>2, <3>3, <3>4, <3>5, <3>7 DEF TypesInv
    <3>8. CASE q # r
      BY <3>1, <3>2, <3>3, <3>4, <3>5, <3>8 DEF TypesInv
    <3> QED BY <3>6, <3>7, <3>8
  <2>2. CASE NextTurn(r)
    <3>1. \A q \in Places : dir'[q].runs = IF q = <<r, turn[r] + 1>> THEN dir[q].runs + 1 ELSE dir[q].runs
      BY <2>2, DirsWritten DEF NextTurn
    <3>2. \A q \in Places : dir[q].runs \in Nat
      BY DEF TypesInv
    <3>3. /\ turn' = [turn EXCEPT ![r] = turn[r] + 1] /\ job' = [job EXCEPT ![r] = "running"]
          /\ phase = "running" /\ turn[r] < turn[r] + 1 /\ UNCHANGED <<phase, attempts>>
      BY <2>2 DEF NextTurn, Becomes, TurnsInv, TypesInv
    <3>4. attempts \in Nat /\ turn[r] \in Nat
      BY RolloutsAssumption DEF TypesInv
    <3> SUFFICES ASSUME NEW q \in Rollouts, NEW t \in 1 .. Turns[q]
                 PROVE  /\ dir'[<<q, t>>].runs <= attempts
                        /\ turn'[q] < t => dir'[<<q, t>>].runs < attempts
      BY <3>3
    <3>5. <<q, t>> \in Places /\ t \in Nat /\ turn[q] \in Nat
      BY InPlaces DEF TypesInv
    <3>6. CASE q = r /\ t = turn[r] + 1
      BY <3>1, <3>2, <3>3, <3>4, <3>5, <3>6 DEF TypesInv
    <3>7. CASE q = r /\ t # turn[r] + 1
      BY <3>1, <3>2, <3>3, <3>4, <3>5, <3>7 DEF TypesInv
    <3>8. CASE q # r
      BY <3>1, <3>2, <3>3, <3>4, <3>5, <3>8 DEF TypesInv
    <3> QED BY <3>6, <3>7, <3>8
  <2>3. CASE Complete(r)
    <3>1. \A q \in Places : dir'[q].runs = dir[q].runs
      BY <2>3, DirsEnded DEF Complete, Endings
    <3>2. UNCHANGED <<phase, turn, attempts>>
      BY <2>3 DEF Complete
    <3> QED BY <3>1, <3>2, InPlaces
  <2>4. CASE Fail(r)
    <3>1. \A q \in Places : dir'[q].runs = dir[q].runs
      BY <2>4, DirsEnded DEF Fail, Endings
    <3>2. UNCHANGED <<phase, turn, attempts>>
      BY <2>4 DEF Fail
    <3> QED BY <3>1, <3>2, InPlaces
  <2>5. CASE Collect(r)
    BY <2>5 DEF Collect
  <2>6. CASE CollectRaised(r)
    BY <2>6 DEF CollectRaised
  <2>7. CASE Suspend(r)
    <3>1. \A q \in Places : dir'[q].runs = dir[q].runs
      BY <2>7, DirsEnded DEF Suspend, Raises, Endings
    <3>2. UNCHANGED <<phase, turn, attempts>>
      BY <2>7 DEF Suspend, Raises
    <3> QED BY <3>1, <3>2, InPlaces
  <2>8. CASE Break(r)
    <3>1. \A q \in Places : dir'[q].runs = dir[q].runs
      BY <2>8, DirsEnded DEF Break, Raises, Endings
    <3>2. UNCHANGED <<phase, turn, attempts>>
      BY <2>8 DEF Break, Raises
    <3> QED BY <3>1, <3>2, InPlaces
  <2> QED BY <1>2, <2>1, <2>2, <2>3, <2>4, <2>5, <2>6, <2>7, <2>8 DEF Goes
<1>3. CASE Leave
  BY <1>3 DEF Leave
<1>4. CASE Report
  BY <1>4 DEF Report
<1>5. CASE Kill
  BY <1>5 DEF Kill
<1>6. CASE Interrupt
  <2>1. \A q \in Places : dir'[q].runs = dir[q].runs
    BY <1>6 DEF Interrupt, TypesInv
  <2>2. UNCHANGED <<phase, turn, attempts>>
    BY <1>6 DEF Interrupt
  <2> QED BY <2>1, <2>2, InPlaces
<1>7. CASE ResumeFrom
  <2>1. \A q \in Places : dir'[q].runs \in {0, dir[q].runs}
    BY <1>7 DEF ResumeFrom, Called, LeftDirs, NoDir
  <2>2. attempts' = attempts + 1 /\ attempts \in Nat /\ attempts' \in Nat
    BY <1>7, RolloutsAssumption DEF ResumeFrom, Called, TypesInv
  <2>3. \A q \in Places : dir[q].runs \in Nat
    BY DEF TypesInv
  <2>4. ASSUME NEW q \in Rollouts, NEW t \in 1 .. Turns[q]
        PROVE  dir'[<<q, t>>].runs < attempts' /\ dir'[<<q, t>>].runs <= attempts'
    <3>1. <<q, t>> \in Places /\ dir[<<q, t>>].runs <= attempts
      BY InPlaces
    <3> QED BY <2>1, <2>2, <2>3, <3>1
  <2> QED BY <2>4
<1>8. ASSUME NEW p \in Places, Answer(p) PROVE CountInv'
  <2>1. \A q \in Places : dir'[q].runs = dir[q].runs
    BY <1>8 DEF Answer, TypesInv
  <2>2. UNCHANGED <<phase, turn, attempts>>
    BY <1>8 DEF Answer
  <2> QED BY <2>1, <2>2, InPlaces
<1>9. CASE ResumeRaises
  <2>1. \A q \in Places : dir'[q].runs \in {0, dir[q].runs}
    BY <1>9 DEF ResumeRaises, LeftDirs, NoDir
  <2>2. attempts' = attempts + 1 /\ attempts \in Nat /\ phase' = "raised"
    BY <1>9, RolloutsAssumption DEF ResumeRaises, Called, TypesInv
  <2>3. \A q \in Places : dir[q].runs \in Nat
    BY DEF TypesInv
  <2> SUFFICES ASSUME NEW q \in Rollouts, NEW t \in 1 .. Turns[q]
               PROVE  dir'[<<q, t>>].runs <= attempts + 1
    BY <2>2
  <2>4. <<q, t>> \in Places /\ dir[<<q, t>>].runs <= attempts
    BY InPlaces
  <2>5. dir'[<<q, t>>].runs \in {0, dir[<<q, t>>].runs} /\ dir[<<q, t>>].runs \in Nat
    BY <2>1, <2>3, <2>4
  <2> QED BY <2>2, <2>4, <2>5
<1> QED BY <1>1, <1>2, <1>3, <1>4, <1>5, <1>6, <1>7, <1>8, <1>9 DEF Next

LEMMA OneTurn ==
    ASSUME TypesInv, TurnsInv, NEW r \in Rollouts, Turns[r] = 1, job[r] \in Busy
    PROVE  turn[r] = 1 /\ job[r] = "running"
BY InPlaces DEF TypesInv, TurnsInv, Busy

LEMMA NextQueued ==
    TypesInv /\ TurnsInv /\ QueuedInv /\ [Next]_vars => QueuedInv'
<1> SUFFICES ASSUME TypesInv, TurnsInv, QueuedInv, [Next]_vars PROVE QueuedInv'
  OBVIOUS
<1> USE DEF QueuedInv
<1>1. CASE UNCHANGED vars
  BY <1>1 DEF vars
<1>2. ASSUME NEW r \in Rollouts, Goes(r) \/ Suspend(r) \/ Break(r) PROVE QueuedInv'
  <2>1. CASE Begin(r)
    <3>1. \A q \in Places : dir'[q].runs = IF q = <<r, 1>> THEN dir[q].runs + 1 ELSE dir[q].runs
      BY <2>1, DirsWritten DEF Begin
    <3>2. job' = [job EXCEPT ![r] = "running"] /\ job[r] = "queued" /\ phase = "running" /\ phase' = phase
      BY <2>1 DEF Begin, Becomes
    <3> SUFFICES ASSUME NEW q \in Rollouts, Turns[q] = 1
                 PROVE  /\ dir'[<<q, 1>>].runs <= 1
                        /\ job'[q] = "queued" => dir'[<<q, 1>>].runs = 0
      OBVIOUS
    <3>3. CASE q = r
      BY <3>1, <3>2, <3>3, InPlaces DEF TypesInv
    <3>4. CASE q # r
      BY <3>1, <3>2, <3>4, InPlaces DEF TypesInv
    <3> QED BY <3>3, <3>4
  <2>2. CASE NextTurn(r)
    <3>1. \A q \in Places : dir'[q].runs = IF q = <<r, turn[r] + 1>> THEN dir[q].runs + 1 ELSE dir[q].runs
      BY <2>2, DirsWritten DEF NextTurn
    <3>2. /\ job' = [job EXCEPT ![r] = "running"] /\ job[r] = "between" /\ phase' = phase
          /\ turn[r] \in Nat /\ turn[r] >= 1 /\ turn[r] < Turns[r]
      BY <2>2 DEF NextTurn, Becomes, TurnsInv, TypesInv, Busy
    <3> SUFFICES ASSUME NEW q \in Rollouts, Turns[q] = 1
                 PROVE  dir'[<<q, 1>>].runs = dir[<<q, 1>>].runs /\ (job'[q] = "queued" => job[q] = "queued")
      BY <3>2
    <3>3. q # r
      BY <3>2
    <3> QED BY <3>1, <3>2, <3>3, InPlaces DEF TypesInv
  <2>3. CASE Complete(r)
    <3>1. /\ \A q \in Places : dir'[q].runs = dir[q].runs
          /\ \A q \in Rollouts : job'[q] = "queued" => job[q] = "queued"
      BY <2>3, DirsEnded DEF Complete, Endings, Becomes, TypesInv, Cancelled
    <3>2. phase' = "running" => phase = "running"
      BY <2>3 DEF Complete
    <3> QED BY <3>1, <3>2, InPlaces
  <2>4. CASE Fail(r)
    <3>1. /\ \A q \in Places : dir'[q].runs = dir[q].runs
          /\ \A q \in Rollouts : job'[q] = "queued" => job[q] = "queued"
      BY <2>4, DirsEnded DEF Fail, Endings, Becomes, TypesInv, Cancelled
    <3>2. phase' = "running" => phase = "running"
      BY <2>4 DEF Fail
    <3> QED BY <3>1, <3>2, InPlaces
  <2>5. CASE Collect(r)
    <3>1. /\ \A q \in Places : dir'[q].runs = dir[q].runs
          /\ \A q \in Rollouts : job'[q] = "queued" => job[q] = "queued"
      BY <2>5, InPlaces DEF Collect, Becomes, TypesInv, Cancelled
    <3>2. phase' = "running" => phase = "running"
      BY <2>5 DEF Collect
    <3> QED BY <3>1, <3>2, InPlaces
  <2>6. CASE CollectRaised(r)
    <3>1. /\ \A q \in Places : dir'[q].runs = dir[q].runs
          /\ \A q \in Rollouts : job'[q] = "queued" => job[q] = "queued"
      BY <2>6, InPlaces DEF CollectRaised, Becomes, TypesInv, Cancelled
    <3>2. phase' = "running" => phase = "running"
      BY <2>6 DEF CollectRaised
    <3> QED BY <3>1, <3>2, InPlaces
  <2>7. CASE Suspend(r)
    <3>1. /\ \A q \in Places : dir'[q].runs = dir[q].runs
          /\ \A q \in Rollouts : job'[q] = "queued" => job[q] = "queued"
      BY <2>7, DirsEnded DEF Suspend, Raises, Endings, Becomes, TypesInv, Cancelled
    <3>2. phase' = "running" => phase = "running"
      BY <2>7 DEF Suspend, Raises
    <3> QED BY <3>1, <3>2, InPlaces
  <2>8. CASE Break(r)
    <3>1. /\ \A q \in Places : dir'[q].runs = dir[q].runs
          /\ \A q \in Rollouts : job'[q] = "queued" => job[q] = "queued"
      BY <2>8, DirsEnded DEF Break, Raises, Endings, Becomes, TypesInv, Cancelled
    <3>2. phase' = "running" => phase = "running"
      BY <2>8 DEF Break, Raises
    <3> QED BY <3>1, <3>2, InPlaces
  <2> QED BY <1>2, <2>1, <2>2, <2>3, <2>4, <2>5, <2>6, <2>7, <2>8 DEF Goes
<1>3. CASE Leave
  <2>1. /\ \A q \in Places : dir'[q].runs = dir[q].runs
        /\ \A q \in Rollouts : job'[q] = "queued" => job[q] = "queued"
    BY <1>3, InPlaces DEF Leave, Becomes, TypesInv, Cancelled
  <2>2. phase' = "running" => phase = "running"
    BY <1>3 DEF Leave
  <2> QED BY <2>1, <2>2, InPlaces
<1>4. CASE Report
  <2>1. /\ \A q \in Places : dir'[q].runs = dir[q].runs
        /\ \A q \in Rollouts : job'[q] = "queued" => job[q] = "queued"
    BY <1>4, InPlaces DEF Report, Becomes, TypesInv, Cancelled
  <2>2. phase' = "running" => phase = "running"
    BY <1>4 DEF Report
  <2> QED BY <2>1, <2>2, InPlaces
<1>5. CASE Kill
  <2>1. /\ \A q \in Places : dir'[q].runs = dir[q].runs
        /\ \A q \in Rollouts : job'[q] = "queued" => job[q] = "queued"
    BY <1>5, InPlaces DEF Kill, Becomes, TypesInv, Cancelled
  <2>2. phase' = "running" => phase = "running"
    BY <1>5 DEF Kill
  <2> QED BY <2>1, <2>2, InPlaces
<1>6. CASE Interrupt
  <2>1. \A q \in Places : dir'[q].runs = dir[q].runs
    BY <1>6 DEF Interrupt, TypesInv
  <2>2. ASSUME NEW q \in Rollouts, job'[q] = "queued" PROVE job[q] = "queued"
    <3>1. CASE Threaded
      BY <1>6, <2>2, <3>1 DEF Interrupt, Cancelled
    <3>2. CASE ~Threaded
      BY <1>6, <2>2, <3>2 DEF Interrupt, Cancelled
    <3> QED BY <3>1, <3>2
  <2>3. phase' = phase
    BY <1>6 DEF Interrupt
  <2> QED BY <2>1, <2>2, <2>3, InPlaces
<1>7. CASE ResumeFrom
  <2> SUFFICES ASSUME NEW q \in Rollouts, Turns[q] = 1
               PROVE  /\ dir'[<<q, 1>>].runs <= 1
                      /\ job'[q] = "queued" => dir'[<<q, 1>>].runs = 0
    OBVIOUS
  <2>1. <<q, 1>> \in Places /\ dir[<<q, 1>>].runs \in Nat /\ dir[<<q, 1>>].runs <= 1
    BY InPlaces DEF TypesInv
  <2>2. dir'[<<q, 1>>] = IF Unended(q) THEN NoDir ELSE dir[<<q, 1>>]
    BY <1>7, <2>1 DEF ResumeFrom, Called, LeftDirs
  <2>3. job'[q] = "queued" => dir[<<q, 1>>].runs = 0 \/ Unended(q)
    <3>1. job'[q] = "queued" => q \notin Found
      BY <1>7 DEF ResumeFrom, Called
    <3> QED BY <2>1, <3>1 DEF Found, OnDisk
  <2> QED BY <2>1, <2>2, <2>3 DEF NoDir
<1>8. ASSUME NEW p \in Places, Answer(p) PROVE QueuedInv'
  <2>1. /\ \A q \in Places : dir'[q].runs = dir[q].runs
        /\ \A q \in Rollouts : job'[q] = "queued" => job[q] = "queued"
    BY <1>8, InPlaces DEF Answer, Becomes, TypesInv, Cancelled
  <2>2. phase' = "running" => phase = "running"
    BY <1>8 DEF Answer
  <2> QED BY <2>1, <2>2, InPlaces
<1>9. CASE ResumeRaises
  <2>1. \A q \in Places : dir'[q].runs \in {0, dir[q].runs}
    BY <1>9 DEF ResumeRaises, LeftDirs, NoDir
  <2>2. phase' = "raised"
    BY <1>9 DEF ResumeRaises
  <2> SUFFICES ASSUME NEW q \in Rollouts, Turns[q] = 1 PROVE dir'[<<q, 1>>].runs <= 1
    BY <2>2
  <2>3. <<q, 1>> \in Places /\ dir[<<q, 1>>].runs <= 1
    BY InPlaces
  <2>4. dir'[<<q, 1>>].runs \in {0, dir[<<q, 1>>].runs}
    BY <2>1, <2>3
  <2> QED BY <2>3, <2>4
<1> QED BY <1>1, <1>2, <1>3, <1>4, <1>5, <1>6, <1>7, <1>8, <1>9 DEF Next

LEMMA NextRight ==
    TypesInv /\ TurnsInv /\ RightInv /\ [Next]_vars => RightInv'
<1> SUFFICES ASSUME TypesInv, TurnsInv, RightInv, [Next]_vars PROVE RightInv'
  OBVIOUS
<1> USE DEF RightInv, IsKept
<1>1. CASE UNCHANGED vars
  BY <1>1 DEF vars, IsRight, RightEnd
<1>2. ASSUME NEW r \in Rollouts, Goes(r) \/ Suspend(r) \/ Break(r) PROVE RightInv'
  <2>1. CASE Begin(r)
    <3>1. \A p \in Places : dir'[p].ended \in {"none", dir[p].ended}
      BY <2>1, DirsWritten DEF Begin
    <3>2. job' = [job EXCEPT ![r] = "running"] /\ UNCHANGED <<phase, result, fails, spoiled>> /\ phase = "running"
      BY <2>1 DEF Begin, Becomes
    <3> TAKE q \in Rollouts
    <3>3. dir'[<<q, 1>>].ended \in {"none", dir[<<q, 1>>].ended}
      BY <3>1, InPlaces
    <3>4. job'[q] = job[q] \/ job'[q] = "running"
      BY <3>2 DEF TypesInv
    <3> QED BY <3>2, <3>3, <3>4 DEF IsRight, RightEnd
  <2>2. CASE NextTurn(r)
    <3>1. \A p \in Places : dir'[p].ended \in {"none", dir[p].ended}
      BY <2>2, DirsWritten DEF NextTurn
    <3>2. job' = [job EXCEPT ![r] = "running"] /\ UNCHANGED <<phase, result, fails, spoiled>> /\ phase = "running"
      BY <2>2 DEF NextTurn, Becomes
    <3> TAKE q \in Rollouts
    <3>3. dir'[<<q, 1>>].ended \in {"none", dir[<<q, 1>>].ended}
      BY <3>1, InPlaces
    <3>4. job'[q] = job[q] \/ job'[q] = "running"
      BY <3>2 DEF TypesInv
    <3> QED BY <3>2, <3>3, <3>4 DEF IsRight, RightEnd
  <2>3. CASE Complete(r)
    <3>1. \A p \in Places : dir'[p].ended = IF p = <<r, turn[r]>> THEN "completed" ELSE dir[p].ended
      BY <2>3, DirsEnded DEF Complete, Endings
    <3>2. UNCHANGED <<phase, turn, fails, spoiled>> /\ phase = "running" /\ job[r] = "running"
      BY <2>3 DEF Complete, Runs
    <3>3. \/ job' = [job EXCEPT ![r] = "between"] /\ result' = result /\ turn[r] < Turns[r]
          \/ /\ job' = [job EXCEPT ![r] = "ended"]
             /\ result' = [result EXCEPT ![r] = IF fails[r] <= Reading(r) THEN "failed" ELSE "scored"]
      <4>1. /\ turn[r] \in Nat /\ Turns[r] \in Nat /\ fails[r] \in Nat
            /\ turn[r] <= Turns[r] /\ turn[r] <= fails[r] /\ turn[r] # fails[r]
        BY <2>3, <3>2, InPlaces DEF Complete, TurnsInv, TypesInv, Busy
      <4>2. ~(turn[r] < Turns[r]) => (fails[r] = Reading(r) <=> fails[r] <= Reading(r))
        BY <4>1 DEF Reading
      <4> QED BY <2>3, <4>2 DEF Complete, Becomes, ScoredAs
    <3> TAKE q \in Rollouts
    <3>4. CASE q = r
      <4>1. Turns[r] = 1 => turn[r] = 1 /\ fails[r] # 1
        BY <2>3, <3>2, OneTurn DEF Complete, Busy
      <4>2. Turns[r] = 1 => dir'[<<r, 1>>].ended = "completed"
        BY <3>1, <4>1, InPlaces
      <4> QED BY <3>2, <3>3, <3>4, <4>1, <4>2 DEF IsRight, RightEnd, TypesInv
    <3>5. CASE q # r
      <4>1. Turns[q] = 1 => dir'[<<q, 1>>].ended = dir[<<q, 1>>].ended
        BY <3>1, <3>5, InPlaces
      <4>2. job'[q] = job[q] /\ result'[q] = result[q]
        BY <3>3, <3>5 DEF TypesInv
      <4> QED BY <3>2, <4>1, <4>2 DEF IsRight, RightEnd
    <3> QED BY <3>4, <3>5
  <2>4. CASE Fail(r)
    <3>1. \A p \in Places : dir'[p].ended = IF p = <<r, turn[r]>> THEN "error" ELSE dir[p].ended
      BY <2>4, DirsEnded DEF Fail, Endings
    <3>2. /\ UNCHANGED <<phase, turn, fails, spoiled>> /\ phase = "running" /\ job[r] = "running"
          /\ fails[r] = turn[r]
      BY <2>4 DEF Fail, Runs
    <3>3. job' = [job EXCEPT ![r] = "ended"] /\ result' = [result EXCEPT ![r] = "failed"]
      BY <2>4 DEF Fail, Becomes, ScoredAs
    <3> TAKE q \in Rollouts
    <3>4. CASE q = r
      <4>1. Turns[r] = 1 => turn[r] = 1 /\ fails[r] = 1
        BY <3>2, OneTurn DEF Busy
      <4>2. Turns[r] = 1 => dir'[<<r, 1>>].ended = "error"
        BY <3>1, <4>1, InPlaces
      <4>3. fails[r] <= Reading(r)
        <5>1. turn[r] \in Nat /\ Turns[r] \in Nat /\ turn[r] <= Turns[r]
          BY InPlaces DEF TurnsInv, TypesInv
        <5> QED BY <3>2, <5>1 DEF Reading
      <4>4. job'[r] = "ended" /\ result'[r] = "failed"
        BY <3>3 DEF TypesInv
      <4> QED BY <3>2, <3>4, <4>1, <4>2, <4>3, <4>4 DEF IsRight, RightEnd, Reading
    <3>5. CASE q # r
      <4>1. Turns[q] = 1 => dir'[<<q, 1>>].ended = dir[<<q, 1>>].ended
        BY <3>1, <3>5, InPlaces
      <4>2. job'[q] = job[q] /\ result'[q] = result[q]
        BY <3>3, <3>5 DEF TypesInv
      <4> QED BY <3>2, <4>1, <4>2 DEF IsRight, RightEnd
    <3> QED BY <3>4, <3>5
  <2>5. CASE Collect(r)
    <3>1. UNCHANGED <<phase, result, dir, fails, spoiled>> /\ job[r] = "ended" /\ phase = "running"
      BY <2>5 DEF Collect, Turned
    <3>2. job' = [job EXCEPT ![r] = "seen"]
      BY <2>5 DEF Collect, Becomes
    <3> QED BY <3>1, <3>2 DEF IsRight, RightEnd, TypesInv
  <2>6. CASE CollectRaised(r)
    <3>1. UNCHANGED <<phase, result, dir, fails, spoiled>> /\ phase = "running"
      BY <2>6 DEF CollectRaised, Turned
    <3>2. \A q \in Rollouts : job'[q] = job[q] \/ job'[q] = "cancelled"
      BY <2>6 DEF CollectRaised, Cancelled
    <3> QED BY <3>1, <3>2 DEF IsRight, RightEnd
  <2>7. CASE Suspend(r)
    <3>1. \A p \in Places : dir'[p].ended = IF p = <<r, turn[r]>> THEN dir'[p].ended ELSE dir[p].ended
      BY <2>7, DirsEnded DEF Suspend, Raises, Endings
    <3>2. /\ spoiled' = spoiled \cup {r} /\ job' = [job EXCEPT ![r] = "raised"]
          /\ UNCHANGED <<phase, result, fails>> /\ phase = "running"
      BY <2>7 DEF Suspend, Raises, Runs, Becomes
    <3> TAKE q \in Rollouts
    <3>3. CASE q = r
      BY <3>2, <3>3 DEF TypesInv
    <3>4. CASE q # r
      <4>1. Turns[q] = 1 => dir'[<<q, 1>>].ended = dir[<<q, 1>>].ended
        BY <3>1, <3>4, InPlaces
      <4> QED BY <3>2, <3>4, <4>1 DEF IsRight, RightEnd, TypesInv
    <3> QED BY <3>3, <3>4
  <2>8. CASE Break(r)
    <3>1. \A p \in Places : dir'[p].ended = IF p = <<r, turn[r]>> THEN dir'[p].ended ELSE dir[p].ended
      BY <2>8, DirsEnded DEF Break, Raises, Endings
    <3>2. /\ spoiled' = spoiled \cup {r} /\ job' = [job EXCEPT ![r] = "raised"]
          /\ UNCHANGED <<phase, result, fails>> /\ phase = "running"
      BY <2>8 DEF Break, Raises, Runs, Becomes
    <3> TAKE q \in Rollouts
    <3>3. CASE q = r
      BY <3>2, <3>3 DEF TypesInv
    <3>4. CASE q # r
      <4>1. Turns[q] = 1 => dir'[<<q, 1>>].ended = dir[<<q, 1>>].ended
        BY <3>1, <3>4, InPlaces
      <4> QED BY <3>2, <3>4, <4>1 DEF IsRight, RightEnd, TypesInv
    <3> QED BY <3>3, <3>4
  <2> QED BY <1>2, <2>1, <2>2, <2>3, <2>4, <2>5, <2>6, <2>7, <2>8 DEF Goes
<1>3. CASE Leave
  <2>1. UNCHANGED <<job, result, dir, fails, spoiled>> /\ phase = "running"
    BY <1>3 DEF Leave
  <2>2. phase' = "over" => \A q \in Rollouts : job[q] \in {"seen", "resumed"}
    BY <1>3 DEF Leave
  <2> QED BY <2>1, <2>2 DEF IsRight, RightEnd
<1>4. CASE Report
  <2>1. UNCHANGED <<job, result, dir, fails, spoiled>> /\ phase = "running"
    BY <1>4 DEF Report
  <2>2. phase' = "over" => \A q \in Rollouts : job[q] \in {"seen", "resumed"}
    BY <1>4 DEF Report
  <2> QED BY <2>1, <2>2 DEF IsRight, RightEnd
<1>5. CASE Kill
  <2>1. UNCHANGED <<job, result, dir, fails, spoiled>> /\ phase = "running"
    BY <1>5 DEF Kill
  <2>2. phase' = "over" => \A q \in Rollouts : job[q] \in {"seen", "resumed"}
    BY <1>5 DEF Kill
  <2> QED BY <2>1, <2>2 DEF IsRight, RightEnd
<1>6. CASE Interrupt
  <2>1. UNCHANGED <<phase, result, fails>> /\ phase = "running" /\ spoiled \subseteq spoiled'
    BY <1>6 DEF Interrupt
  <2> TAKE q \in Rollouts
  <2>2. job'[q] = job[q] \/ job'[q] \in {"raised", "cancelled"}
    BY <1>6 DEF Interrupt, Cancelled
  <2>3. q \notin spoiled' => dir'[<<q, 1>>] = dir[<<q, 1>>]
    <3>1. <<q, 1>> \in Places /\ <<q, 1>>[1] = q
      BY InPlaces
    <3>2. CASE Threaded
      BY <1>6, <3>2 DEF Interrupt
    <3>3. CASE ~Threaded
      BY <1>6, <3>1, <3>3 DEF Interrupt, Busy
    <3> QED BY <3>2, <3>3
  <2> QED BY <2>1, <2>2, <2>3 DEF IsRight, RightEnd
<1>7. CASE ResumeFrom
  <2>1. UNCHANGED <<fails, spoiled>> /\ phase' # "over"
    BY <1>7 DEF ResumeFrom, Called
  <2> TAKE q \in Rollouts
  <2>2. dir'[<<q, 1>>].ended \in {"none", dir[<<q, 1>>].ended}
    BY <1>7, InPlaces DEF ResumeFrom, Called, LeftDirs, NoDir
  <2>3. job'[q] \in {"queued", "resumed"} /\ (job'[q] = "resumed" => q \in Found)
    BY <1>7 DEF ResumeFrom, Called
  <2>4. q \in Found => Turns[q] = 1 /\ dir[<<q, 1>>].ended # "none"
    BY DEF Found, OnDisk, Unended
  <2>5. q \in Found => result'[q] = IF dir[<<q, 1>>].ended = "completed" THEN "scored" ELSE "failed"
    BY <1>7 DEF ResumeFrom, Called, Rescored
  <2>6. q \in Found => ~(dir[<<q, 1>>].ended = "completed" /\ fails[q] = 2)
    <3>1. q \in Found => ~(dir[<<q, 1>>].ended = "completed" /\ fails[q] = Reading(q))
      BY <1>7 DEF ResumeFrom, Unreadable
    <3> QED BY <2>4, <3>1 DEF Reading
  <2>7. q \in Found \ spoiled => IsRight(q)'
    <3> SUFFICES ASSUME q \in Found, q \notin spoiled PROVE IsRight(q)'
      OBVIOUS
    <3>1. dir[<<q, 1>>].ended = IF fails[q] = 1 THEN "error" ELSE "completed"
      BY <2>4 DEF RightEnd
    <3>2. fails'[q] = fails[q] /\ fails[q] \in Nat \ {0} /\ Turns[q] = 1
      BY <2>1, <2>4 DEF TypesInv
    <3>3. fails[q] <= Reading(q) <=> fails[q] \in {1, 2}
      BY <3>2 DEF Reading
    <3>4. result'[q] = IF fails[q] \in {1, 2} THEN "failed" ELSE "scored"
      BY <2>5, <2>6, <3>1
    <3> QED BY <3>2, <3>3, <3>4 DEF IsRight, Reading
  <2>8. job'[q] \notin {"ended", "seen"}
    BY <2>3
  <2> QED BY <2>1, <2>2, <2>3, <2>7, <2>8 DEF RightEnd
<1>8. ASSUME NEW p \in Places, Answer(p) PROVE RightInv'
  <2>1. /\ UNCHANGED <<phase, job, result, fails>> /\ phase \in {"raised", "killed"}
        /\ spoiled' = spoiled \ {p[1]}
    BY <1>8 DEF Answer
  <2>2. \A d \in Places : dir'[d].ended = IF d = p THEN IF fails[p[1]] = p[2] THEN "error"
                                               ELSE "completed"
                                 ELSE dir[d].ended
    BY <1>8 DEF Answer, TypesInv
  <2> TAKE q \in Rollouts
  <2>3. q = p[1] /\ Turns[q] = 1 => dir'[<<q, 1>>].ended = RightEnd(q)
    <3>1. q = p[1] /\ Turns[q] = 1 => p[2] = 1 /\ p = <<q, 1>>
      BY InPlaces
    <3> QED BY <2>2, <3>1 DEF RightEnd
  <2>4. q # p[1] => dir'[<<q, 1>>].ended = dir[<<q, 1>>].ended
    BY <2>2, InPlaces
  <2> QED BY <2>1, <2>3, <2>4 DEF IsRight, RightEnd
<1>9. CASE ResumeRaises
  <2>1. UNCHANGED <<fails, spoiled>> /\ phase' = "raised"
    BY <1>9 DEF ResumeRaises, Called
  <2> TAKE q \in Rollouts
  <2>2. dir'[<<q, 1>>].ended \in {"none", dir[<<q, 1>>].ended}
    BY <1>9, InPlaces DEF ResumeRaises, LeftDirs, NoDir
  <2>3. job'[q] = "cancelled"
    BY <1>9 DEF ResumeRaises
  <2> QED BY <2>1, <2>2, <2>3 DEF IsRight, RightEnd
<1> QED BY <1>1, <1>2, <1>3, <1>4, <1>5, <1>6, <1>7, <1>8, <1>9 DEF Next

-----------------------------------------------------------------------------
IInv == TypesInv /\ TurnsInv /\ CountInv /\ QueuedInv /\ RightInv

LEMMA Inductive == Spec => []IInv
<1>1. Init => IInv
  <2> SUFFICES ASSUME Init PROVE IInv
    OBVIOUS
  <2>1. TypesInv
    <3>1. NoDir \in [runs : Nat, ended : Endings]
      BY DEF NoDir, Endings
    <3>2. dir \in [Places -> [runs : Nat, ended : Endings]]
      BY <3>1 DEF Init
    <3>3. attempts \in 1 .. MaxAttempts
      BY RolloutsAssumption DEF Init
    <3>4. fails \in [Rollouts -> Nat \ {0}] /\ \A r \in Rollouts : fails[r] \in Failings[r]
      <4>1. fails \in {f \in [Rollouts -> UNION {Failings[r] : r \in Rollouts}] :
                          \A r \in Rollouts : f[r] \in Failings[r]}
        BY DEF Init
      <4>2. \A r \in Rollouts : Failings[r] \subseteq Nat \ {0}
        BY RolloutsAssumption
      <4> QED BY <4>1, <4>2
    <3> QED BY <3>2, <3>3, <3>4 DEF Init, TypesInv
  <2>2. TurnsInv
    <3>1. ASSUME NEW r \in Rollouts PROVE 0 <= Turns[r]
      <4>1. Turns[r] \in Nat
        BY InPlaces
      <4> QED BY <4>1
    <3> QED BY <3>1 DEF Init, TurnsInv, Busy
  <2>3. CountInv /\ QueuedInv
    BY InPlaces DEF Init, CountInv, QueuedInv, NoDir
  <2>4. RightInv
    BY InPlaces DEF Init, RightInv, IsKept, NoDir
  <2> QED BY <2>1, <2>2, <2>3, <2>4 DEF IInv
<1>2. IInv /\ [Next]_vars => IInv'
  BY NextTypes, NextTurns, NextCount, NextQueued, NextRight DEF IInv
<1> QED BY <1>1, <1>2, PTL DEF Spec

(* No number leaves its range: in particular no directory is run into more   *)
(* often than the evaluation is called.                                      *)
THEOREM TypesHold == Spec => []TypeOK
<1>1. IInv => TypeOK
  <2> SUFFICES ASSUME IInv PROVE TypeOK
    OBVIOUS
  <2>1. \A r \in Rollouts : turn[r] \in 0 .. Turns[r] /\ (job[r] \in {"resumed", "cancelled"} => turn[r] = 0)
    BY InPlaces DEF IInv, TypesInv, TurnsInv
  <2>2. ASSUME NEW p \in Places PROVE dir[p].runs \in 0 .. MaxAttempts /\ dir[p].ended \in Endings
    <3>1. dir[p] \in [runs : Nat, ended : Endings] /\ attempts \in 1 .. MaxAttempts
      BY DEF IInv, TypesInv
    <3>2. dir[p].runs <= attempts
      BY InPlaces DEF IInv, CountInv
    <3> QED BY <3>1, <3>2, RolloutsAssumption
  <2> QED BY <2>1, <2>2 DEF IInv, TypesInv, TypeOK, Endings
<1> QED BY <1>1, Inductive, PTL

(* Whatever kills, interrupts, questions and resumes: a rollout that is one  *)
(* run is never run into a trajectory that holds one already.                *)
THEOREM TrajectoriesAreSingle == Spec => []OneRunInATrajectory
<1>1. IInv => OneRunInATrajectory
  BY InPlaces DEF IInv, QueuedInv, OneRunInATrajectory, HoldsOneRun
<1> QED BY <1>1, Inductive, PTL

(* An evaluation that reports, over any kills and resumes, scored each       *)
(* rollout as one that ran through, but for those that were spoiled.         *)
THEOREM ResumedNumbersHold == Spec => []NumbersHold
<1>1. IInv => NumbersHold
  BY DEF IInv, RightInv, IsKept, NumbersHold
<1> QED BY <1>1, Inductive, PTL
==============================================================================
