---------------------------- MODULE ReplayProofs -----------------------------
(***************************************************************************)
(* For any strands and programs, any number of recorded runs, any stops and  *)
(* any failures: an agent's tool call takes its number from its place, what  *)
(* a recorded run was answered is on file under that number, and an agent's  *)
(* replay is handed what the recorded run was.  What is kept is, for each     *)
(* wording, that the calls numbered so far are the first of their wording,   *)
(* and that the run counts them: of the run, so long as it went on from no   *)
(* failure, and of what the last stop wrote down.                            *)
(***************************************************************************)
EXTENDS Replay, TLAPS, FiniteSetTheorems

Agents == {s \in Strands : Kind[s] = "agent"}
Alikes(s, c) == {i \in Places(s) : CallAt(s, i) = c}
Before(s, i) == {j \in 1 .. i - 1 : CallAt(s, j) = CallAt(s, i)}
Numbered(s, n) == {i \in Places(s) : n[i] # Unnumbered}

(* Of one strand: its numbers n, values v, counts k and what it waits for w. *)
Shape(s, n, v, k, w) ==
    /\ n \in [Places(s) -> -1 .. MaxAsked - 1]
    /\ v \in [Places(s) -> Answers \cup {None, Failed, Left}]
    /\ k \in [Wording -> 0 .. MaxAsked]
    /\ w = NoWait \/ w \in [at : Places(s), number : 0 .. MaxAsked - 1]

Shaped(n, v, k, w) ==
    /\ DOMAIN n = Strands /\ DOMAIN v = Strands /\ DOMAIN k = Strands /\ DOMAIN w = Strands
    /\ \A s \in Strands : Shape(s, n[s], v[s], k[s], w[s])
ShapeInv == Shaped(num, val, seen, waiting) /\ Shaped(saved.num, saved.val, saved.seen, saved.waiting)

Numbers(s, n, v, k, w) ==
    /\ \A i \in Places(s) : n[i] # Unnumbered =>
          /\ n[i] = Cardinality(Before(s, i))
          /\ \A j \in Before(s, i) : n[j] # Unnumbered
          /\ \A j \in Places(s) : TurnAt(s, j) < TurnAt(s, i) => v[j] # None
    /\ \A c \in Wording : k[c] = Cardinality(Numbered(s, n) \cap Alikes(s, c))
    /\ \A i \in Places(s) : v[i] # None => n[i] # Unnumbered
    /\ w # NoWait => w.at \in Places(s) /\ n[w.at] # Unnumbered /\ w.number = n[w.at]

NumbersInv ==
    /\ whole => \A s \in Agents : Numbers(s, num[s], val[s], seen[s], waiting[s])
    /\ saved.whole => \A s \in Agents :
          Numbers(s, saved.num[s], saved.val[s], saved.seen[s], saved.waiting[s])

LEMMA OfAStrand ==
    ASSUME NEW s \in Strands
    PROVE  /\ Places(s) \subseteq Nat \ {0}
           /\ \A i \in Places(s) : CallAt(s, i) \in Wording
           /\ \A i \in Places(s) : 1 .. i - 1 \subseteq Places(s) /\ Before(s, i) \subseteq Places(s)
           /\ \A S \in SUBSET Places(s) : IsFiniteSet(S) /\ Cardinality(S) \in Nat
           /\ \A i \in Places(s) : TurnAt(s, i) \in Nat
           /\ \A i, j \in Places(s) : i < j => TurnAt(s, i) <= TurnAt(s, j)
<1>1. Places(s) = 1 .. Len(Program[s]) /\ Len(Program[s]) \in Nat
  BY ProgramAssumption
<1>2. IsFiniteSet(Places(s))
  BY <1>1, FS_Interval
<1>3. \A S \in SUBSET Places(s) : IsFiniteSet(S) /\ Cardinality(S) \in Nat
  BY <1>2, FS_Subset, FS_CardinalityType
<1>4. \A i \in Places(s) : 1 .. i - 1 \subseteq Places(s)
  BY <1>1
<1>5. \A i \in Places(s) : CallAt(s, i) \in Wording
  BY DEF Wording
<1>6. /\ \A i \in Places(s) : TurnAt(s, i) \in Nat
      /\ \A i, j \in Places(s) : i < j => TurnAt(s, i) <= TurnAt(s, j)
  BY ProgramAssumption
<1>7. \A i \in Places(s) : Before(s, i) \subseteq Places(s)
  BY <1>4 DEF Before
<1>8. Places(s) \subseteq Nat \ {0}
  BY <1>1
<1> QED BY <1>3, <1>4, <1>5, <1>6, <1>7, <1>8

(* Calls T that are numbered together, or one alone. *)
Takes(s, n, v, k, T, n2, k2) ==
    /\ n \in [Places(s) -> Int] /\ k \in [Wording -> Int]
    /\ Numbers(s, n, v, k, NoWait)
    /\ T \in SUBSET Places(s) /\ T \cap Numbered(s, n) = {}
    /\ \A i \in T : Before(s, i) = (Numbered(s, n) \cap Alikes(s, CallAt(s, i)))
                                   \cup {j \in T : j < i /\ CallAt(s, j) = CallAt(s, i)}
    /\ \A i \in T : \A j \in Places(s) : TurnAt(s, j) < TurnAt(s, i) => v[j] # None
    /\ n2 \in [Places(s) -> Int] /\ k2 \in [Wording -> Int]
    /\ \A i \in Places(s) : n2[i] = IF i \in T THEN k[CallAt(s, i)] + Alike(s, i, T) ELSE n[i]
    /\ \A c \in Wording : k2[c] = k[c] + Cardinality({j \in T : CallAt(s, j) = c})

LEMMA TakenInOrder ==
    ASSUME NEW s \in Strands, NEW n, NEW v, NEW k, NEW T, NEW n2, NEW k2, Takes(s, n, v, k, T, n2, k2)
    PROVE  Numbers(s, n2, v, k2, NoWait)
<1> USE DEF Takes
<1>1. ASSUME NEW i \in T PROVE n2[i] = Cardinality(Before(s, i)) /\ n2[i] # Unnumbered
  <2> DEFINE A == Numbered(s, n) \cap Alikes(s, CallAt(s, i))
             B == {j \in T : j < i /\ CallAt(s, j) = CallAt(s, i)}
  <2>1. A \in SUBSET Places(s) /\ B \in SUBSET Places(s) /\ A \cap B = {}
    BY DEF Numbered
  <2>2. /\ IsFiniteSet(A) /\ IsFiniteSet(B) /\ Cardinality(A \cap B) = 0
        /\ Cardinality(A) \in Nat /\ Cardinality(B) \in Nat
    BY <2>1, OfAStrand, FS_EmptySet
  <2>3. Cardinality(A \cup B) = Cardinality(A) + Cardinality(B)
    <3> HIDE DEF A, B
    <3>1. Cardinality(A \cup B) = Cardinality(A) + Cardinality(B) - Cardinality(A \cap B)
      BY <2>2, FS_Union
    <3> QED BY <2>2, <3>1
  <2>4. k[CallAt(s, i)] = Cardinality(A) /\ Alike(s, i, T) = Cardinality(B)
    BY OfAStrand DEF Numbers, Alike
  <2>5. n2[i] = k[CallAt(s, i)] + Alike(s, i, T) /\ Before(s, i) = A \cup B
    OBVIOUS
  <2> HIDE DEF A, B
  <2> QED BY <2>2, <2>3, <2>4, <2>5 DEF Unnumbered
<1>2. \A i \in Places(s) \ T : n2[i] = n[i]
  OBVIOUS
<1>3. Numbered(s, n2) = Numbered(s, n) \cup T
  BY <1>1, <1>2 DEF Numbered
<1>4. ASSUME NEW i \in Places(s), n2[i] # Unnumbered
      PROVE  /\ n2[i] = Cardinality(Before(s, i))
             /\ \A j \in Before(s, i) : n2[j] # Unnumbered
             /\ \A j \in Places(s) : TurnAt(s, j) < TurnAt(s, i) => v[j] # None
  <2>1. CASE i \in T
    <3>1. ASSUME NEW j \in Before(s, i) PROVE n2[j] # Unnumbered
      <4>1. j \in Numbered(s, n) \cup T
        BY <2>1
      <4> QED BY <1>3, <4>1 DEF Numbered
    <3> QED BY <1>1, <2>1, <3>1
  <2>2. CASE i \notin T
    <3>1. n2[i] = n[i] /\ n[i] # Unnumbered
      BY <1>2, <1>4, <2>2
    <3>2. ASSUME NEW j \in Before(s, i) PROVE n2[j] # Unnumbered
      <4>1. j \in Places(s) /\ n[j] # Unnumbered
        BY <3>1, OfAStrand DEF Numbers
      <4> QED BY <1>1, <1>2, <4>1
    <3> QED BY <3>1, <3>2 DEF Numbers
  <2> QED BY <2>1, <2>2
<1>5. ASSUME NEW c \in Wording
      PROVE  k2[c] = Cardinality(Numbered(s, n2) \cap Alikes(s, c))
  <2> DEFINE A == Numbered(s, n) \cap Alikes(s, c)
             B == {j \in T : CallAt(s, j) = c}
  <2>1. A \in SUBSET Places(s) /\ B \in SUBSET Places(s) /\ A \cap B = {}
    BY DEF Numbered
  <2>2. Numbered(s, n2) \cap Alikes(s, c) = A \cup B
    BY <1>3 DEF Alikes
  <2>3. /\ IsFiniteSet(A) /\ IsFiniteSet(B) /\ Cardinality(A \cap B) = 0
        /\ Cardinality(A) \in Nat /\ Cardinality(B) \in Nat
    BY <2>1, OfAStrand, FS_EmptySet
  <2>4. k[c] = Cardinality(A) /\ k2[c] = k[c] + Cardinality(B)
    BY DEF Numbers
  <2> HIDE DEF A, B
  <2>5. Cardinality(A \cup B) = Cardinality(A) + Cardinality(B)
    <3>1. Cardinality(A \cup B) = Cardinality(A) + Cardinality(B) - Cardinality(A \cap B)
      BY <2>3, FS_Union
    <3> QED BY <2>3, <3>1
  <2> QED BY <2>2, <2>4, <2>5
<1>6. \A i \in Places(s) : v[i] # None => n2[i] # Unnumbered
  BY <1>1, <1>2 DEF Numbers
<1> QED BY <1>4, <1>5, <1>6 DEF Numbers

(* What stays of a strand no step of which was taken. *)
Same == UNCHANGED <<num, val, seen, waiting, whole, saved>>

LEMMA SameKept == ShapeInv /\ NumbersInv /\ Same => ShapeInv' /\ NumbersInv'
BY DEF ShapeInv, Shaped, NumbersInv, Same

(* A step of strand s that gives it these numbers, values, counts and wait. *)
Gives(s, n, v, k, w) ==
    /\ DOMAIN num' = Strands /\ DOMAIN val' = Strands /\ DOMAIN waiting' = Strands
    /\ DOMAIN seen' = Strands
    /\ num'[s] = n /\ val'[s] = v /\ seen'[s] = k /\ waiting'[s] = w
    /\ \A r \in Strands \ {s} : /\ num'[r] = num[r] /\ val'[r] = val[r]
                               /\ seen'[r] = seen[r] /\ waiting'[r] = waiting[r]
    /\ saved' = saved /\ (whole' => whole)

LEMMA StepKept ==
    ASSUME ShapeInv, NumbersInv, NEW s \in Strands, NEW n, NEW v, NEW k, NEW w, Gives(s, n, v, k, w),
           Shape(s, n, v, k, w), Kind[s] = "agent" /\ whole' => Numbers(s, n, v, k, w)
    PROVE  ShapeInv' /\ NumbersInv'
<1>1. /\ num'[s] = n /\ val'[s] = v /\ seen'[s] = k /\ waiting'[s] = w
      /\ saved' = saved /\ (whole' => whole)
  BY DEF Gives
<1>2. ASSUME NEW r \in Strands, r # s
      PROVE  num'[r] = num[r] /\ val'[r] = val[r] /\ seen'[r] = seen[r] /\ waiting'[r] = waiting[r]
  BY <1>2 DEF Gives
<1>3. DOMAIN num' = Strands /\ DOMAIN val' = Strands /\ DOMAIN waiting' = Strands /\ DOMAIN seen' = Strands
  BY DEF Gives
<1>4. ASSUME NEW r \in Strands PROVE Shape(r, num'[r], val'[r], seen'[r], waiting'[r])
  BY <1>1, <1>2 DEF ShapeInv, Shaped
<1>5. ASSUME whole', NEW r \in Agents PROVE Numbers(r, num'[r], val'[r], seen'[r], waiting'[r])
  <2>1. CASE r = s
    BY <1>1, <1>5, <2>1 DEF Agents
  <2>2. CASE r # s
    BY <1>1, <1>2, <1>5, <2>2 DEF Agents, NumbersInv
  <2> QED BY <2>1, <2>2
<1>6. ShapeInv'
  BY <1>1, <1>3, <1>4 DEF ShapeInv, Shaped
<1>7. NumbersInv'
  BY <1>1, <1>5 DEF NumbersInv
<1> QED BY <1>6, <1>7

(* What the shape of a strand says of it. *)
LEMMA ShapeOf ==
    ASSUME ShapeInv, NEW s \in Strands
    PROVE  /\ num[s] \in [Places(s) -> -1 .. MaxAsked - 1] /\ seen[s] \in [Wording -> 0 .. MaxAsked]
           /\ val[s] \in [Places(s) -> Answers \cup {None, Failed, Left}]
           /\ waiting[s] = NoWait \/ waiting[s] \in [at : Places(s), number : 0 .. MaxAsked - 1]
           /\ num[s] \in [Places(s) -> Int] /\ seen[s] \in [Wording -> Int]
           /\ \A i \in Places(s) : num[s][i] # Unnumbered => num[s][i] \in 0 .. MaxAsked - 1
           /\ waiting[s].number \in Int
<1>1. Shape(s, num[s], val[s], seen[s], waiting[s]) /\ MaxAsked \in Nat
  BY BoundsAssumption DEF ShapeInv, Shaped
<1>2. waiting[s].number \in Int
  BY <1>1 DEF Shape, NoWait, Unnumbered
<1>3. \A i \in Places(s) : num[s][i] # Unnumbered => num[s][i] \in 0 .. MaxAsked - 1
  BY <1>1 DEF Shape, Unnumbered
<1>4. num[s] \in [Places(s) -> Int] /\ seen[s] \in [Wording -> Int]
  BY <1>1 DEF Shape
<1> QED BY <1>1, <1>2, <1>3, <1>4 DEF Shape

(* The counts of a strand that takes these calls. *)
Counted(s, taken) == [c \in Wording |-> seen[s][c] + Cardinality({j \in taken : CallAt(s, j) = c})]

LEMMA CountGives ==
    ASSUME ShapeInv, NEW s \in Strands, NEW taken \in SUBSET Places(s), Count(s, taken)
    PROVE  /\ seen'[s] = Counted(s, taken) /\ Counted(s, taken) \in [Wording -> 0 .. MaxAsked]
           /\ Counted(s, taken) \in [Wording -> Int]
           /\ \A c \in Wording : seen[s][c] + Cardinality({j \in taken : CallAt(s, j) = c}) <= MaxAsked
           /\ DOMAIN seen' = Strands /\ \A r \in Strands \ {s} : seen'[r] = seen[r]
<1>1. /\ \A c \in Wording : Cardinality({j \in taken : CallAt(s, j) = c}) \in Nat
      /\ seen[s] \in [Wording -> 0 .. MaxAsked] /\ MaxAsked \in Nat /\ DOMAIN seen = Strands
  BY OfAStrand, ShapeOf, BoundsAssumption DEF ShapeInv, Shaped
<1>2. /\ seen'[s] = Counted(s, taken)
      /\ DOMAIN seen' = Strands /\ \A r \in Strands \ {s} : seen'[r] = seen[r]
  BY <1>1 DEF Count, Counted
<1>3. \A c \in Wording : Counted(s, taken)[c] = seen[s][c] + Cardinality({j \in taken : CallAt(s, j) = c})
  BY DEF Counted
<1>4. \A c \in Wording : Counted(s, taken)[c] <= MaxAsked
  BY <1>2 DEF Count
<1>5. ASSUME NEW c \in Wording PROVE Counted(s, taken)[c] \in 0 .. MaxAsked
  <2>1. PICK n : n = Cardinality({j \in taken : CallAt(s, j) = c})
    OBVIOUS
  <2>2. n \in Nat /\ seen[s][c] \in Nat /\ MaxAsked \in Nat
    BY <1>1, <2>1
  <2>3. Counted(s, taken)[c] = seen[s][c] + n /\ Counted(s, taken)[c] <= MaxAsked
    BY <1>3, <1>4, <2>1
  <2> QED BY <2>2, <2>3
<1>6. Counted(s, taken) \in [Wording -> 0 .. MaxAsked] /\ Counted(s, taken) \in [Wording -> Int]
  BY <1>5 DEF Counted
<1> QED BY <1>2, <1>3, <1>4, <1>6

(* Between its calls an agent waits for nothing and has the values of those  *)
(* it numbered.                                                              *)
LEMMA AtRest ==
    ASSUME whole, NumbersInv, NEW s \in Strands, Kind[s] = "agent", Goes(s), InFlight(s) = {}
    PROVE  /\ Numbers(s, num[s], val[s], seen[s], NoWait)
           /\ \A i \in Places(s) : num[s][i] # Unnumbered <=> val[s][i] # None
<1>1. waiting[s] = NoWait
  BY DEF Goes, Waits
<1>2. Numbers(s, num[s], val[s], seen[s], NoWait)
  BY <1>1 DEF NumbersInv, Agents
<1>3. ASSUME NEW i \in Places(s), num[s][i] # Unnumbered PROVE val[s][i] # None
  <2>1. waiting[s].at # i
    BY <1>1, OfAStrand DEF NoWait
  <2> QED BY <1>3, <2>1 DEF InFlight
<1> QED BY <1>1, <1>2, <1>3 DEF Numbers

LEMMA ReserveKeeps ==
    ASSUME ShapeInv, NumbersInv, NEW s \in Strands, NEW i \in Places(s), Reserve(s, i)
    PROVE  ShapeInv' /\ NumbersInv'
<1> DEFINE T == Together(s, TurnAt(s, i))
           n2 == [j \in Places(s) |->
                     IF j \in T THEN seen[s][CallAt(s, j)] + Alike(s, j, T) ELSE num[s][j]]
<1>1. T \in SUBSET Places(s) /\ Kind[s] = "agent" /\ waiting[s] = NoWait
  BY DEF Reserve, Together, Overlaps, Goes, Waits
<1>2. whole => /\ Numbers(s, num[s], val[s], seen[s], NoWait)
               /\ \A j \in Places(s) : num[s][j] # Unnumbered <=> val[s][j] # None
  BY <1>1, AtRest DEF Reserve
<1>3. /\ seen'[s] = Counted(s, T) /\ Counted(s, T) \in [Wording -> 0 .. MaxAsked]
      /\ Counted(s, T) \in [Wording -> Int]
      /\ \A c \in Wording : seen[s][c] + Cardinality({j \in T : CallAt(s, j) = c}) <= MaxAsked
      /\ DOMAIN seen' = Strands /\ \A r \in Strands \ {s} : seen'[r] = seen[r]
  BY <1>1, CountGives DEF Reserve
<1>4. n2 \in [Places(s) -> -1 .. MaxAsked - 1]
  <2>1. ASSUME NEW j \in T PROVE seen[s][CallAt(s, j)] + Alike(s, j, T) \in 0 .. MaxAsked - 1
    <3> DEFINE A == {l \in T : CallAt(s, l) = CallAt(s, j)}
               B == {l \in T : l < j /\ CallAt(s, l) = CallAt(s, j)}
    <3>1. A \in SUBSET Places(s) /\ B \in SUBSET Places(s) /\ j \in A /\ j \in Places(s)
      BY <1>1, <2>1
    <3>2. B \subseteq A \ {j}
      BY <3>1, OfAStrand
    <3>3. Alike(s, j, T) = Cardinality(B) /\ seen[s][CallAt(s, j)] + Cardinality(A) <= MaxAsked
      BY <1>3, <3>1, OfAStrand DEF Alike
    <3>4. seen[s][CallAt(s, j)] \in Nat /\ MaxAsked \in Nat
      BY <3>1, OfAStrand, ShapeOf, BoundsAssumption
    <3> HIDE DEF A, B, T
    <3>5. /\ IsFiniteSet(A) /\ Cardinality(A) \in Nat /\ Cardinality(B) \in Nat
          /\ Cardinality(A \ {j}) = Cardinality(A) - 1 /\ IsFiniteSet(A \ {j})
      BY <3>1, OfAStrand, FS_RemoveElement
    <3>6. Cardinality(B) <= Cardinality(A \ {j})
      BY <3>2, <3>5, FS_Subset
    <3> QED BY <3>3, <3>4, <3>5, <3>6
  <2>2. \A j \in Places(s) : num[s][j] \in -1 .. MaxAsked - 1
    BY ShapeOf
  <2>3. 0 .. MaxAsked - 1 \subseteq -1 .. MaxAsked - 1
    BY BoundsAssumption
  <2> HIDE DEF T
  <2> QED BY <2>1, <2>2, <2>3
<1>5. Gives(s, n2, val[s], Counted(s, T), NoWait)
  <2>1. num'[s] = n2 /\ DOMAIN num' = Strands /\ \A r \in Strands \ {s} : num'[r] = num[r]
    BY DEF Reserve, ShapeInv, Shaped
  <2>2. UNCHANGED <<val, waiting, whole, saved>>
    BY DEF Reserve
  <2> QED BY <1>1, <1>3, <2>1, <2>2 DEF Gives, ShapeInv, Shaped
<1>6. ASSUME whole PROVE Numbers(s, n2, val[s], Counted(s, T), NoWait)
  <2>1. T \cap Numbered(s, num[s]) = {}
    BY <1>2, <1>6 DEF Together, Numbered
  <2>2. ASSUME NEW j \in T
        PROVE  Before(s, j) = (Numbered(s, num[s]) \cap Alikes(s, CallAt(s, j)))
                              \cup {l \in T : l < j /\ CallAt(s, l) = CallAt(s, j)}
    <3>1. /\ j \in Places(s) /\ TurnAt(s, j) = TurnAt(s, i) /\ CallAt(s, j) \in Overlapping
          /\ num[s][j] = Unnumbered
      BY <2>1 DEF Together, Numbered
    <3>2. ASSUME NEW l \in Before(s, j)
          PROVE  l \in Numbered(s, num[s]) \cap Alikes(s, CallAt(s, j)) \/ (l \in T /\ l < j /\ CallAt(s, l) = CallAt(s, j))
      <4>1. l \in Places(s) /\ l < j /\ CallAt(s, l) = CallAt(s, j) /\ TurnAt(s, l) <= TurnAt(s, j)
        BY <3>1, OfAStrand DEF Before
      <4>2. CASE val[s][l] # None
        BY <1>2, <1>6, <4>1, <4>2 DEF Numbered, Alikes
      <4>3. CASE val[s][l] = None
        <5>1. TurnAt(s, l) = TurnAt(s, i)
          <6>1. ~(TurnAt(s, l) < TurnAt(s, i))
            BY <4>1, <4>3 DEF Reserve, TurnsBefore
          <6> QED BY <3>1, <4>1, <6>1, OfAStrand
        <5> QED BY <3>1, <4>1, <4>3, <5>1 DEF Together
      <4> QED BY <4>2, <4>3
    <3>3. ASSUME NEW l \in Numbered(s, num[s]) \cap Alikes(s, CallAt(s, j)) PROVE l \in Before(s, j)
      <4>1. l \in Places(s) /\ num[s][l] # Unnumbered /\ CallAt(s, l) = CallAt(s, j) /\ l # j
        BY <3>1 DEF Numbered, Alikes
      <4>2. ~(j < l)
        <5>1. j < l => j \in Before(s, l)
          BY <3>1, <4>1, OfAStrand DEF Before
        <5> QED BY <1>2, <1>6, <3>1, <4>1, <5>1 DEF Numbers
      <4> QED BY <3>1, <4>1, <4>2, OfAStrand DEF Before
    <3>4. ASSUME NEW l \in T, l < j, CallAt(s, l) = CallAt(s, j) PROVE l \in Before(s, j)
      BY <1>1, <3>1, <3>4, OfAStrand DEF Before
    <3> HIDE DEF T
    <3> QED BY <3>2, <3>3, <3>4
  <2>3. ASSUME NEW j \in T, NEW l \in Places(s), TurnAt(s, l) < TurnAt(s, j) PROVE val[s][l] # None
    BY <2>3 DEF Together, Reserve, TurnsBefore
  <2>4. Numbers(s, n2, val[s], Counted(s, T), NoWait)
    <3>1. num[s] \in [Places(s) -> Int] /\ seen[s] \in [Wording -> Int] /\ n2 \in [Places(s) -> Int]
      BY <1>4, ShapeOf
    <3>2. \A j \in Places(s) : n2[j] = IF j \in T THEN seen[s][CallAt(s, j)] + Alike(s, j, T) ELSE num[s][j]
      OBVIOUS
    <3>3. \A c \in Wording : Counted(s, T)[c] = seen[s][c] + Cardinality({j \in T : CallAt(s, j) = c})
      BY DEF Counted
    <3>4. \A j \in T : Before(s, j) = (Numbered(s, num[s]) \cap Alikes(s, CallAt(s, j)))
                                     \cup {l \in T : l < j /\ CallAt(s, l) = CallAt(s, j)}
      BY <2>2
    <3>5. \A j \in T : \A l \in Places(s) : TurnAt(s, l) < TurnAt(s, j) => val[s][l] # None
      BY <2>3
    <3> HIDE DEF T, n2
    <3>6. Takes(s, num[s], val[s], seen[s], T, n2, Counted(s, T))
      BY <1>1, <1>2, <1>3, <1>6, <2>1, <3>1, <3>2, <3>3, <3>4, <3>5 DEF Takes
    <3> QED BY <3>6, TakenInOrder
  <2> QED BY <2>4
<1>7. Shape(s, n2, val[s], Counted(s, T), NoWait)
  <2> HIDE DEF T, n2
  <2> QED BY <1>3, <1>4, ShapeOf DEF Shape
<1>8. whole' => whole
  BY DEF Reserve
<1> HIDE DEF T, n2
<1> QED BY <1>5, <1>6, <1>7, <1>8, StepKept

LEMMA TakeKeeps ==
    ASSUME ShapeInv, NumbersInv, NEW s \in Strands, NEW i \in Places(s), Take(s, i)
    PROVE  ShapeInv' /\ NumbersInv'
<1> DEFINE n2 == [num[s] EXCEPT ![i] = seen[s][CallAt(s, i)]]
<1>1. /\ num[s] \in [Places(s) -> Int] /\ seen[s] \in [Wording -> Int]
      /\ seen[s][CallAt(s, i)] \in 0 .. MaxAsked - 1
  <2>1. /\ num[s] \in [Places(s) -> Int] /\ seen[s] \in [Wording -> Int]
        /\ CallAt(s, i) \in Wording /\ seen[s][CallAt(s, i)] \in Nat /\ MaxAsked \in Nat
    BY OfAStrand, ShapeOf, BoundsAssumption
  <2>2. {j \in {i} : CallAt(s, j) = CallAt(s, i)} = {i} /\ Cardinality({i}) = 1
    BY FS_Singleton
  <2>3. seen[s][CallAt(s, i)] + 1 <= MaxAsked
    BY <2>1, <2>2, CountGives DEF Take
  <2> QED BY <2>1, <2>3
<1>2. n2 \in [Places(s) -> -1 .. MaxAsked - 1] /\ n2 \in [Places(s) -> Int]
  <2>1. num[s] \in [Places(s) -> -1 .. MaxAsked - 1] /\ MaxAsked \in Nat
    BY ShapeOf, BoundsAssumption
  <2> QED BY <1>1, <2>1
<1>3. /\ seen'[s] = Counted(s, {i}) /\ Counted(s, {i}) \in [Wording -> 0 .. MaxAsked]
      /\ Counted(s, {i}) \in [Wording -> Int]
      /\ DOMAIN seen' = Strands /\ \A r \in Strands \ {s} : seen'[r] = seen[r]
  BY CountGives DEF Take
<1>4. Gives(s, n2, val[s], Counted(s, {i}), waiting[s])
  <2>1. num'[s] = n2 /\ DOMAIN num' = Strands /\ \A r \in Strands \ {s} : num'[r] = num[r]
    BY DEF Take, ShapeInv, Shaped
  <2>2. UNCHANGED <<val, waiting, whole, saved>>
    BY DEF Take
  <2> QED BY <1>3, <2>1, <2>2 DEF Gives, ShapeInv, Shaped
<1>5. ASSUME Kind[s] = "agent", whole PROVE Numbers(s, n2, val[s], Counted(s, {i}), waiting[s])
  <2>1. /\ Numbers(s, num[s], val[s], seen[s], NoWait) /\ waiting[s] = NoWait
        /\ \A j \in Places(s) : num[s][j] # Unnumbered <=> val[s][j] # None
    BY <1>5, AtRest DEF Take, Goes, Waits
  <2>2. {i} \in SUBSET Places(s) /\ {i} \cap Numbered(s, num[s]) = {}
    BY DEF Take, Numbered
  <2>3. ASSUME NEW j \in Before(s, i) PROVE j \in Numbered(s, num[s]) \cap Alikes(s, CallAt(s, i))
    <3>1. j \in Places(s) /\ j < i /\ CallAt(s, j) = CallAt(s, i) /\ TurnAt(s, j) <= TurnAt(s, i)
      BY OfAStrand DEF Before
    <3>2. val[s][j] # None
      <4>1. CASE TurnAt(s, j) < TurnAt(s, i)
        BY <3>1, <4>1 DEF Take, TurnsBefore
      <4>2. CASE TurnAt(s, j) = TurnAt(s, i)
        <5>1. j # i
          BY <3>1, OfAStrand
        <5> QED BY <3>1, <4>2, <5>1 DEF Take
      <4> QED BY <3>1, <4>1, <4>2, OfAStrand
    <3> QED BY <2>1, <3>1, <3>2 DEF Numbered, Alikes
  <2>4. ASSUME NEW j \in Numbered(s, num[s]) \cap Alikes(s, CallAt(s, i)) PROVE j \in Before(s, i)
    <3>1. j \in Places(s) /\ num[s][j] # Unnumbered /\ CallAt(s, j) = CallAt(s, i) /\ j # i
      BY DEF Numbered, Alikes, Take
    <3>2. ~(i < j)
      <4>1. i < j => i \in Before(s, j)
        BY <3>1, OfAStrand DEF Before
      <4> QED BY <2>1, <3>1, <4>1 DEF Numbers, Take
    <3> QED BY <3>1, <3>2, OfAStrand DEF Before
  <2>5. {j \in {i} : j < i /\ CallAt(s, j) = CallAt(s, i)} = {}
    BY OfAStrand
  <2>6. Alike(s, i, {i}) = 0
    BY <2>5, FS_EmptySet DEF Alike
  <2>7. \A k \in {i} : Before(s, k) = (Numbered(s, num[s]) \cap Alikes(s, CallAt(s, k)))
                                       \cup {j \in {i} : j < k /\ CallAt(s, j) = CallAt(s, k)}
    BY <2>3, <2>4, <2>5
  <2>8. \A k \in {i} : \A j \in Places(s) : TurnAt(s, j) < TurnAt(s, k) => val[s][j] # None
    BY DEF Take, TurnsBefore
  <2>9. \A k \in Places(s) : n2[k] = IF k \in {i} THEN seen[s][CallAt(s, k)] + Alike(s, k, {i}) ELSE num[s][k]
    BY <1>1, <2>6
  <2>10. \A c \in Wording : Counted(s, {i})[c] = seen[s][c] + Cardinality({j \in {i} : CallAt(s, j) = c})
    BY DEF Counted
  <2> HIDE DEF n2
  <2>11. Takes(s, num[s], val[s], seen[s], {i}, n2, Counted(s, {i}))
    BY <1>1, <1>2, <1>3, <2>1, <2>2, <2>7, <2>8, <2>9, <2>10 DEF Takes
  <2>12. Numbers(s, n2, val[s], Counted(s, {i}), NoWait)
    BY <2>11, TakenInOrder
  <2> QED BY <2>1, <2>12
<1>6. Shape(s, n2, val[s], Counted(s, {i}), waiting[s])
  <2> HIDE DEF n2
  <2> QED BY <1>2, <1>3, ShapeOf DEF Shape
<1>7. whole' => whole
  BY DEF Take
<1> HIDE DEF n2
<1> QED BY <1>4, <1>5, <1>6, <1>7, StepKept

(* An answer is written at a call that has its number. *)
LEMMA AnswerKeeps ==
    ASSUME ShapeInv, NumbersInv, NEW s \in Strands, NEW i \in Places(s), num[s][i] # Unnumbered,
           NEW a \in Answers, val' = [val EXCEPT ![s][i] = a], UNCHANGED <<num, seen, waiting, saved, whole>>
    PROVE  ShapeInv' /\ NumbersInv'
<1> DEFINE v2 == [val[s] EXCEPT ![i] = a]
<1>1. DOMAIN val[s] = Places(s) /\ a # None
  BY ShapeOf, ProgramAssumption
<1>2. \A j \in Places(s) : v2[j] = IF j = i THEN a ELSE val[s][j]
  BY <1>1
<1>3. Gives(s, num[s], v2, seen[s], waiting[s])
  BY DEF Gives, ShapeInv, Shaped
<1>4. ASSUME Kind[s] = "agent", whole PROVE Numbers(s, num[s], v2, seen[s], waiting[s])
  <2>1. Numbers(s, num[s], val[s], seen[s], waiting[s])
    BY <1>4 DEF NumbersInv, Agents
  <2> HIDE DEF v2
  <2> QED BY <1>1, <1>2, <2>1 DEF Numbers
<1>5. v2 \in [Places(s) -> Answers \cup {None, Failed, Left}]
  BY ShapeOf
<1> HIDE DEF v2
<1>6. Shape(s, num[s], v2, seen[s], waiting[s])
  BY <1>5, ShapeOf DEF Shape
<1> QED BY <1>3, <1>4, <1>6, StepKept

LEMMA SuspendKeeps ==
    ASSUME ShapeInv, NumbersInv, NEW s \in Strands, NEW i \in Places(s), Suspend(s, i)
    PROVE  ShapeInv' /\ NumbersInv'
<1> DEFINE w == [at |-> i, number |-> num[s][i]]
<1>1. num[s][i] # Unnumbered /\ num[s][i] \in 0 .. MaxAsked - 1
  BY ShapeOf DEF Suspend, Missing, InFlight
<1>2. Gives(s, num[s], val[s], seen[s], w)
  BY DEF Suspend, Gives, ShapeInv, Shaped
<1>3. w.at = i /\ w.number = num[s][i] /\ w \in [at : Places(s), number : 0 .. MaxAsked - 1]
  BY <1>1
<1>4. ASSUME Kind[s] = "agent", whole PROVE Numbers(s, num[s], val[s], seen[s], w)
  <2>1. Numbers(s, num[s], val[s], seen[s], waiting[s])
    BY <1>4 DEF NumbersInv, Agents
  <2> HIDE DEF w
  <2> QED BY <1>1, <1>3, <2>1 DEF Numbers
<1>5. whole' => whole
  BY DEF Suspend
<1> HIDE DEF w
<1>6. Shape(s, num[s], val[s], seen[s], w)
  BY <1>3, ShapeOf DEF Shape
<1> QED BY <1>2, <1>4, <1>5, <1>6, StepKept

(* A strand that waits does so at a call, under a number. *)
LEMMA WaitsAt ==
    ASSUME ShapeInv, NEW s \in Strands, Waits(s)
    PROVE  /\ waiting[s].at \in Places(s) /\ waiting[s].number \in 0 .. MaxAsked - 1
           /\ waiting[s].number \in Nat /\ waiting[s].number # Unnumbered
<1>1. waiting[s].at \in Places(s) /\ waiting[s].number \in 0 .. MaxAsked - 1
  BY ShapeOf DEF Waits
<1> QED BY <1>1, BoundsAssumption DEF Unnumbered

(* The call an agent waited at has the number it took. *)
LEMMA DeliverKeeps ==
    ASSUME ShapeInv, NumbersInv, NEW s \in Strands, NEW a \in Answers, Deliver(s, a)
    PROVE  ShapeInv' /\ NumbersInv'
<1> DEFINE i == waiting[s].at
           n2 == [num[s] EXCEPT ![i] = waiting[s].number]
           v2 == [val[s] EXCEPT ![i] = a]
<1>1. /\ num[s] \in [Places(s) -> -1 .. MaxAsked - 1] /\ val[s] \in [Places(s) -> Answers \cup {None, Failed, Left}]
      /\ i \in Places(s) /\ waiting[s].number \in 0 .. MaxAsked - 1
  BY ShapeOf, WaitsAt DEF Deliver
<1>2. n2 \in [Places(s) -> -1 .. MaxAsked - 1] /\ v2 \in [Places(s) -> Answers \cup {None, Failed, Left}]
  <2>1. waiting[s].number \in -1 .. MaxAsked - 1
    BY <1>1, BoundsAssumption
  <2> QED BY <1>1, <2>1
<1>3. Gives(s, n2, v2, seen[s], NoWait)
  BY DEF Deliver, Gives, ShapeInv, Shaped
<1>4. ASSUME Kind[s] = "agent", whole PROVE Numbers(s, n2, v2, seen[s], NoWait)
  <2>1. Numbers(s, num[s], val[s], seen[s], waiting[s]) /\ waiting[s] # NoWait
    BY <1>4 DEF NumbersInv, Agents, Deliver, Waits
  <2>2. i \in Places(s) /\ num[s][i] # Unnumbered /\ waiting[s].number = num[s][i]
    BY <2>1 DEF Numbers
  <2>3. n2 = num[s]
    BY <1>1, <2>2
  <2>4. \A j \in Places(s) : v2[j] = IF j = i THEN a ELSE val[s][j]
    BY <1>1
  <2>5. a # None
    BY ProgramAssumption
  <2> HIDE DEF i, n2, v2
  <2> QED BY <2>1, <2>2, <2>3, <2>4, <2>5 DEF Numbers
<1>5. whole' => whole
  BY DEF Deliver
<1> HIDE DEF i, n2, v2
<1>6. Shape(s, n2, v2, seen[s], NoWait)
  BY <1>2, ShapeOf DEF Shape
<1> QED BY <1>3, <1>4, <1>5, <1>6, StepKept

(* A node that failed and was run again, or left, or whose function caught it. *)
LEMMA LossKeeps ==
    ASSUME ShapeInv, NumbersInv, NEW s \in Strands, Retry(s) \/ Leave(s) \/ \E i \in Places(s) : Catch(s, i)
    PROVE  ShapeInv' /\ NumbersInv'
<1>1. ~whole' /\ saved' = saved
  BY DEF Retry, Leave, Catch, GoesOn
<1>2. /\ num[s] \in [Places(s) -> -1 .. MaxAsked - 1] /\ val[s] \in [Places(s) -> Answers \cup {None, Failed, Left}]
      /\ -1 \in -1 .. MaxAsked - 1
  BY ShapeOf, BoundsAssumption
<1>3. CASE Retry(s)
  <2> DEFINE n2 == [i \in Places(s) |-> IF Kept(s, i) THEN num[s][i] ELSE Unnumbered]
             v2 == [i \in Places(s) |-> IF Kept(s, i) THEN val[s][i] ELSE None]
  <2>1. n2 \in [Places(s) -> -1 .. MaxAsked - 1] /\ v2 \in [Places(s) -> Answers \cup {None, Failed, Left}]
    BY <1>2 DEF Unnumbered
  <2>2. Gives(s, n2, v2, seen[s], waiting[s])
    BY <1>1, <1>3 DEF Retry, Gives, ShapeInv, Shaped
  <2> HIDE DEF n2, v2
  <2>3. Shape(s, n2, v2, seen[s], waiting[s])
    BY <2>1, ShapeOf DEF Shape
  <2> QED BY <1>1, <2>2, <2>3, StepKept
<1>4. CASE Leave(s)
  <2> DEFINE v2 == [i \in Places(s) |-> Left]
  <2>1. v2 \in [Places(s) -> Answers \cup {None, Failed, Left}]
    OBVIOUS
  <2>2. Gives(s, num[s], v2, seen[s], NoWait)
    BY <1>1, <1>4 DEF Leave, Gives, ShapeInv, Shaped
  <2> HIDE DEF v2
  <2>3. Shape(s, num[s], v2, seen[s], NoWait)
    BY <2>1, ShapeOf DEF Shape
  <2> QED BY <1>1, <2>2, <2>3, StepKept
<1>5. ASSUME NEW i \in Places(s), Catch(s, i) PROVE ShapeInv' /\ NumbersInv'
  <2> DEFINE v2 == [val[s] EXCEPT ![i] = Failed]
  <2>1. v2 \in [Places(s) -> Answers \cup {None, Failed, Left}]
    BY <1>2
  <2>2. Gives(s, num[s], v2, seen[s], waiting[s])
    BY <1>1, <1>5 DEF Catch, Gives, ShapeInv, Shaped
  <2> HIDE DEF v2
  <2>3. Shape(s, num[s], v2, seen[s], waiting[s])
    BY <2>1, ShapeOf DEF Shape
  <2> QED BY <1>1, <2>2, <2>3, StepKept
<1> QED BY <1>3, <1>4, <1>5

LEMMA StopKeeps ==
    ASSUME ShapeInv, NumbersInv, Stop PROVE ShapeInv' /\ NumbersInv'
<1>1. /\ saved'.num = num /\ saved'.val = val /\ saved'.seen = seen /\ saved'.waiting = waiting
      /\ saved'.whole = whole /\ UNCHANGED <<num, val, seen, waiting, whole>>
  BY DEF Stop
<1>2. ShapeInv'
  BY <1>1 DEF ShapeInv, Shaped
<1>3. NumbersInv'
  BY <1>1 DEF NumbersInv
<1> QED BY <1>2, <1>3

(* What a resumed run begins with: what was written down, but for a function  *)
(* that runs again.                                                           *)
LEMMA ResumeKeeps ==
    ASSUME ShapeInv, NumbersInv, Resume PROVE ShapeInv' /\ NumbersInv'
<1>1. ASSUME NEW s \in Strands
      PROVE  /\ num'[s] = [i \in Places(s) |-> IF RunsAgain(s) THEN Unnumbered ELSE saved.num[s][i]]
             /\ val'[s] = [i \in Places(s) |-> IF RunsAgain(s) THEN None ELSE saved.val[s][i]]
  BY DEF Resume
<1>2. seen' = saved.seen /\ waiting' = saved.waiting /\ whole' = saved.whole /\ saved' = saved
  BY DEF Resume
<1>3. ShapeInv'
  <2>1. DOMAIN num' = Strands /\ DOMAIN val' = Strands
    BY DEF Resume
  <2>2. ASSUME NEW s \in Strands PROVE Shape(s, num'[s], val'[s], seen'[s], waiting'[s])
    <3>1. Shape(s, saved.num[s], saved.val[s], saved.seen[s], saved.waiting[s]) /\ Unnumbered \in -1 .. MaxAsked - 1
      BY BoundsAssumption DEF ShapeInv, Shaped, Unnumbered
    <3>2. /\ num'[s] \in [Places(s) -> -1 .. MaxAsked - 1]
          /\ val'[s] \in [Places(s) -> Answers \cup {None, Failed, Left}]
      BY <1>1, <3>1 DEF Shape
    <3> QED BY <1>2, <3>1, <3>2 DEF Shape
  <2> QED BY <1>2, <2>1, <2>2 DEF ShapeInv, Shaped
<1>4. ASSUME saved.whole, NEW s \in Agents PROVE Numbers(s, num'[s], val'[s], seen'[s], waiting'[s])
  <2>1. s \in Strands /\ ~RunsAgain(s)
    BY DEF Agents, RunsAgain
  <2>2. \A i \in Places(s) : num'[s][i] = saved.num[s][i] /\ val'[s][i] = saved.val[s][i]
    <3>1. /\ num'[s] = [i \in Places(s) |-> IF RunsAgain(s) THEN Unnumbered ELSE saved.num[s][i]]
          /\ val'[s] = [i \in Places(s) |-> IF RunsAgain(s) THEN None ELSE saved.val[s][i]]
      BY <1>1, <2>1
    <3> QED BY <2>1, <3>1
  <2>3. Numbered(s, num'[s]) = Numbered(s, saved.num[s])
    BY <2>2 DEF Numbered
  <2>4. \A i \in Places(s) : Before(s, i) \subseteq Places(s)
    BY <2>1, OfAStrand
  <2>5. Numbers(s, saved.num[s], saved.val[s], saved.seen[s], saved.waiting[s])
    BY <1>4 DEF NumbersInv
  <2>6. seen'[s] = saved.seen[s] /\ waiting'[s] = saved.waiting[s]
    BY <1>2
  <2> QED BY <2>1, <2>2, <2>3, <2>4, <2>5, <2>6 DEF Numbers
<1>5. NumbersInv'
  BY <1>2, <1>4 DEF NumbersInv
<1> QED BY <1>3, <1>5

(* A run begins with no call made. *)
LEMMA FreshNumbers ==
    ASSUME NEW s \in Strands
    PROVE  Numbers(s, [i \in Places(s) |-> Unnumbered], [i \in Places(s) |-> None],
                   [c \in Wording |-> 0], NoWait)
<1>1. Numbered(s, [i \in Places(s) |-> Unnumbered]) = {}
  BY DEF Numbered
<1>2. \A c \in Wording : Cardinality({} \cap Alikes(s, c)) = 0
  BY FS_EmptySet
<1> QED BY <1>1, <1>2 DEF Numbers

LEMMA BegunKept ==
    /\ Shaped(Begun.num, Begun.val, Begun.seen, Begun.waiting)
    /\ \A s \in Agents : Numbers(s, Begun.num[s], Begun.val[s], Begun.seen[s], Begun.waiting[s])
<1>1. /\ Begun.num = [s \in Strands |-> [i \in Places(s) |-> Unnumbered]]
      /\ Begun.val = [s \in Strands |-> [i \in Places(s) |-> None]]
      /\ Begun.seen = [s \in Strands |-> [c \in Wording |-> 0]]
      /\ Begun.waiting = [s \in Strands |-> NoWait]
  BY DEF Begun
<1>2. Unnumbered \in -1 .. MaxAsked - 1 /\ 0 \in 0 .. MaxAsked
  BY BoundsAssumption DEF Unnumbered
<1>3. ASSUME NEW s \in Strands
      PROVE  Shape(s, [i \in Places(s) |-> Unnumbered], [i \in Places(s) |-> None], [c \in Wording |-> 0], NoWait)
  BY <1>2 DEF Shape
<1>4. Shaped(Begun.num, Begun.val, Begun.seen, Begun.waiting)
  BY <1>1, <1>3 DEF Shaped
<1>5. ASSUME NEW s \in Agents PROVE Numbers(s, Begun.num[s], Begun.val[s], Begun.seen[s], Begun.waiting[s])
  BY <1>1, FreshNumbers DEF Agents
<1> QED BY <1>4, <1>5

LEMMA NextRunKeeps ==
    ASSUME Fresh PROVE ShapeInv' /\ NumbersInv'
BY BegunKept DEF Fresh, ShapeInv, NumbersInv, Shaped

-----------------------------------------------------------------------------
(* The file.                                                                *)
FileInv ==
    /\ DOMAIN file = Keys
    /\ \A k \in Keys : file[k] \in Seq(Answers) /\ IsInjective(file[k])

WaitKey(s) == <<s, CallAt(s, waiting[s].at), waiting[s].number>>

LEMMA KeyIn ==
    ASSUME NEW s \in Strands, NEW c \in Wording, NEW n \in 0 .. MaxAsked - 1 PROVE <<s, c, n>> \in Keys
BY DEF Keys

LEMMA NumberedIn ==
    ASSUME ShapeInv, NEW s \in Strands, NEW i \in Places(s), num[s][i] # Unnumbered
    PROVE  num[s][i] \in Nat /\ KeyOf(s, i) \in Keys /\ KeyOf(s, i)[1] = s
<1>1. CallAt(s, i) \in Wording /\ num[s][i] \in 0 .. MaxAsked - 1 /\ num[s][i] \in Nat
  BY OfAStrand, ShapeOf, BoundsAssumption
<1> QED BY <1>1, KeyIn DEF KeyOf

LEMMA WaitKeyIn ==
    ASSUME ShapeInv, NEW s \in Strands, Waits(s)
    PROVE  /\ WaitKey(s) \in Keys /\ WaitKey(s)[1] = s
           /\ waiting[s].at \in Places(s) /\ waiting[s].number \in Nat /\ waiting[s].number # Unnumbered
<1>1. /\ waiting[s].at \in Places(s) /\ waiting[s].number \in 0 .. MaxAsked - 1
      /\ waiting[s].number \in Nat /\ waiting[s].number # Unnumbered
  BY WaitsAt
<1> QED BY <1>1, KeyIn, OfAStrand DEF WaitKey

(* So has every number below what was counted. *)
LEMMA SeenIn ==
    ASSUME ShapeInv, NEW s \in Strands, NEW c \in Wording
    PROVE  /\ seen[s][c] \in Nat
           /\ \A n \in Nat : n < seen[s][c] => <<s, c, n>> \in Keys
<1>1. seen[s][c] \in 0 .. MaxAsked /\ seen[s][c] \in Nat /\ MaxAsked \in Nat
  BY ShapeOf, BoundsAssumption
<1>2. \A n \in Nat : n < seen[s][c] => n \in 0 .. MaxAsked - 1
  BY <1>1
<1> QED BY <1>1, <1>2, KeyIn

(* Cassette.store adds an answer at the end and takes nothing away. *)
Grows ==
    \A k \in Keys : /\ Range(file[k]) \subseteq Range(file'[k])
                    /\ file[k] # <<>> => file'[k] # <<>> /\ Head(file'[k]) = Head(file[k])

LEMMA Stored ==
    ASSUME FileInv, NEW k \in Keys, NEW v \in Answers, file' = Store(k, v)
    PROVE  /\ FileInv' /\ Grows /\ v \in Range(file'[k]) /\ file'[k] # <<>>
           /\ \A l \in Keys \ {k} : file'[l] = file[l]
           /\ file[k] = <<>> => Head(file'[k]) = v
<1>1. file[k] \in Seq(Answers) /\ IsInjective(file[k])
  BY DEF FileInv
<1>2. \A l \in Keys \ {k} : file'[l] = file[l]
  BY DEF FileInv, Store
<1>3. CASE v \in Range(file[k])
  <2>1. file' = file
    BY <1>3 DEF Store
  <2>2. file[k] # <<>>
    BY <1>1, <1>3 DEF Range
  <2> QED BY <1>2, <1>3, <2>1, <2>2 DEF FileInv, Grows, Lookup
<1>4. CASE v \notin Range(file[k])
  <2>1. file'[k] = Append(file[k], v) /\ DOMAIN file' = Keys
    BY <1>4 DEF FileInv, Store
  <2>2. Append(file[k], v) \in Seq(Answers) /\ Append(file[k], v) # <<>>
    BY <1>1
  <2>3. DOMAIN Append(file[k], v) = 1 .. Len(file[k]) + 1 /\ DOMAIN file[k] = 1 .. Len(file[k]) /\ Len(file[k]) \in Nat
    BY <1>1
  <2>4. \A j \in 1 .. Len(file[k]) : Append(file[k], v)[j] = file[k][j]
    BY <1>1
  <2>5. Append(file[k], v)[Len(file[k]) + 1] = v
    BY <1>1
  <2>6. IsInjective(Append(file[k], v))
    BY <1>1, <1>4, <2>3, <2>4, <2>5 DEF IsInjective, Range
  <2>7. Range(file[k]) \subseteq Range(Append(file[k], v)) /\ v \in Range(Append(file[k], v))
    BY <2>3, <2>4, <2>5 DEF Range
  <2>8. file[k] # <<>> => Head(Append(file[k], v)) = Head(file[k])
    BY <1>1
  <2>9. file[k] = <<>> => Head(Append(file[k], v)) = v
    BY <1>1
  <2>10. FileInv'
    BY <1>2, <2>1, <2>2, <2>6 DEF FileInv
  <2>11. Grows
    <3>1. ASSUME NEW l \in Keys
          PROVE  /\ Range(file[l]) \subseteq Range(file'[l])
                 /\ file[l] # <<>> => file'[l] # <<>> /\ Head(file'[l]) = Head(file[l])
      <4>1. CASE l = k
        BY <2>1, <2>2, <2>7, <2>8, <4>1 DEF Lookup
      <4>2. CASE l # k
        BY <1>2, <4>2 DEF Lookup
      <4> QED BY <4>1, <4>2
    <3> QED BY <3>1 DEF Grows
  <2> QED BY <1>2, <2>1, <2>2, <2>7, <2>9, <2>10, <2>11 DEF Lookup
<1> QED BY <1>3, <1>4

LEMMA Looked ==
    ASSUME FileInv, NEW k \in Keys
    PROVE  (Lookup(k) = None <=> file[k] = <<>>) /\ (Lookup(k) # None => Lookup(k) \in Range(file[k]) /\ Lookup(k) \in Answers)
<1>1. file[k] \in Seq(Answers)
  BY DEF FileInv
<1>2. file[k] # <<>> => Head(file[k]) \in Answers /\ Head(file[k]) \in Range(file[k])
  BY <1>1 DEF Range
<1> QED BY <1>2, ProgramAssumption DEF Lookup

LEMMA InFlightIn == ASSUME NEW s \in Strands, NEW i \in InFlight(s)
                    PROVE  i \in Places(s) /\ num[s][i] # Unnumbered /\ val[s][i] = None
BY DEF InFlight

IInv == ShapeInv /\ NumbersInv /\ FileInv

LEMMA InitIInv == Init => IInv
<1> SUFFICES ASSUME Init PROVE IInv
  OBVIOUS
<1>1. ShapeInv /\ NumbersInv
  BY BegunKept DEF Init, ShapeInv, NumbersInv, Shaped
<1>2. FileInv
  BY DEF Init, FileInv, IsInjective
<1> QED BY <1>1, <1>2 DEF IInv

LEMMA NextFile ==
    ASSUME ShapeInv, FileInv, [Next]_vars PROVE FileInv' /\ Grows
<1>1. file' = file => FileInv' /\ Grows
  BY DEF FileInv, Grows
<1>2. ASSUME NEW s \in Strands, NEW v \in Answers, Deliver(s, v) PROVE FileInv' /\ Grows
  <2>1. WaitKey(s) \in Keys /\ file' = Store(WaitKey(s), v)
    BY <1>2, WaitKeyIn DEF Deliver, WaitKey
  <2> QED BY <2>1, Stored
<1>3. ASSUME NEW s \in Strands, NEW v \in Answers, NEW i \in Places(s), Live(s, i, v) PROVE FileInv' /\ Grows
  <2>1. KeyOf(s, i) \in Keys /\ file' = Store(KeyOf(s, i), v)
    BY <1>3, NumberedIn, InFlightIn DEF Live, Missing
  <2> QED BY <2>1, Stored
<1>4. ASSUME NEW s \in Strands, Works(s) PROVE FileInv' /\ Grows
  <2>1. ASSUME NEW i \in Places(s),
               Reserve(s, i) \/ Take(s, i) \/ Serve(s, i) \/ Miss(s, i) \/ Suspend(s, i) \/ Catch(s, i)
        PROVE  file' = file
    BY <2>1 DEF Reserve, Take, Serve, Miss, Suspend, Catch
  <2>2. ASSUME Fail(s) \/ Retry(s) \/ Leave(s) PROVE file' = file
    BY <2>2 DEF Fail, Retry, Leave
  <2> QED BY <1>1, <1>2, <1>3, <1>4, <2>1, <2>2 DEF Works
<1>5. UNCHANGED vars \/ Stop \/ Resume \/ EndRun \/ (\E m \in {"record", "update", "replay"} : NextRun(m)) => file' = file
  BY DEF vars, Stop, Resume, EndRun, NextRun
<1> QED BY <1>1, <1>4, <1>5 DEF Next

LEMMA NextIInv == IInv /\ [Next]_vars => IInv'
<1> SUFFICES ASSUME ShapeInv, NumbersInv, FileInv, [Next]_vars PROVE ShapeInv' /\ NumbersInv'
  BY NextFile DEF IInv
<1>1. CASE UNCHANGED vars \/ EndRun
  BY <1>1, SameKept DEF vars, EndRun, Same
<1>2. CASE Resume \/ Stop
  BY <1>2, ResumeKeeps, StopKeeps
<1>3. ASSUME NEW m \in {"record", "update", "replay"}, NextRun(m) PROVE ShapeInv' /\ NumbersInv'
  BY <1>3, NextRunKeeps DEF NextRun
<1>4. ASSUME NEW s \in Strands, Works(s) PROVE ShapeInv' /\ NumbersInv'
  <2>1. ASSUME NEW i \in Places(s), Reserve(s, i) PROVE ShapeInv' /\ NumbersInv'
    BY <2>1, ReserveKeeps
  <2>2. ASSUME NEW i \in Places(s), Take(s, i) PROVE ShapeInv' /\ NumbersInv'
    BY <2>2, TakeKeeps
  <2>3. ASSUME NEW i \in Places(s), Serve(s, i) PROVE ShapeInv' /\ NumbersInv'
    <3>1. val' = [val EXCEPT ![s][i] = Lookup(KeyOf(s, i))] /\ UNCHANGED <<num, seen, waiting, saved, whole>>
      BY <2>3 DEF Serve
    <3>2. num[s][i] # Unnumbered /\ KeyOf(s, i) \in Keys
      BY <2>3, InFlightIn, NumberedIn DEF Serve
    <3>3. Lookup(KeyOf(s, i)) \in Answers
      BY <2>3, <3>2, Looked DEF Serve
    <3> QED BY <3>1, <3>2, <3>3, AnswerKeeps
  <2>4. ASSUME (\E i \in Places(s) : Miss(s, i)) \/ Fail(s) PROVE ShapeInv' /\ NumbersInv'
    BY <2>4, SameKept DEF Miss, Fail, Same
  <2>5. ASSUME NEW i \in Places(s), Suspend(s, i) PROVE ShapeInv' /\ NumbersInv'
    BY <2>5, SuspendKeeps
  <2>6. ASSUME NEW a \in Answers, Deliver(s, a) PROVE ShapeInv' /\ NumbersInv'
    BY <2>6, DeliverKeeps
  <2>7. ASSUME NEW a \in Answers, NEW i \in Places(s), Live(s, i, a) PROVE ShapeInv' /\ NumbersInv'
    <3>1. val' = [val EXCEPT ![s][i] = a] /\ UNCHANGED <<num, seen, waiting, saved, whole>>
      BY <2>7 DEF Live
    <3>2. num[s][i] # Unnumbered
      BY <2>7 DEF Live, Missing, InFlight
    <3> QED BY <3>1, <3>2, AnswerKeeps
  <2> QED BY <1>4, <2>1, <2>2, <2>3, <2>4, <2>5, <2>6, <2>7, LossKeeps DEF Works
<1> QED BY <1>1, <1>2, <1>3, <1>4 DEF Next

(* An agent's call has the number of its place among the calls that ask the   *)
(* same, whatever overlapped and wherever the run stopped, so long as it went *)
(* on from no failure.                                                        *)
THEOREM PlacesGiveNumbers == Spec => []NumberedByPlace
<1>1. IInv => NumberedByPlace
  <2> SUFFICES ASSUME IInv, NEW s \in Strands, Kind[s] = "agent", whole, NEW i \in Places(s),
                      num[s][i] # Unnumbered
               PROVE  num[s][i] = Cardinality(Before(s, i))
    BY DEF NumberedByPlace, Before
  <2> QED BY DEF IInv, NumbersInv, Agents, Numbers
<1> QED BY <1>1, InitIInv, NextIInv, PTL DEF Spec

-----------------------------------------------------------------------------
(* The run.                                                                 *)
Often(s, c) == Cardinality(Alikes(s, c))
Dets == {s \in Strands : Kind[s] = "deterministic"}
Asks(s) == {i \in Places(s) : CallAt(s, i) \in Asking}

RunInv ==
    /\ mode \in {"record", "update", "replay"} /\ alone \in BOOLEAN /\ whole \in BOOLEAN
    /\ phase \in {"driving", "stopped", "over", "failed", "missed"}
    /\ stops \in 0 .. MaxStops /\ (phase = "stopped" => stops > 0) /\ (mode = "replay" => stops = 0 /\ halted = {})
    /\ halted # {} /\ phase # "stopped" => stops < MaxStops
    /\ runs \in 1 .. Recorded + 1 /\ (mode # "replay" => runs <= Recorded)
    /\ halted \subseteq Strands /\ failures \in 0 .. MaxFailures
    /\ alone \/ mode = "replay" => whole
    /\ saved.whole \in BOOLEAN
    /\ phase = "stopped" => /\ saved.num = num /\ saved.val = val /\ saved.seen = seen
                            /\ saved.waiting = waiting /\ saved.whole = whole

(* A replay numbers each call of a Deterministic strand once.                 *)
CountsAt(s) ==
    s \in Dets /\ mode = "replay" =>
        /\ \A c \in Wording : seen[s][c] <= Cardinality(Numbered(s, num[s]) \cap Alikes(s, c))
        /\ \A i \in Places(s) : num[s][i] # Unnumbered => num[s][i] < Often(s, CallAt(s, i))

FiledAt(s) ==
    \A i \in Places(s) :
        /\ val[s][i] \in Answers => num[s][i] # Unnumbered /\ val[s][i] \in Range(file[KeyOf(s, i)])
        /\ whole => val[s][i] \in Answers \cup {None}

(* What is in flight: one call, unless it is one of those that overlap.       *)
SoloAt(s) ==
    whole =>
        /\ \A i \in InFlight(s) : s \in Dets \/ i \in Asks(s) => InFlight(s) = {i}
        /\ s \in halted \/ phase = "stopped" \/ (s \in Agents /\ Waits(s)) => InFlight(s) = {}
        /\ Waits(s) => /\ mode # "replay" /\ waiting[s].at \in Asks(s) /\ val[s][waiting[s].at] = None
                       /\ s \in Dets /\ s \notin halted => num[s][waiting[s].at] = Unnumbered

(* An agent has the first answer under its key, where the run began the file *)
(* or is served from it; a call that waits has none.                         *)
FirstAt(s) ==
    s \in Agents =>
        /\ alone \/ mode = "replay" => \A i \in Places(s) :
              val[s][i] \in Answers => val[s][i] = Lookup(KeyOf(s, i))
        /\ alone /\ Waits(s) => file[WaitKey(s)] = <<>>
        /\ alone /\ mode = "record" => \A k \in Keys : k[1] = s /\ file[k] # <<>> =>
              \E i \in Places(s) : val[s][i] \in Answers /\ k = KeyOf(s, i)

(* What the last stop wrote down: the answers so far, each on file, and the   *)
(* calls that wait.                                                           *)
SavedKey(s, i) == <<s, CallAt(s, i), saved.num[s][i]>>
SavedAt(s) ==
    /\ \A i \in Places(s) : saved.val[s][i] \in Answers =>
          saved.num[s][i] # Unnumbered /\ saved.val[s][i] \in Range(file[SavedKey(s, i)])
    /\ saved.whole =>
          /\ \A i \in Places(s) : /\ saved.val[s][i] \in Answers \cup {None}
                                  /\ saved.num[s][i] # Unnumbered /\ saved.val[s][i] = None
                                        => saved.waiting[s].at = i
          /\ saved.waiting[s] # NoWait =>
                saved.waiting[s].at \in Asks(s) /\ saved.val[s][saved.waiting[s].at] = None

HeardKey(r, s, i) == <<s, CallAt(s, i), heard[r].num[s][i]>>
HeardAt(r, s, i) ==
    /\ heard[r].val[s][i] \in Answers =>
          HeardKey(r, s, i) \in Keys /\ heard[r].val[s][i] \in Range(file[HeardKey(r, s, i)])
    /\ heard[r].whole => heard[r].val[s][i] \in Answers
    /\ heard[r].alone => heard[r].whole
    /\ s \in Agents /\ heard[r].whole => heard[r].num[s][i] = Cardinality(Before(s, i))
    /\ s \in Agents /\ heard[r].alone => heard[r].val[s][i] = Lookup(HeardKey(r, s, i))
HeardInv ==
    /\ \E S : heard \in Seq(S)
    /\ \A r \in DOMAIN heard : \A s \in Strands : \A i \in Places(s) : HeardAt(r, s, i)

(* Every number a Deterministic strand took is filed, or its call is on its   *)
(* way or waits: so long as the function asks at most once.                   *)
AsksOnce == \A s \in Dets : \A i, j \in Asks(s) : i = j

Accounted(s, k) ==
    \/ file[k] # <<>>
    \/ \E i \in InFlight(s) : k = KeyOf(s, i)
    \/ Waits(s) /\ k = WaitKey(s)

Reached(s, n, w, c) == Alikes(s, c) \cap (Numbered(s, n) \cup {w.at})
ServedAt(s) ==
    s \in Dets /\ whole =>
        /\ mode # "replay" => \A c \in Wording : \A n \in Nat :
              n < seen[s][c] => Accounted(s, <<s, c, n>>)
        /\ \A c \in Wording : Cardinality(Reached(s, num[s], waiting[s], c)) <= seen[s][c]
SavedServed(s) ==
    s \in Dets /\ saved.whole =>
        /\ \A c \in Wording : \A n \in Nat : n < saved.seen[s][c] =>
              \/ file[<<s, c, n>>] # <<>>
              \/ /\ saved.waiting[s] # NoWait
                 /\ <<s, c, n>> = <<s, CallAt(s, saved.waiting[s].at), saved.waiting[s].number>>
        /\ \A c \in Wording :
              Cardinality(Reached(s, saved.num[s], saved.waiting[s], c)) <= saved.seen[s][c]

ServedInv ==
    /\ (\E r \in DOMAIN heard : heard[r].whole) =>
          \A s \in Dets : \A c \in Wording : \A n \in Nat :
              n < Often(s, c) => <<s, c, n>> \in Keys /\ file[<<s, c, n>>] # <<>>
    /\ phase = "missed" => mode = "replay" /\ \A r \in DOMAIN heard : ~heard[r].whole

Own(s) == CountsAt(s) /\ FiledAt(s) /\ SoloAt(s) /\ FirstAt(s)
StrandInv == \A s \in Strands : Own(s) /\ SavedAt(s)
AllInv == ShapeInv /\ NumbersInv /\ FileInv /\ RunInv /\ StrandInv /\ HeardInv

LEMMA OftenType == ASSUME NEW s \in Strands, NEW c PROVE Often(s, c) \in Nat
<1>1. Alikes(s, c) \in SUBSET Places(s)
  BY DEF Alikes
<1> QED BY <1>1, OfAStrand DEF Often

LEMMA OneKind == ASSUME NEW s \in Strands PROVE (s \in Agents /\ s \notin Dets) \/ (s \in Dets /\ s \notin Agents)
BY ProgramAssumption DEF Agents, Dets

LEMMA AgentNumber ==
    ASSUME NumbersInv, whole, NEW s \in Agents, NEW i \in Places(s), num[s][i] # Unnumbered
    PROVE  num[s][i] = Cardinality(Before(s, i))
BY DEF NumbersInv, Numbers

(* An agent files no two calls under one key. *)
LEMMA KeysApart ==
    ASSUME NumbersInv, whole, NEW s \in Agents, NEW i \in Places(s), NEW j \in Places(s),
           num[s][i] # Unnumbered, num[s][j] # Unnumbered, KeyOf(s, i) = KeyOf(s, j)
    PROVE  i = j
<1>1. ASSUME NEW a \in Places(s), NEW b \in Places(s), a < b, CallAt(s, a) = CallAt(s, b),
             num[s][a] # Unnumbered, num[s][b] # Unnumbered
      PROVE  num[s][a] # num[s][b]
  <2>1. num[s][a] = Cardinality(Before(s, a)) /\ num[s][b] = Cardinality(Before(s, b))
    BY <1>1, AgentNumber
  <2>2. s \in Strands /\ a \in Nat /\ b \in Nat
    BY OfAStrand DEF Agents
  <2>3. a \in Before(s, b) /\ Before(s, a) \subseteq Before(s, b) \ {a}
    BY <1>1, <2>2, OfAStrand DEF Before
  <2>4. IsFiniteSet(Before(s, b)) /\ Cardinality(Before(s, b)) \in Nat /\ Cardinality(Before(s, a)) \in Nat
    BY <2>2, OfAStrand
  <2>5. /\ Cardinality(Before(s, b) \ {a}) = Cardinality(Before(s, b)) - 1
        /\ IsFiniteSet(Before(s, b) \ {a})
    BY <2>3, <2>4, FS_RemoveElement
  <2>6. Cardinality(Before(s, a)) <= Cardinality(Before(s, b) \ {a})
    BY <2>3, <2>5, FS_Subset
  <2> QED BY <2>1, <2>4, <2>5, <2>6
<1>2. CallAt(s, i) = CallAt(s, j) /\ num[s][i] = num[s][j]
  BY DEF KeyOf
<1>3. i \in Nat /\ j \in Nat
  BY OfAStrand DEF Agents
<1> QED BY <1>1, <1>2, <1>3

-----------------------------------------------------------------------------
(* A step of strand s leaves the others and their part of the file alone.    *)
Elsewhere(s) ==
    /\ UNCHANGED <<mode, stops, runs, heard, saved>> /\ (alone' => alone) /\ (whole' => whole)
    /\ phase = "driving" /\ phase' \in {"driving", "failed", "missed"}
    /\ \A k \in Keys : k[1] # s => file'[k] = file[k]
    /\ \A r \in Strands \ {s} : /\ num'[r] = num[r] /\ val'[r] = val[r] /\ seen'[r] = seen[r]
                                /\ waiting'[r] = waiting[r] /\ (r \in halted' <=> r \in halted)

LEMMA WorksElsewhere ==
    ASSUME AllInv, NEW s \in Strands, Works(s) PROVE Elsewhere(s) /\ FileInv' /\ Grows
<1> USE DEF AllInv
<1>0. DOMAIN num = Strands /\ DOMAIN val = Strands /\ DOMAIN seen = Strands /\ DOMAIN waiting = Strands
  BY DEF ShapeInv, Shaped
<1>1. FileInv' /\ Grows
  BY NextFile DEF Next
<1>2. ASSUME NEW k \in Keys, NEW v \in Answers, k[1] = s, file' = Store(k, v)
      PROVE  \A l \in Keys : l[1] # s => file'[l] = file[l]
  BY <1>2, Stored
<1>3. ASSUME NEW i \in Places(s), Reserve(s, i) \/ Take(s, i) PROVE Elsewhere(s)
  BY <1>0, <1>3 DEF Reserve, Take, Goes, Count, Elsewhere
<1>4. ASSUME NEW i \in Places(s), Serve(s, i) PROVE Elsewhere(s)
  BY <1>0, <1>4 DEF Serve, Elsewhere
<1>5. ASSUME (\E i \in Places(s) : Miss(s, i)) \/ Fail(s) PROVE Elsewhere(s)
  BY <1>5 DEF Miss, Fail, Fails, Goes, Missing, Elsewhere
<1>6. ASSUME NEW i \in Places(s), Suspend(s, i) PROVE Elsewhere(s)
  BY <1>0, <1>6 DEF Suspend, Missing, Elsewhere
<1>7. ASSUME NEW v \in Answers, Deliver(s, v) PROVE Elsewhere(s)
  <2>1. WaitKey(s) \in Keys /\ WaitKey(s)[1] = s
    BY <1>7, WaitKeyIn DEF Deliver
  <2>2. file' = Store(WaitKey(s), v)
    BY <1>7 DEF Deliver, WaitKey
  <2> QED BY <1>0, <1>2, <1>7, <2>1, <2>2 DEF Deliver, Elsewhere
<1>8. ASSUME NEW v \in Answers, NEW i \in Places(s), Live(s, i, v) PROVE Elsewhere(s)
  <2>1. KeyOf(s, i) \in Keys /\ KeyOf(s, i)[1] = s
    BY <1>8, NumberedIn, InFlightIn DEF Live, Missing
  <2> QED BY <1>0, <1>2, <1>8, <2>1 DEF Live, Missing, Elsewhere
<1>9. ASSUME Retry(s) \/ Leave(s) \/ \E i \in Places(s) : Catch(s, i) PROVE Elsewhere(s)
  BY <1>0, <1>9 DEF Retry, Leave, Catch, GoesOn, Fails, Goes, Elsewhere
<1> QED BY <1>1, <1>3, <1>4, <1>5, <1>6, <1>7, <1>8, <1>9 DEF Works

(* Nothing is taken off the file, so what was written down stays there.       *)
LEMMA SavedKept ==
    ASSUME ShapeInv, Grows, saved' = saved, NEW s \in Strands
    PROVE  (SavedAt(s) => SavedAt(s)') /\ (SavedServed(s) => SavedServed(s)')
<1>1. Shape(s, saved.num[s], saved.val[s], saved.seen[s], saved.waiting[s]) /\ MaxAsked \in Nat
  BY BoundsAssumption DEF ShapeInv, Shaped
<1>2. ASSUME NEW i \in Places(s), saved.num[s][i] # Unnumbered PROVE SavedKey(s, i) \in Keys
  <2>1. saved.num[s][i] \in 0 .. MaxAsked - 1 /\ CallAt(s, i) \in Wording
    BY <1>1, <1>2, OfAStrand DEF Shape, Unnumbered
  <2> QED BY <2>1, KeyIn DEF SavedKey
<1>3. ASSUME NEW c \in Wording, NEW n \in Nat, n < saved.seen[s][c] PROVE <<s, c, n>> \in Keys
  <2>1. n \in 0 .. MaxAsked - 1
    BY <1>1, <1>3 DEF Shape
  <2> QED BY <2>1, KeyIn
<1>4. ASSUME SavedAt(s), NEW i \in Places(s), saved.val[s][i] \in Answers
      PROVE  saved.num[s][i] # Unnumbered /\ saved.val[s][i] \in Range(file'[SavedKey(s, i)])
  <2>1. saved.num[s][i] # Unnumbered /\ saved.val[s][i] \in Range(file[SavedKey(s, i)])
    BY <1>4 DEF SavedAt
  <2> QED BY <1>2, <2>1 DEF Grows
<1>5. SavedAt(s) => SavedAt(s)'
  BY <1>4 DEF SavedAt, SavedKey
<1>6. ASSUME NEW c \in Wording, NEW n \in Nat, n < saved.seen[s][c], file[<<s, c, n>>] # <<>>
      PROVE  file'[<<s, c, n>>] # <<>>
  BY <1>3, <1>6 DEF Grows
<1>7. SavedServed(s) => SavedServed(s)'
  BY <1>6 DEF SavedServed
<1> QED BY <1>5, <1>7

LEMMA OthersKept ==
    ASSUME AllInv, NEW s \in Strands, Elsewhere(s), Grows, NEW r \in Strands, r # s
    PROVE  Own(r)' /\ (ServedAt(r) => ServedAt(r)')
<1>1. /\ num'[r] = num[r] /\ val'[r] = val[r] /\ seen'[r] = seen[r] /\ waiting'[r] = waiting[r]
      /\ r \in halted' <=> r \in halted
      /\ UNCHANGED <<mode, stops>> /\ (alone' => alone) /\ (whole' => whole)
      /\ phase # "stopped" /\ phase' # "stopped"
      /\ \A k \in Keys : k[1] = r => file'[k] = file[k]
  BY DEF Elsewhere
<1>2. CountsAt(r) /\ FiledAt(r) /\ SoloAt(r) /\ FirstAt(r) /\ ShapeInv
  BY DEF AllInv, StrandInv, Own
<1>3. InFlight(r)' = InFlight(r) /\ (Waits(r)' <=> Waits(r)) /\ WaitKey(r)' = WaitKey(r)
  BY <1>1 DEF InFlight, Waits, WaitKey
<1>4. \A i \in Places(r) : KeyOf(r, i)' = KeyOf(r, i)
  BY <1>1 DEF KeyOf
<1>5. \A i \in Places(r) : num[r][i] # Unnumbered => KeyOf(r, i) \in Keys /\ KeyOf(r, i)[1] = r
  BY <1>2, NumberedIn
<1>6. Waits(r) => WaitKey(r) \in Keys /\ WaitKey(r)[1] = r
  BY <1>2, WaitKeyIn
<1>7. CountsAt(r)'
  BY <1>1, <1>2 DEF CountsAt, Numbered
<1>8. FiledAt(r)'
  BY <1>1, <1>2, <1>4, <1>5 DEF FiledAt
<1>9. SoloAt(r)'
  BY <1>1, <1>2, <1>3 DEF SoloAt
<1>10. FirstAt(r)'
  <2>1. ASSUME r \in Agents, alone \/ mode = "replay", NEW i \in Places(r), val[r][i] \in Answers
        PROVE  val[r][i] = Lookup(KeyOf(r, i))'
    <3>1. val[r][i] = Lookup(KeyOf(r, i)) /\ KeyOf(r, i) \in Keys /\ KeyOf(r, i)[1] = r
      BY <1>2, <1>5, <2>1 DEF FirstAt, FiledAt
    <3> QED BY <1>1, <1>4, <3>1 DEF Lookup
  <2>2. r \in Agents /\ alone /\ Waits(r) => file'[WaitKey(r)] = <<>>
    BY <1>1, <1>2, <1>6 DEF FirstAt
  <2>3. ASSUME r \in Agents, alone, mode = "record", NEW k \in Keys, k[1] = r, file'[k] # <<>>
        PROVE  \E i \in Places(r) : val[r][i] \in Answers /\ k = KeyOf(r, i)
    BY <1>1, <1>2, <2>3 DEF FirstAt
  <2> QED BY <1>1, <1>3, <1>4, <2>1, <2>2, <2>3 DEF FirstAt
<1>11. ASSUME ServedAt(r) PROVE ServedAt(r)'
  <2>1. ASSUME whole, r \in Dets, NEW c \in Wording, NEW n \in Nat, n < seen[r][c], mode # "replay"
        PROVE  Accounted(r, <<r, c, n>>)'
    <3>1. Accounted(r, <<r, c, n>>)
      BY <1>11, <2>1 DEF ServedAt
    <3>2. <<r, c, n>> \in Keys
      BY <1>2, <2>1, SeenIn
    <3>3. <<r, c, n>>[1] = r
      OBVIOUS
    <3>4. file'[<<r, c, n>>] = file[<<r, c, n>>]
      BY <1>1, <3>2, <3>3
    <3>5. \A i \in InFlight(r) : KeyOf(r, i)' = KeyOf(r, i)
      BY <1>4, InFlightIn
    <3> QED BY <1>3, <3>1, <3>4, <3>5 DEF Accounted
  <2> QED BY <1>1, <1>11, <2>1 DEF ServedAt, Reached, Numbered
<1> QED BY <1>7, <1>8, <1>9, <1>10, <1>11 DEF Own

-----------------------------------------------------------------------------
(* The strand that makes a step, one action at a time.                       *)
LEMMA OwnOf ==
    ASSUME AllInv, NEW s \in Strands
    PROVE  /\ CountsAt(s) /\ FiledAt(s) /\ SoloAt(s) /\ FirstAt(s) /\ SavedAt(s)
           /\ ShapeInv /\ NumbersInv /\ FileInv /\ RunInv
           /\ DOMAIN num = Strands /\ DOMAIN val = Strands /\ DOMAIN seen = Strands /\ DOMAIN waiting = Strands
           /\ num[s] \in [Places(s) -> Int] /\ DOMAIN val[s] = Places(s)
BY ShapeOf DEF AllInv, StrandInv, Own, ShapeInv, Shaped

(* Numbering calls that have no answer touches no key of an answer.          *)
LEMMA OnlyNumbered ==
    ASSUME AllInv, NEW s \in Strands, UNCHANGED <<mode, alone, whole, file, val, waiting>>,
           \A i \in Places(s) : val[s][i] # None => num'[s][i] = num[s][i],
           s \in Agents => ~Waits(s)
    PROVE  FiledAt(s)' /\ FirstAt(s)'
<1>1. \A i \in Places(s) : val[s][i] # None => KeyOf(s, i)' = KeyOf(s, i)
  BY DEF KeyOf
<1>2. FiledAt(s) /\ FirstAt(s) /\ None \notin Answers
  BY OwnOf, ProgramAssumption
<1>3. FiledAt(s)'
  BY <1>1, <1>2 DEF FiledAt
<1>4. FirstAt(s)'
  BY <1>1, <1>2 DEF FirstAt, Lookup, Waits
<1> QED BY <1>3, <1>4

LEMMA ReserveOwn ==
    ASSUME AllInv, NEW s \in Strands, NEW i \in Places(s), Reserve(s, i) PROVE Own(s)'
<1> DEFINE T == Together(s, TurnAt(s, i))
<1>1. s \in Agents /\ s \notin Dets /\ ~Waits(s)
  BY DEF Reserve, Overlaps, Goes, Agents, Dets
<1>2. \A j \in Places(s) : j \notin T => num'[s][j] = num[s][j]
  BY OwnOf DEF Reserve
<1>3. \A j \in T : val[s][j] = None /\ CallAt(s, j) \notin Asking
  BY ProgramAssumption DEF Together
<1>4. /\ UNCHANGED <<mode, alone, whole, file, val, waiting, halted, phase>> /\ s \notin halted
      /\ phase = "driving" /\ InFlight(s) = {}
  BY DEF Reserve, Goes
<1>5. FiledAt(s)' /\ FirstAt(s)'
  BY <1>1, <1>2, <1>3, <1>4, OnlyNumbered
<1>6. CountsAt(s)'
  BY <1>1 DEF CountsAt
<1>7. SoloAt(s)'
  <2>1. \A j \in InFlight(s)' : j \in T
    BY <1>2, <1>4 DEF InFlight
  <2>2. Waits(s)' = FALSE
    BY <1>1, <1>4 DEF Waits
  <2> HIDE DEF T
  <2>3. \A j \in InFlight(s)' : j \notin Asks(s)
    BY <1>3, <2>1 DEF Asks
  <2> QED BY <1>1, <1>4, <2>2, <2>3 DEF SoloAt
<1> QED BY <1>5, <1>6, <1>7 DEF Own

(* The count of a call that is numbered alone. *)
LEMMA TakenCount ==
    ASSUME AllInv, NEW s \in Strands, NEW i \in Places(s), Take(s, i), NEW c \in Wording
    PROVE  seen[s][c] \in Nat /\ seen'[s][c] = IF CallAt(s, i) = c THEN seen[s][c] + 1 ELSE seen[s][c]
<1>1. Count(s, {i}) /\ ShapeInv
  BY OwnOf DEF Take
<1>2. seen'[s] = Counted(s, {i}) /\ seen[s][c] \in Nat
  BY <1>1, CountGives, SeenIn
<1>3. Cardinality({}) = 0 /\ Cardinality({i}) = 1
  BY FS_EmptySet, FS_Singleton
<1>4. {j \in {i} : CallAt(s, j) = c} = IF CallAt(s, i) = c THEN {i} ELSE {}
  OBVIOUS
<1>5. seen'[s][c] = seen[s][c] + Cardinality({j \in {i} : CallAt(s, j) = c})
  BY <1>2 DEF Counted
<1>6. CASE CallAt(s, i) = c
  BY <1>2, <1>3, <1>4, <1>5, <1>6
<1>7. CASE CallAt(s, i) # c
  BY <1>2, <1>3, <1>4, <1>5, <1>7
<1> QED BY <1>6, <1>7

LEMMA TakeOwn ==
    ASSUME AllInv, NEW s \in Strands, NEW i \in Places(s), Take(s, i) PROVE Own(s)'
<1> DEFINE n == seen[s][CallAt(s, i)]
<1>1. CountsAt(s) /\ FiledAt(s) /\ SoloAt(s) /\ CallAt(s, i) \in Wording
  BY OfAStrand, OwnOf
<1>2. /\ UNCHANGED <<mode, alone, whole, file, val, waiting, halted, phase, stops>> /\ s \notin halted
      /\ phase = "driving" /\ InFlight(s) = {} /\ num[s][i] = Unnumbered /\ waiting[s].at # i
      /\ val[s][i] = None /\ (s \in Agents => ~Waits(s))
  BY DEF Take, Goes, Agents
<1>3. n \in Nat /\ num'[s][i] = n /\ \A j \in Places(s) \ {i} : num'[s][j] = num[s][j]
  BY <1>1, OwnOf, SeenIn DEF Take
<1>4. FiledAt(s)' /\ FirstAt(s)'
  BY <1>2, <1>3, OnlyNumbered
<1>5. CountsAt(s)'
  <2> SUFFICES ASSUME s \in Dets, mode = "replay" PROVE CountsAt(s)'
    BY <1>2 DEF CountsAt
  <2>1. Numbered(s, num'[s]) = Numbered(s, num[s]) \cup {i} /\ i \notin Numbered(s, num[s])
    BY <1>2, <1>3 DEF Numbered, Unnumbered
  <2>2. ASSUME NEW c \in Wording
        PROVE  /\ seen'[s][c] <= Cardinality(Numbered(s, num'[s]) \cap Alikes(s, c))
               /\ CallAt(s, i) = c => seen[s][c] < Often(s, c)
    <3> DEFINE N == Numbered(s, num[s]) \cap Alikes(s, c)
    <3>1. /\ seen'[s][c] = IF CallAt(s, i) = c THEN seen[s][c] + 1 ELSE seen[s][c]
          /\ seen[s][c] \in Nat /\ seen[s][c] <= Cardinality(N)
      BY <1>1, TakenCount DEF CountsAt
    <3>2. N \in SUBSET Places(s)
      BY DEF Numbered
    <3>3. CASE CallAt(s, i) = c
      <4>1. Numbered(s, num'[s]) \cap Alikes(s, c) = N \cup {i} /\ i \notin N
        BY <2>1, <3>3 DEF Alikes
      <4>2. N \cup {i} \in SUBSET Alikes(s, c) /\ Alikes(s, c) \in SUBSET Places(s)
        BY <3>3 DEF Alikes, Numbered
      <4> HIDE DEF N
      <4>3. IsFiniteSet(N) /\ Cardinality(N) \in Nat /\ Cardinality(N \cup {i}) = Cardinality(N) + 1
        BY <3>2, <4>1, FS_AddElement, OfAStrand
      <4>4. Cardinality(N \cup {i}) <= Often(s, c) /\ Often(s, c) \in Nat
        BY <4>2, OfAStrand, OftenType, FS_Subset DEF Often
      <4>5. Cardinality(Numbered(s, num'[s]) \cap Alikes(s, c)) = Cardinality(N) + 1
        BY <4>1, <4>3
      <4>6. seen'[s][c] = seen[s][c] + 1
        BY <3>1, <3>3
      <4> QED BY <3>1, <4>3, <4>4, <4>5, <4>6
    <3>4. CASE CallAt(s, i) # c
      <4>1. Numbered(s, num'[s]) \cap Alikes(s, c) = N
        BY <2>1, <3>4 DEF Alikes
      <4> QED BY <3>1, <3>4, <4>1
    <3> QED BY <3>3, <3>4
  <2>3. n < Often(s, CallAt(s, i))
    BY <1>1, <2>2
  <2> QED BY <1>1, <1>2, <1>3, <2>2, <2>3 DEF CountsAt
<1>6. SoloAt(s)'
  <2>1. InFlight(s)' = {i}
    BY <1>2, <1>3 DEF InFlight, Unnumbered
  <2>2. Waits(s)' <=> Waits(s)
    BY <1>2 DEF Waits
  <2>3. whole /\ Waits(s) => waiting[s].at \in Places(s)
    BY <1>1 DEF SoloAt, Asks
  <2> QED BY <1>1, <1>2, <1>3, <2>1, <2>2, <2>3 DEF SoloAt
<1> QED BY <1>4, <1>5, <1>6 DEF Own

(* A recorded call of an agent that looks nothing up, or finds nothing, is   *)
(* the first under its key, in a run that began the file or is served by it. *)
LEMMA NothingUnder ==
    ASSUME AllInv, NEW s \in Agents, NEW i \in Places(s), Missing(s, i), Recording, alone
    PROVE  file[KeyOf(s, i)] = <<>>
<1>1. s \in Strands
  BY DEF Agents
<1>2. /\ FiledAt(s) /\ FirstAt(s) /\ num[s][i] # Unnumbered /\ val[s][i] = None /\ whole
      /\ None \notin Answers /\ ShapeInv /\ NumbersInv /\ FileInv
  BY <1>1, InFlightIn, OwnOf, ProgramAssumption DEF Missing, RunInv
<1>3. KeyOf(s, i) \in Keys /\ KeyOf(s, i)[1] = s
  BY <1>1, <1>2, NumberedIn
<1>4. CASE mode = "update"
  BY <1>2, <1>3, <1>4, Looked DEF Missing, ServesHits
<1>5. CASE mode = "record"
  <2> SUFFICES ASSUME file[KeyOf(s, i)] # <<>> PROVE FALSE
    OBVIOUS
  <2>1. PICK j \in Places(s) : val[s][j] \in Answers /\ KeyOf(s, i) = KeyOf(s, j)
    BY <1>2, <1>3, <1>5 DEF FirstAt
  <2>2. num[s][j] # Unnumbered
    BY <1>2, <2>1 DEF FiledAt
  <2> QED BY <1>2, <2>1, <2>2, KeysApart
<1> QED BY <1>4, <1>5 DEF Recording

(* An answer v to call i of strand s. *)
Answers1(s, i, v) ==
    /\ i \in InFlight(s) /\ phase = "driving" /\ v \in Answers
    /\ val' = [val EXCEPT ![s][i] = v] /\ v \in Range(file'[KeyOf(s, i)])
    /\ UNCHANGED <<num, seen, waiting, halted, mode, alone, whole, stops, phase>> /\ Grows

LEMMA AnsweredOwn ==
    ASSUME AllInv, NEW s \in Strands, NEW i \in Places(s), NEW v \in Answers, Answers1(s, i, v)
    PROVE  /\ CountsAt(s)' /\ FiledAt(s)' /\ SoloAt(s)'
           /\ val'[s][i] = v /\ \A j \in Places(s) \ {i} : val'[s][j] = val[s][j]
<1>1. CountsAt(s) /\ FiledAt(s) /\ SoloAt(s) /\ v # None /\ ShapeInv
  BY OwnOf, ProgramAssumption
<1>2. val'[s][i] = v /\ \A j \in Places(s) \ {i} : val'[s][j] = val[s][j]
  BY OwnOf DEF Answers1
<1>3. UNCHANGED <<num, seen, waiting, halted, mode, whole, stops, phase>> /\ phase = "driving"
  BY DEF Answers1
<1>4. CountsAt(s)'
  BY <1>1, <1>3 DEF CountsAt
<1>5. FiledAt(s)'
  <2>1. \A j \in Places(s) : KeyOf(s, j)' = KeyOf(s, j)
    BY <1>3 DEF KeyOf
  <2>2. num[s][i] # Unnumbered
    BY InFlightIn DEF Answers1
  <2>3. ASSUME NEW j \in Places(s) \ {i}, val[s][j] \in Answers
        PROVE  num[s][j] # Unnumbered /\ val[s][j] \in Range(file'[KeyOf(s, j)])
    <3>1. num[s][j] # Unnumbered /\ val[s][j] \in Range(file[KeyOf(s, j)])
      BY <1>1, <2>3 DEF FiledAt
    <3>2. PICK k \in Keys : k = KeyOf(s, j)
      BY <1>1, <3>1, NumberedIn
    <3>3. Range(file[k]) \subseteq Range(file'[k])
      BY DEF Answers1, Grows
    <3> QED BY <3>1, <3>2, <3>3
  <2> QED BY <1>1, <1>2, <1>3, <2>1, <2>2, <2>3 DEF FiledAt, Answers1
<1>6. SoloAt(s)'
  <2>1. InFlight(s)' = InFlight(s) \ {i}
    BY <1>1, <1>2, <1>3 DEF InFlight
  <2>2. i \in InFlight(s) /\ (Waits(s)' <=> Waits(s)) /\ waiting[s].at # i
    BY <1>3 DEF Answers1, Waits, InFlight
  <2>3. whole /\ Waits(s) => val'[s][waiting[s].at] = None
    BY <1>1, <1>2, <2>2 DEF SoloAt, Asks
  <2> QED BY <1>1, <1>3, <2>1, <2>2, <2>3 DEF SoloAt
<1> QED BY <1>2, <1>4, <1>5, <1>6

LEMMA ServeOwn ==
    ASSUME AllInv, NEW s \in Strands, NEW i \in Places(s), Serve(s, i) PROVE Own(s)'
<1> DEFINE v == Lookup(KeyOf(s, i))
<1>1. CountsAt(s) /\ FirstAt(s) /\ num[s][i] # Unnumbered /\ ShapeInv /\ FileInv
  BY InFlightIn, OwnOf DEF Serve
<1>2. KeyOf(s, i) \in Keys
  BY <1>1, NumberedIn
<1>3. v \in Answers /\ v \in Range(file[KeyOf(s, i)])
  BY <1>1, <1>2, Looked DEF Serve
<1>4. Answers1(s, i, v)
  BY <1>3 DEF Answers1, Serve, Grows, Lookup
<1>5. /\ CountsAt(s)' /\ FiledAt(s)' /\ SoloAt(s)'
      /\ val'[s][i] = v /\ \A j \in Places(s) \ {i} : val'[s][j] = val[s][j]
  <2> HIDE DEF v
  <2> QED BY <1>3, <1>4, AnsweredOwn
<1>6. FirstAt(s)'
  <2>1. UNCHANGED <<file, num, waiting, mode, alone>> /\ mode # "record"
    BY DEF Serve, ServesHits
  <2>2. \A j \in Places(s) : KeyOf(s, j)' = KeyOf(s, j) /\ Lookup(KeyOf(s, j))' = Lookup(KeyOf(s, j))
    BY <2>1 DEF KeyOf, Lookup
  <2>3. (Waits(s)' <=> Waits(s)) /\ WaitKey(s)' = WaitKey(s)
    BY <2>1 DEF Waits, WaitKey
  <2> QED BY <1>1, <1>5, <2>1, <2>2, <2>3 DEF FirstAt
<1> QED BY <1>5, <1>6 DEF Own

LEMMA LiveOwn ==
    ASSUME AllInv, NEW s \in Strands, NEW i \in Places(s), NEW v \in Answers, Live(s, i, v) PROVE Own(s)'
<1>1. /\ CountsAt(s) /\ FirstAt(s) /\ FiledAt(s) /\ SoloAt(s) /\ num[s][i] # Unnumbered /\ val[s][i] = None
      /\ v # None /\ None \notin Answers /\ ShapeInv /\ FileInv /\ RunInv
  BY InFlightIn, OwnOf, ProgramAssumption DEF Live, Missing
<1>2. KeyOf(s, i) \in Keys
  BY <1>1, NumberedIn
<1>3. /\ Grows /\ v \in Range(file'[KeyOf(s, i)]) /\ file'[KeyOf(s, i)] # <<>>
      /\ \A k \in Keys \ {KeyOf(s, i)} : file'[k] = file[k]
      /\ file[KeyOf(s, i)] = <<>> => Head(file'[KeyOf(s, i)]) = v
  <2>1. PICK k \in Keys : k = KeyOf(s, i)
    BY <1>2
  <2>2. file' = Store(k, v)
    BY <2>1 DEF Live
  <2>3. /\ Grows /\ v \in Range(file'[k]) /\ file'[k] # <<>>
        /\ \A l \in Keys \ {k} : file'[l] = file[l]
        /\ file[k] = <<>> => Head(file'[k]) = v
    BY <1>1, <2>2, Stored
  <2> QED BY <2>1, <2>3
<1>4. Answers1(s, i, v)
  BY <1>3 DEF Answers1, Live, Missing
<1>5. /\ CountsAt(s)' /\ FiledAt(s)' /\ SoloAt(s)'
      /\ val'[s][i] = v /\ \A j \in Places(s) \ {i} : val'[s][j] = val[s][j]
  BY <1>4, AnsweredOwn
<1>6. FirstAt(s)'
  <2> SUFFICES ASSUME s \in Agents, alone PROVE FirstAt(s)'
    BY DEF FirstAt, Live, Recording
  <2>1. UNCHANGED <<num, waiting, mode, alone>> /\ mode # "replay" /\ Missing(s, i) /\ Recording /\ whole
    BY <1>1 DEF Live, Recording, RunInv
  <2>2. \A j \in Places(s) : KeyOf(s, j)' = KeyOf(s, j)
    BY <2>1 DEF KeyOf
  <2>3. ~Waits(s)' /\ ~Waits(s)
    BY <1>1, <2>1 DEF SoloAt, Missing, Waits
  <2>4. ASSUME NEW j \in Places(s), val'[s][j] \in Answers PROVE val'[s][j] = Lookup(KeyOf(s, j))'
    <3>1. CASE j = i
      BY <1>3, <1>5, <2>1, <2>2, <3>1, NothingUnder DEF Lookup
    <3>2. CASE j # i
      <4>1. val[s][j] \in Answers /\ val[s][j] = Lookup(KeyOf(s, j)) /\ num[s][j] # Unnumbered
        BY <1>1, <1>5, <2>4, <3>2 DEF FirstAt, FiledAt
      <4>2. KeyOf(s, j) \in Keys
        BY <1>1, <4>1, NumberedIn
      <4>3. file[KeyOf(s, j)] # <<>>
        BY <1>1, <4>1, <4>2, Looked
      <4>4. Head(file'[KeyOf(s, j)]) = Head(file[KeyOf(s, j)]) /\ file'[KeyOf(s, j)] # <<>>
        <5>1. PICK k \in Keys : k = KeyOf(s, j)
          BY <4>2
        <5> QED BY <1>3, <4>3, <5>1 DEF Grows
      <4> QED BY <1>5, <2>2, <3>2, <4>1, <4>3, <4>4 DEF Lookup
    <3> QED BY <3>1, <3>2
  <2>5. ASSUME mode = "record", NEW k \in Keys, k[1] = s, file'[k] # <<>>
        PROVE  \E j \in Places(s) : val'[s][j] \in Answers /\ k = KeyOf(s, j)
    <3>1. CASE k = KeyOf(s, i)
      BY <1>1, <1>5, <3>1
    <3>2. CASE k # KeyOf(s, i)
      <4>1. PICK j \in Places(s) : val[s][j] \in Answers /\ k = KeyOf(s, j)
        BY <1>1, <1>3, <2>5, <3>2 DEF FirstAt
      <4> QED BY <1>1, <1>5, <4>1
    <3> QED BY <3>1, <3>2
  <2> QED BY <2>1, <2>2, <2>3, <2>4, <2>5 DEF FirstAt
<1> QED BY <1>5, <1>6 DEF Own

LEMMA SuspendOwn ==
    ASSUME AllInv, NEW s \in Strands, NEW i \in Places(s), Suspend(s, i) PROVE Own(s)'
<1>1. /\ CountsAt(s) /\ FiledAt(s) /\ SoloAt(s) /\ FirstAt(s) /\ RunInv /\ DOMAIN waiting = Strands
      /\ i \in InFlight(s) /\ i \in Asks(s) /\ num[s][i] # Unnumbered /\ val[s][i] = None
  BY InFlightIn, OwnOf DEF Suspend, Missing, Asks
<1>2. /\ waiting'[s] = [at |-> i, number |-> num[s][i]] /\ halted' = halted \cup {s} /\ phase = "driving"
      /\ UNCHANGED <<mode, alone, whole, file, seen, num, val, phase, stops>> /\ mode # "replay"
  BY <1>1 DEF Suspend, Missing, Recording
<1>3. waiting'[s].at = i /\ waiting'[s].number = num[s][i] /\ i # 0
  BY <1>2, OfAStrand
<1>4. whole => InFlight(s) = {i} /\ s \notin halted
  BY <1>1 DEF SoloAt
<1>5. Waits(s)' /\ WaitKey(s)' = KeyOf(s, i)
  BY <1>2, <1>3 DEF Waits, WaitKey, KeyOf, NoWait
<1>6. whole => InFlight(s)' = {}
  <2> SUFFICES ASSUME whole PROVE InFlight(s)' = {}
    OBVIOUS
  <2>1. Waits(s) => s \in Dets /\ num[s][waiting[s].at] = Unnumbered
    <3>1. Waits(s) => s \notin Agents
      BY <1>1, <1>4 DEF SoloAt
    <3> QED BY <1>1, <1>4, <3>1, OneKind DEF SoloAt
  <2>2. ASSUME NEW j \in InFlight(s)' PROVE FALSE
    <3>1. j \in Places(s) /\ num[s][j] # Unnumbered /\ val[s][j] = None /\ j # i
      BY <1>2, <1>3, <2>2 DEF InFlight
    <3>2. j # waiting[s].at
      BY <2>1, <3>1, OfAStrand DEF Waits, NoWait
    <3> QED BY <1>4, <3>1, <3>2 DEF InFlight
  <2> QED BY <2>2
<1>7. CountsAt(s)'
  BY <1>2 DEF CountsAt
<1>8. FiledAt(s)'
  BY <1>1, <1>2 DEF FiledAt, KeyOf
<1>9. SoloAt(s)'
  BY <1>1, <1>2, <1>3, <1>4, <1>6 DEF SoloAt, Asks
<1>10. FirstAt(s)'
  <2> SUFFICES ASSUME s \in Agents PROVE FirstAt(s)'
    BY DEF FirstAt
  <2>1. \A j \in Places(s) : KeyOf(s, j)' = KeyOf(s, j) /\ Lookup(KeyOf(s, j))' = Lookup(KeyOf(s, j))
    BY <1>2 DEF KeyOf, Lookup
  <2>2. alone => file'[KeyOf(s, i)] = <<>>
    BY <1>2, NothingUnder DEF Suspend
  <2> QED BY <1>1, <1>2, <1>5, <2>1, <2>2 DEF FirstAt
<1> QED BY <1>7, <1>8, <1>9, <1>10 DEF Own

LEMMA DeliverOwn ==
    ASSUME AllInv, NEW s \in Strands, NEW v \in Answers, Deliver(s, v) PROVE Own(s)'
<1>0. PICK i : i = waiting[s].at
  OBVIOUS
<1>1. /\ FiledAt(s) /\ SoloAt(s) /\ FirstAt(s) /\ Waits(s) /\ s \notin halted
      /\ v # None /\ None \notin Answers /\ ShapeInv /\ FileInv /\ RunInv
  BY ProgramAssumption, OwnOf DEF Deliver
<1>2. /\ WaitKey(s) \in Keys /\ i \in Places(s) /\ waiting[s].number \in Nat /\ i # 0
      /\ waiting[s].number # Unnumbered
      /\ whole => val[s][i] = None /\ mode # "replay"
  BY <1>0, <1>1, WaitKeyIn, OfAStrand DEF SoloAt
<1>3. /\ num'[s][i] = waiting[s].number /\ \A j \in Places(s) \ {i} : num'[s][j] = num[s][j]
      /\ val'[s][i] = v /\ \A j \in Places(s) \ {i} : val'[s][j] = val[s][j]
      /\ waiting'[s] = NoWait
      /\ UNCHANGED <<mode, alone, whole, seen, halted, phase, stops>> /\ phase = "driving"
  BY <1>0, <1>2, OwnOf DEF Deliver
<1>4. ~Waits(s)' /\ KeyOf(s, i)' = WaitKey(s) /\ \A j \in Places(s) \ {i} : KeyOf(s, j)' = KeyOf(s, j)
  BY <1>0, <1>2, <1>3 DEF Waits, KeyOf, WaitKey
<1>5. PICK k \in Keys : k = WaitKey(s)
  BY <1>2
<1>6. /\ Grows /\ v \in Range(file'[k]) /\ file'[k] # <<>>
      /\ \A l \in Keys \ {k} : file'[l] = file[l]
      /\ file[k] = <<>> => Head(file'[k]) = v
  <2>1. file' = Store(k, v)
    BY <1>5 DEF Deliver, WaitKey
  <2> QED BY <1>1, <2>1, Stored
<1>7. ASSUME NEW j \in Places(s) \ {i}, val[s][j] \in Answers
      PROVE  /\ num[s][j] # Unnumbered
             /\ KeyOf(s, j) \in Keys /\ val[s][j] \in Range(file[KeyOf(s, j)]) /\ file[KeyOf(s, j)] # <<>>
             /\ val[s][j] \in Range(file'[KeyOf(s, j)])
             /\ file'[KeyOf(s, j)] # <<>> /\ Head(file'[KeyOf(s, j)]) = Head(file[KeyOf(s, j)])
  <2>1. num[s][j] # Unnumbered /\ val[s][j] \in Range(file[KeyOf(s, j)])
    BY <1>1, <1>7 DEF FiledAt
  <2>2. PICK l \in Keys : l = KeyOf(s, j)
    BY <1>1, <2>1, NumberedIn
  <2>3. file[l] # <<>>
    BY <2>1, <2>2 DEF Range
  <2> QED BY <1>6, <2>1, <2>2, <2>3 DEF Grows
<1>8. FiledAt(s)'
  BY <1>1, <1>2, <1>3, <1>4, <1>5, <1>6, <1>7 DEF FiledAt
<1>9. SoloAt(s)'
  <2> SUFFICES ASSUME whole PROVE SoloAt(s)'
    BY <1>3 DEF SoloAt
  <2>1. ASSUME NEW j \in InFlight(s)' PROVE j \in InFlight(s)
    BY <1>0, <1>1, <1>2, <1>3, <2>1 DEF InFlight
  <2>2. \A j \in InFlight(s)' : s \in Dets \/ j \in Asks(s) => InFlight(s)' = {j}
    BY <1>1, <2>1 DEF SoloAt
  <2> QED BY <1>1, <1>3, <1>4, <2>1, <2>2 DEF SoloAt
<1>10. CountsAt(s)'
  <2>1. mode # "replay"
    BY <1>1, <1>2 DEF RunInv
  <2> QED BY <1>3, <2>1 DEF CountsAt
<1>11. FirstAt(s)'
  <2> SUFFICES ASSUME s \in Agents, alone PROVE FirstAt(s)'
    BY <1>1, <1>2, <1>3 DEF FirstAt, RunInv
  <2>0. whole
    BY <1>1 DEF RunInv
  <2>1. ASSUME NEW j \in Places(s), val'[s][j] \in Answers PROVE val'[s][j] = Lookup(KeyOf(s, j))'
    <3>1. CASE j = i
      BY <1>1, <1>3, <1>4, <1>5, <1>6, <3>1 DEF Lookup, FirstAt
    <3>2. CASE j # i
      <4>1. val[s][j] \in Answers /\ val[s][j] = Lookup(KeyOf(s, j))
        BY <1>1, <1>3, <2>1, <3>2 DEF FirstAt
      <4> QED BY <1>3, <1>4, <1>7, <3>2, <4>1 DEF Lookup
    <3> QED BY <3>1, <3>2
  <2>2. ASSUME mode = "record", NEW l \in Keys, l[1] = s, file'[l] # <<>>
        PROVE  \E j \in Places(s) : val'[s][j] \in Answers /\ l = KeyOf(s, j)'
    <3>1. CASE l = k
      BY <1>1, <1>2, <1>3, <1>4, <1>5, <3>1
    <3>2. CASE l # k
      <4>1. PICK j \in Places(s) : val[s][j] \in Answers /\ l = KeyOf(s, j)
        BY <1>1, <1>6, <2>2, <3>2 DEF FirstAt
      <4>2. j # i
        BY <1>1, <1>2, <2>0, <4>1
      <4> QED BY <1>3, <1>4, <4>1, <4>2
    <3> QED BY <3>1, <3>2
  <2> QED BY <1>1, <1>2, <1>3, <1>4, <2>0, <2>1, <2>2 DEF FirstAt
<1> QED BY <1>8, <1>9, <1>10, <1>11 DEF Own

(* A call that is not on file, or a failure that ends the run, leaves the     *)
(* strand as it was.                                                          *)
LEMMA FailOwn ==
    ASSUME AllInv, NEW s \in Strands, (\E i \in Places(s) : Miss(s, i)) \/ Fail(s) PROVE Own(s)'
<1>1. CountsAt(s) /\ FiledAt(s) /\ SoloAt(s) /\ FirstAt(s) /\ phase = "driving"
  BY OwnOf DEF Miss, Fail, Fails, Goes, Missing
<1>2. /\ UNCHANGED <<mode, file, seen, num, val, waiting, halted, stops, alone, whole>>
      /\ phase' \in {"failed", "missed"}
  BY DEF Miss, Fail
<1>3. CountsAt(s)' /\ FiledAt(s)'
  BY <1>1, <1>2 DEF CountsAt, FiledAt, KeyOf
<1>4. SoloAt(s)' /\ FirstAt(s)'
  BY <1>1, <1>2 DEF SoloAt, FirstAt, InFlight, Waits, WaitKey, KeyOf, Lookup
<1> QED BY <1>3, <1>4 DEF Own

(* A run that goes on from a failure keeps no more than the answers it has    *)
(* filed.                                                                     *)
LEMMA LossOwn ==
    ASSUME AllInv, NEW s \in Strands, Retry(s) \/ Leave(s) \/ \E i \in Places(s) : Catch(s, i)
    PROVE  Own(s)'
<1>1. ~whole' /\ ~alone' /\ mode' = mode /\ mode # "replay" /\ file' = file
  BY DEF Retry, Leave, Catch, GoesOn, Fails, Recording
<1>2. FiledAt(s) /\ DOMAIN num = Strands /\ DOMAIN val = Strands /\ DOMAIN val[s] = Places(s)
  BY OwnOf
<1>3. ASSUME NEW i \in Places(s), val'[s][i] \in Answers
      PROVE  num'[s][i] = num[s][i] /\ val'[s][i] = val[s][i]
  <2>1. None \notin Answers /\ Left \notin Answers /\ Failed \notin Answers
    BY ProgramAssumption
  <2>2. CASE Retry(s)
    BY <1>2, <1>3, <2>1, <2>2 DEF Retry
  <2>3. CASE Leave(s)
    BY <1>2, <1>3, <2>1, <2>3 DEF Leave
  <2>4. ASSUME NEW j \in Places(s), Catch(s, j) PROVE num'[s][i] = num[s][i] /\ val'[s][i] = val[s][i]
    BY <1>2, <1>3, <2>1, <2>4 DEF Catch
  <2> QED BY <2>2, <2>3, <2>4
<1>4. FiledAt(s)'
  BY <1>1, <1>2, <1>3 DEF FiledAt, KeyOf
<1>5. CountsAt(s)' /\ SoloAt(s)' /\ FirstAt(s)'
  BY <1>1 DEF CountsAt, SoloAt, FirstAt
<1> QED BY <1>4, <1>5 DEF Own

LEMMA WorksOwn == ASSUME AllInv, NEW s \in Strands, Works(s) PROVE Own(s)'
BY ReserveOwn, TakeOwn, ServeOwn, FailOwn, LossOwn, SuspendOwn, DeliverOwn, LiveOwn DEF Works

-----------------------------------------------------------------------------
(* The steps of the run.                                                    *)
LEMMA StopOwn == ASSUME AllInv, Stop, NEW s \in Strands PROVE Own(s)' /\ SavedAt(s)'
<1>1. CountsAt(s) /\ FiledAt(s) /\ SoloAt(s) /\ FirstAt(s) /\ RunInv
  BY OwnOf
<1>2. /\ UNCHANGED <<mode, file, seen, num, val, waiting, halted, alone, whole>> /\ phase = "driving"
      /\ phase' = "stopped" /\ Settled(s) /\ halted # {} /\ mode # "replay"
  BY <1>1 DEF Stop, RunInv
<1>3. (Waits(s)' <=> Waits(s)) /\ InFlight(s)' = InFlight(s) /\ WaitKey(s)' = WaitKey(s)
  BY <1>2 DEF Waits, InFlight, WaitKey
<1>4. whole => InFlight(s) = {}
  BY <1>1, <1>2 DEF Settled, SoloAt
<1>5. CountsAt(s)'
  BY <1>2 DEF CountsAt
<1>6. SoloAt(s)'
  BY <1>1, <1>2, <1>3, <1>4 DEF SoloAt
<1>7. FiledAt(s)' /\ FirstAt(s)'
  BY <1>1, <1>2, <1>3 DEF FiledAt, FirstAt, KeyOf, Lookup
<1>8. /\ saved'.num = num /\ saved'.val = val /\ saved'.waiting = waiting /\ saved'.whole = whole
  BY DEF Stop
<1>9. \A i \in Places(s) : SavedKey(s, i)' = KeyOf(s, i)
  BY <1>8 DEF SavedKey, KeyOf
<1>10. ASSUME whole, NEW i \in Places(s), num[s][i] # Unnumbered, val[s][i] = None PROVE waiting[s].at = i
  BY <1>4, <1>10 DEF InFlight
<1>11. SavedAt(s)'
  BY <1>1, <1>2, <1>8, <1>9, <1>10 DEF SavedAt, FiledAt, SoloAt, Waits
<1> QED BY <1>5, <1>6, <1>7, <1>11 DEF Own

(* A run goes on with what was written down, and a function that runs again   *)
(* begins with no call made.                                                  *)
LEMMA ResumeOwn == ASSUME AllInv, Resume, NEW s \in Strands PROVE Own(s)' /\ SavedAt(s)'
<1>1. SavedAt(s) /\ CountsAt(s) /\ FirstAt(s) /\ RunInv /\ None \notin Answers
  BY OwnOf, ProgramAssumption
<1>2. /\ UNCHANGED <<mode, file, stops, saved>> /\ phase' = "driving" /\ halted' = {}
      /\ waiting' = saved.waiting /\ whole' = saved.whole
      /\ num'[s] = [i \in Places(s) |-> IF RunsAgain(s) THEN Unnumbered ELSE saved.num[s][i]]
      /\ val'[s] = [i \in Places(s) |-> IF RunsAgain(s) THEN None ELSE saved.val[s][i]]
      /\ alone' => phase = "stopped" /\ alone
  BY DEF Resume
<1>3. mode # "replay"
  <2>1. stops > 0
    BY <1>1 DEF Resume, RunInv
  <2> QED BY <1>1, <2>1 DEF RunInv
<1>4. \A i \in Places(s) :
         /\ RunsAgain(s) => num'[s][i] = Unnumbered /\ val'[s][i] = None
         /\ ~RunsAgain(s) => /\ num'[s][i] = saved.num[s][i] /\ val'[s][i] = saved.val[s][i]
                             /\ KeyOf(s, i)' = SavedKey(s, i)
  BY <1>2 DEF KeyOf, SavedKey
<1>5. SavedAt(s)'
  BY <1>1, <1>2 DEF SavedAt, SavedKey
<1>6. CountsAt(s)'
  BY <1>2, <1>3 DEF CountsAt
<1>7. FiledAt(s)'
  BY <1>1, <1>2, <1>4 DEF FiledAt, SavedAt
<1>8. SoloAt(s)'
  <2> SUFFICES ASSUME saved.whole PROVE SoloAt(s)'
    BY <1>2 DEF SoloAt
  <2>1. InFlight(s)' = {}
    <3>1. ASSUME NEW i \in InFlight(s)' PROVE FALSE
      <4>1. i \in Places(s) /\ num'[s][i] # Unnumbered /\ val'[s][i] = None /\ waiting'[s].at # i
        BY <3>1 DEF InFlight
      <4> QED BY <1>1, <1>2, <1>4, <4>1 DEF SavedAt
    <3> QED BY <3>1
  <2>2. Waits(s)' => /\ saved.waiting[s].at \in Asks(s) /\ val'[s][saved.waiting[s].at] = None
                     /\ s \in Dets => num'[s][saved.waiting[s].at] = Unnumbered
    <3>1. Waits(s)' => saved.waiting[s] # NoWait
      BY <1>2 DEF Waits
    <3>2. saved.waiting[s] # NoWait =>
             /\ saved.waiting[s].at \in Asks(s) /\ saved.waiting[s].at \in Places(s)
             /\ saved.val[s][saved.waiting[s].at] = None
      BY <1>1 DEF SavedAt, Asks
    <3>3. s \in Dets /\ saved.waiting[s] # NoWait => RunsAgain(s)
      BY DEF RunsAgain, Dets
    <3> QED BY <1>4, <3>1, <3>2, <3>3
  <2> QED BY <1>2, <1>3, <2>1, <2>2 DEF SoloAt
<1>9. FirstAt(s)'
  <2> SUFFICES ASSUME s \in Agents, alone' PROVE FirstAt(s)'
    BY <1>2, <1>3 DEF FirstAt
  <2>1. phase = "stopped" /\ alone /\ ~RunsAgain(s)
    BY <1>2 DEF RunsAgain, Agents
  <2>2. saved.num = num /\ saved.val = val /\ saved.waiting = waiting
    BY <1>1, <2>1 DEF RunInv
  <2>3. \A i \in Places(s) : val'[s][i] = val[s][i] /\ KeyOf(s, i)' = KeyOf(s, i)
    BY <1>4, <2>1, <2>2 DEF KeyOf, SavedKey
  <2>4. (Waits(s)' <=> Waits(s)) /\ WaitKey(s)' = WaitKey(s)
    BY <1>2, <2>2 DEF Waits, WaitKey
  <2> QED BY <1>1, <1>2, <2>1, <2>3, <2>4 DEF FirstAt, Lookup
<1> QED BY <1>5, <1>6, <1>7, <1>8, <1>9 DEF Own

(* Where a run begins nothing is numbered. *)
LEMMA BegunAt ==
    ASSUME NEW s \in Strands
    PROVE  /\ \A i \in Places(s) : Begun.num[s][i] = Unnumbered /\ Begun.val[s][i] = None
           /\ \A c \in Wording : Begun.seen[s][c] = 0
           /\ Begun.waiting[s] = NoWait /\ Begun.whole = TRUE
           /\ Numbered(s, Begun.num[s]) = {} /\ 0 \notin Places(s) /\ NoWait.at = 0
<1>1. /\ Begun.num[s] = [i \in Places(s) |-> Unnumbered] /\ Begun.val[s] = [i \in Places(s) |-> None]
      /\ Begun.seen[s] = [c \in Wording |-> 0] /\ Begun.waiting[s] = NoWait /\ Begun.whole = TRUE
  BY DEF Begun
<1>2. 0 \notin Places(s) /\ NoWait.at = 0
  BY OfAStrand DEF NoWait
<1> QED BY <1>1, <1>2 DEF Numbered

(* A run begins with nothing, on a file that is empty or serves it.           *)
LEMMA FreshOwn ==
    ASSUME NEW s \in Strands, Fresh, FileInv, file' = file, phase' = "driving",
           alone' => mode' = "update" \/ \A k \in Keys : file[k] = <<>>
    PROVE  Own(s)' /\ SavedAt(s)'
<1>1. /\ seen' = Begun.seen /\ num' = Begun.num /\ val' = Begun.val /\ waiting' = Begun.waiting
      /\ saved' = Begun /\ halted' = {}
  BY DEF Fresh
<1>2. /\ \A i \in Places(s) : num'[s][i] = Unnumbered /\ val'[s][i] = None
      /\ waiting'[s] = NoWait /\ Numbered(s, num'[s]) = {} /\ None \notin Answers
      /\ \A c \in Wording : seen'[s][c] = 0
  BY <1>1, BegunAt, ProgramAssumption
<1>3. ~Waits(s)' /\ InFlight(s)' = {}
  BY <1>2 DEF Waits, InFlight
<1>4. CountsAt(s)'
  <2>1. ASSUME NEW c \in Wording PROVE seen'[s][c] <= Cardinality(Numbered(s, num'[s]) \cap Alikes(s, c))
    <3>1. Numbered(s, num'[s]) \cap Alikes(s, c) = {} /\ Cardinality({}) = 0
      BY <1>2, FS_EmptySet
    <3> QED BY <1>2, <3>1
  <2> QED BY <1>2, <2>1 DEF CountsAt
<1>5. FiledAt(s)' /\ SoloAt(s)'
  BY <1>1, <1>2, <1>3 DEF FiledAt, SoloAt
<1>6. FirstAt(s)'
  BY <1>2, <1>3 DEF FirstAt
<1>7. SavedAt(s)'
  BY <1>1, <1>2, BegunAt DEF SavedAt
<1> QED BY <1>4, <1>5, <1>6, <1>7 DEF Own

LEMMA NextRunInv ==
    ASSUME AllInv, [Next]_vars PROVE RunInv'
<1> USE BoundsAssumption DEF AllInv, RunInv
<1>1. CASE UNCHANGED vars
  BY <1>1 DEF vars
<1>2. CASE Stop
  BY <1>2 DEF Stop
<1>3. CASE Resume
  <2>1. /\ UNCHANGED <<mode, stops, saved, runs>> /\ phase' = "driving" /\ halted' = {}
        /\ whole' = saved.whole
        /\ (phase = "stopped" /\ failures' = failures)
           \/ (phase = "failed" /\ stops > 0 /\ failures < MaxFailures /\ failures' = failures + 1)
    BY <1>3 DEF Resume
  <2>5. failures' \in 0 .. MaxFailures
    <3>1. failures \in 0 .. MaxFailures /\ MaxFailures \in Nat
      OBVIOUS
    <3> HIDE DEF AllInv, RunInv
    <3> QED BY <2>1, <3>1
  <2>2. alone' \in BOOLEAN /\ (alone' => alone /\ phase = "stopped")
    <3>1. alone \in BOOLEAN
      OBVIOUS
    <3>2. CASE phase = "stopped" /\ UNCHANGED <<failures, alone>>
      <4> HIDE DEF AllInv, RunInv
      <4> QED BY <3>1, <3>2
    <3>3. CASE alone' = FALSE
      BY <3>3
    <3> QED BY <1>3, <3>2, <3>3 DEF Resume
  <2>3. mode # "replay"
    BY <2>1
  <2>4. whole' \in BOOLEAN /\ saved'.whole \in BOOLEAN /\ (alone' => whole')
    BY <2>1, <2>2
  <2> QED BY <2>1, <2>2, <2>3, <2>4, <2>5
<1>4. CASE EndRun
  BY <1>4 DEF EndRun
<1>5. ASSUME NEW m \in {"record", "update", "replay"}, NextRun(m) PROVE RunInv'
  <2>1. saved'.whole = TRUE
    BY <1>5 DEF NextRun, Fresh, Begun
  <2>2. /\ mode' = m /\ phase' = "driving" /\ runs' = runs + 1 /\ failures' = failures
        /\ whole' = TRUE /\ halted' = {} /\ stops' = 0 /\ mode # "replay"
        /\ (IF runs < Recorded THEN m \in {"record", "update"} ELSE m = "replay")
    BY <1>5 DEF NextRun, Fresh
  <2>3. alone' \in BOOLEAN
    BY <1>5 DEF NextRun
  <2>4. runs' \in 1 .. Recorded + 1 /\ (mode' # "replay" => runs' <= Recorded)
    BY <2>2
  <2>5. /\ stops' \in 0 .. MaxStops /\ (mode' = "replay" => stops' = 0 /\ halted' = {})
        /\ halted' \subseteq Strands /\ failures' \in 0 .. MaxFailures /\ phase' # "stopped"
    BY <2>2
  <2>6. mode' \in {"record", "update", "replay"} /\ whole' \in BOOLEAN /\ saved'.whole \in BOOLEAN
    BY <2>1, <2>2
  <2>7. halted' = {} /\ phase' = "driving" /\ whole'
    BY <2>2
  <2> HIDE DEF AllInv
  <2> QED BY <2>3, <2>4, <2>5, <2>6, <2>7
<1>6. ASSUME NEW s \in Strands, Works(s) PROVE RunInv'
  <2>1. ASSUME NEW i \in Places(s), Suspend(s, i) PROVE RunInv'
    BY <2>1 DEF Suspend, Recording, Missing
  <2>2. ASSUME NEW i \in Places(s), Reserve(s, i) \/ Take(s, i) PROVE RunInv'
    BY <2>2 DEF Reserve, Take, Goes
  <2>3. ASSUME NEW i \in Places(s), Serve(s, i) \/ Miss(s, i) PROVE RunInv'
    BY <2>3 DEF Serve, Miss, Missing
  <2>4. ASSUME NEW v \in Answers, Deliver(s, v) PROVE RunInv'
    BY <2>4 DEF Deliver
  <2>5. ASSUME NEW v \in Answers, NEW i \in Places(s), Live(s, i, v) PROVE RunInv'
    BY <2>5 DEF Live, Missing
  <2>6. ASSUME Fail(s) PROVE RunInv'
    BY <2>6 DEF Fail, Fails, Goes
  <2>7. ASSUME Retry(s) \/ Leave(s) \/ \E i \in Places(s) : Catch(s, i) PROVE RunInv'
    <3>1. /\ UNCHANGED <<mode, phase, halted, stops, saved, runs>> /\ phase = "driving"
          /\ ~whole' /\ ~alone' /\ alone' \in BOOLEAN /\ whole' \in BOOLEAN /\ mode # "replay"
          /\ failures < MaxFailures /\ failures' = failures + 1
      BY <2>7 DEF Retry, Leave, Catch, GoesOn, Fails, Goes, Recording
    <3> QED BY <3>1
  <2> QED BY <1>6, <2>1, <2>2, <2>3, <2>4, <2>5, <2>6, <2>7 DEF Works
<1> QED BY <1>1, <1>2, <1>3, <1>4, <1>5, <1>6 DEF Next

(* A run that is recorded to its end is one more.                            *)
LEMMA EndHeard ==
    ASSUME AllInv, EndRun, Recording
    PROVE  /\ \E S : heard' \in Seq(S)
           /\ DOMAIN heard' = DOMAIN heard \cup {Len(heard) + 1}
           /\ \A r \in DOMAIN heard : heard'[r] = heard[r]
           /\ heard'[Len(heard) + 1] = [num |-> num, val |-> val, alone |-> alone, whole |-> whole]
<1> DEFINE e == [num |-> num, val |-> val, alone |-> alone, whole |-> whole]
<1>1. PICK S : heard \in Seq(S)
  BY DEF AllInv, HeardInv
<1>2. heard' = Append(heard, e)
  BY DEF EndRun
<1>3. heard \in Seq(S \cup {e}) /\ e \in S \cup {e}
  BY <1>1
<1> HIDE DEF e
<1>4. heard' \in Seq(S \cup {e})
  BY <1>2, <1>3
<1>5. /\ DOMAIN heard' = DOMAIN heard \cup {Len(heard) + 1} /\ heard'[Len(heard) + 1] = e
      /\ \A r \in DOMAIN heard : heard'[r] = heard[r]
  BY <1>1, <1>2, <1>3
<1> QED BY <1>4, <1>5 DEF e

(* A run that is recorded leaves the answers it went on with.                *)
LEMMA NextHeardInv ==
    ASSUME AllInv, [Next]_vars, Grows PROVE HeardInv'
<1>1. ASSUME NEW k \in Keys PROVE Range(file[k]) \subseteq Range(file'[k])
  BY DEF Grows
<1>2. None \notin Answers
  BY ProgramAssumption
<1>3. ASSUME NEW r \in DOMAIN heard, r \in DOMAIN heard', heard'[r] = heard[r], NEW s \in Strands, NEW i \in Places(s)
      PROVE  HeardAt(r, s, i)'
  <2>1. HeardAt(r, s, i) /\ HeardKey(r, s, i)' = HeardKey(r, s, i)
    BY <1>3 DEF AllInv, HeardInv, HeardKey
  <2>2. ASSUME heard[r].val[s][i] \in Answers
        PROVE  /\ HeardKey(r, s, i) \in Keys
               /\ heard[r].val[s][i] \in Range(file'[HeardKey(r, s, i)])
               /\ Head(file'[HeardKey(r, s, i)]) = Head(file[HeardKey(r, s, i)])
               /\ file'[HeardKey(r, s, i)] # <<>> /\ file[HeardKey(r, s, i)] # <<>>
    <3>1. PICK k \in Keys : k = HeardKey(r, s, i)
      BY <2>1, <2>2 DEF HeardAt
    <3>2. heard[r].val[s][i] \in Range(file[k])
      BY <2>1, <2>2, <3>1 DEF HeardAt
    <3>3. file[k] # <<>>
      BY <3>2 DEF Range
    <3> QED BY <1>1, <3>1, <3>2, <3>3 DEF Grows
  <2>3. heard[r].alone => heard[r].val[s][i] \in Answers
    BY <2>1 DEF HeardAt
  <2> QED BY <1>3, <2>1, <2>2, <2>3 DEF HeardAt, Lookup
<1>4. CASE heard' = heard
  BY <1>3, <1>4 DEF HeardInv, AllInv
<1>5. ASSUME EndRun, Recording PROVE HeardInv'
  <2>0. PICK l : l = Len(heard) + 1
    OBVIOUS
  <2>1. /\ \E S : heard' \in Seq(S)
        /\ DOMAIN heard' = DOMAIN heard \cup {l} /\ \A r \in DOMAIN heard : heard'[r] = heard[r]
        /\ heard'[l] = [num |-> num, val |-> val, alone |-> alone, whole |-> whole]
    BY <1>5, <2>0, EndHeard
  <2>2. UNCHANGED <<file, num, val, alone, whole>>
    BY <1>5 DEF EndRun
  <2>6. heard'[l].num = num /\ heard'[l].val = val /\ heard'[l].alone = alone /\ heard'[l].whole = whole
    BY <2>1
  <2>7. ASSUME NEW s \in Strands, NEW i \in Places(s) PROVE HeardAt(l, s, i)'
    <3>1. val[s][i] # None
      BY <1>5 DEF EndRun, Finished
    <3>2. FiledAt(s) /\ FirstAt(s) /\ ShapeInv /\ NumbersInv /\ RunInv
      BY OwnOf
    <3>3. val[s][i] \in Answers =>
             num[s][i] # Unnumbered /\ val[s][i] \in Range(file[KeyOf(s, i)]) /\ KeyOf(s, i) \in Keys
      BY <3>2, NumberedIn DEF FiledAt
    <3>4. whole => val[s][i] \in Answers
      BY <3>1, <3>2 DEF FiledAt
    <3>5. s \in Agents /\ whole => num[s][i] = Cardinality(Before(s, i))
      BY <3>2, <3>3, <3>4, AgentNumber
    <3>6. s \in Agents /\ alone => whole /\ val[s][i] = Lookup(KeyOf(s, i))
      BY <3>2, <3>4 DEF FirstAt, RunInv
    <3>7. alone => whole
      BY <3>2 DEF RunInv
    <3>8. HeardKey(l, s, i)' = KeyOf(s, i)
      BY <2>6 DEF HeardKey, KeyOf
    <3> QED BY <2>2, <2>6, <3>3, <3>4, <3>5, <3>6, <3>7, <3>8 DEF HeardAt, Lookup
  <2>8. ASSUME NEW r \in DOMAIN heard', NEW s \in Strands, NEW i \in Places(s) PROVE HeardAt(r, s, i)'
    <3>1. CASE r \in DOMAIN heard
      BY <1>3, <2>1, <3>1
    <3>2. CASE r = l
      BY <2>7, <3>2
    <3> QED BY <2>1, <3>1, <3>2
  <2> QED BY <2>1, <2>8 DEF HeardInv
<1>6. heard' = heard \/ (EndRun /\ Recording)
  <2>1. ASSUME NEW s \in Strands, Works(s) PROVE heard' = heard
    BY <2>1, WorksElsewhere DEF Elsewhere
  <2>2. ASSUME NEW m \in {"record", "update", "replay"}, NextRun(m) PROVE heard' = heard
    BY <2>2 DEF NextRun
  <2> QED BY <2>1, <2>2 DEF Next, vars, Stop, Resume, EndRun
<1> QED BY <1>4, <1>5, <1>6

LEMMA SameOwn ==
    ASSUME AllInv, NEW s \in Strands,
           UNCHANGED <<mode, file, seen, num, val, waiting, halted, stops, alone, whole, saved>>,
           phase' = phase \/ (phase = "driving" /\ phase' = "over")
    PROVE  Own(s)' /\ SavedAt(s)'
<1>1. CountsAt(s) /\ FiledAt(s) /\ SoloAt(s) /\ FirstAt(s) /\ SavedAt(s)
  BY OwnOf
<1>2. CountsAt(s)' /\ FiledAt(s)' /\ SavedAt(s)'
  BY <1>1 DEF CountsAt, FiledAt, KeyOf, SavedAt, SavedKey
<1>3. SoloAt(s)' /\ FirstAt(s)'
  BY <1>1 DEF SoloAt, FirstAt, InFlight, Waits, WaitKey, KeyOf, Lookup
<1> QED BY <1>2, <1>3 DEF Own

LEMMA AllInductive == Spec => []AllInv
<1>1. Init => AllInv
  <2> SUFFICES ASSUME Init PROVE AllInv
    OBVIOUS
  <2>1. ShapeInv /\ NumbersInv /\ FileInv
    BY InitIInv DEF IInv
  <2>2. RunInv
    BY BoundsAssumption DEF Init, RunInv, Begun
  <2>3. HeardInv
    <3>1. heard \in Seq({}) /\ DOMAIN heard = {}
      BY DEF Init
    <3> QED BY <3>1 DEF HeardInv
  <2>4. ASSUME NEW s \in Strands PROVE Own(s) /\ SavedAt(s)
    <3>1. /\ seen = Begun.seen /\ num = Begun.num /\ val = Begun.val /\ waiting = Begun.waiting
          /\ saved = Begun /\ halted = {} /\ phase = "driving" /\ mode = "record"
          /\ \A k \in Keys : file[k] = <<>>
      BY DEF Init
    <3>2. /\ \A i \in Places(s) : num[s][i] = Unnumbered /\ val[s][i] = None
          /\ waiting[s] = NoWait /\ None \notin Answers
      BY <3>1, BegunAt, ProgramAssumption
    <3>3. ~Waits(s) /\ InFlight(s) = {}
      BY <3>2 DEF Waits, InFlight
    <3>4. CountsAt(s) /\ FiledAt(s) /\ SoloAt(s) /\ FirstAt(s)
      BY <3>1, <3>2, <3>3 DEF CountsAt, FiledAt, SoloAt, FirstAt
    <3>5. SavedAt(s)
      BY <3>1, <3>2, BegunAt DEF SavedAt
    <3> QED BY <3>4, <3>5 DEF Own
  <2> QED BY <2>1, <2>2, <2>3, <2>4 DEF AllInv, StrandInv
<1>2. AllInv /\ [Next]_vars => AllInv'
  <2> SUFFICES ASSUME AllInv, [Next]_vars PROVE AllInv'
    OBVIOUS
  <2>1. ShapeInv' /\ NumbersInv' /\ FileInv'
    BY NextIInv DEF IInv, AllInv
  <2>2. RunInv'
    BY NextRunInv
  <2>3. Grows
    BY NextFile DEF AllInv
  <2>4. HeardInv'
    BY <2>3, NextHeardInv
  <2>5. ASSUME NEW s \in Strands PROVE Own(s)' /\ SavedAt(s)'
    <3>1. CASE UNCHANGED vars
      BY <3>1, SameOwn DEF vars
    <3>2. CASE EndRun
      BY <3>2, SameOwn DEF EndRun
    <3>3. ASSUME NEW m \in {"record", "update", "replay"}, NextRun(m) PROVE Own(s)' /\ SavedAt(s)'
      <4>1. Fresh /\ file' = file /\ phase' = "driving"
        BY <3>3 DEF NextRun
      <4>2. alone' => mode' = "update" \/ \A k \in Keys : file[k] = <<>>
        BY <3>3 DEF NextRun
      <4> QED BY <4>1, <4>2, FreshOwn DEF AllInv
    <3>4. ASSUME NEW r \in Strands, Works(r) PROVE Own(s)' /\ SavedAt(s)'
      <4>1. Elsewhere(r) /\ saved' = saved
        BY <3>4, WorksElsewhere DEF Elsewhere
      <4>2. Own(s)'
        BY <2>3, <3>4, <4>1, WorksOwn, OthersKept
      <4>3. SavedAt(s)'
        BY <2>3, <4>1, OwnOf, SavedKept
      <4> QED BY <4>2, <4>3
    <3> QED BY <3>1, <3>2, <3>3, <3>4, StopOwn, ResumeOwn DEF Next
  <2>6. StrandInv'
    BY <2>5 DEF StrandInv
  <2> QED BY <2>1, <2>2, <2>4, <2>6 DEF AllInv
<1> QED BY <1>1, <1>2, PTL DEF Spec

(* Types of the cassette and of the numbers under which it is filed.         *)
THEOREM TypesHold == Spec => []TypeOK
<1>1. AllInv => TypeOK
  <2> SUFFICES ASSUME AllInv PROVE TypeOK
    OBVIOUS
  <2>1. ASSUME NEW s \in Strands
        PROVE  /\ \A c \in Wording : seen[s][c] \in 0 .. MaxAsked
               /\ \A i \in Places(s) : num[s][i] \in -1 .. MaxAsked - 1 /\ val[s][i] \in Answers \cup {None, Failed, Left}
               /\ waiting[s].at \in Places(s) \cup {0}
    BY ShapeOf DEF AllInv, NoWait
  <2>2. /\ mode \in {"record", "update", "replay"} /\ alone \in BOOLEAN /\ whole \in BOOLEAN
        /\ phase \in {"driving", "stopped", "over", "failed", "missed"}
        /\ halted \subseteq Strands /\ stops \in 0 .. MaxStops /\ failures \in 0 .. MaxFailures
        /\ runs \in 1 .. Recorded + 1
    BY DEF AllInv, RunInv
  <2>3. \A k \in Keys : file[k] \in Seq(Answers) /\ IsInjective(file[k])
    BY DEF AllInv, FileInv
  <2> QED BY <2>1, <2>2, <2>3 DEF TypeOK
<1> QED BY <1>1, AllInductive, PTL

(* Whatever a recorded run was answered is on file, under the key of the call *)
(* that was answered, and stays there whatever is recorded afterwards and     *)
(* whatever failed.                                                           *)
THEOREM AnswersStayOnFile == Spec => []EveryAnswerIsOnFile
<1>1. AllInv => EveryAnswerIsOnFile
  BY DEF AllInv, HeardInv, HeardAt, HeardKey, EveryAnswerIsOnFile
<1> QED BY <1>1, AllInductive, PTL

(* An agent's replay is handed what the recorded run was: its calls have the *)
(* same numbers, and the first answer under a key stays the first.           *)
THEOREM AgentsReplay == Spec => []ReplayIsTheRun
<1>1. AllInv => ReplayIsTheRun
  <2> SUFFICES ASSUME AllInv, NEW s \in Strands, Kind[s] = "agent", mode = "replay",
                      NEW r \in DOMAIN heard, heard[r].alone, NEW i \in Places(s), val[s][i] # None
               PROVE  val[s][i] = heard[r].val[s][i]
    BY DEF ReplayIsTheRun, Repeats
  <2>1. s \in Agents /\ FiledAt(s) /\ FirstAt(s) /\ whole /\ NumbersInv
    BY OwnOf DEF Agents, RunInv
  <2>2. val[s][i] \in Answers /\ num[s][i] # Unnumbered
    BY <2>1 DEF FiledAt
  <2>3. num[s][i] = Cardinality(Before(s, i)) /\ val[s][i] = Lookup(KeyOf(s, i))
    BY <2>1, <2>2, AgentNumber DEF FirstAt
  <2>4. HeardAt(r, s, i)
    BY DEF AllInv, HeardInv
  <2>5. heard[r].num[s][i] = Cardinality(Before(s, i)) /\ heard[r].val[s][i] = Lookup(HeardKey(r, s, i))
    BY <2>1, <2>4 DEF HeardAt
  <2> QED BY <2>3, <2>5 DEF KeyOf, HeardKey
<1> QED BY <1>1, AllInductive, PTL

-----------------------------------------------------------------------------
(* That a replay lacks nothing.                                             *)
LEMMA ReachedFinite ==
    ASSUME NEW s \in Strands, NEW n, NEW w, NEW c
    PROVE  /\ Reached(s, n, w, c) \in SUBSET Places(s) /\ IsFiniteSet(Reached(s, n, w, c))
           /\ Cardinality(Reached(s, n, w, c)) \in Nat
           /\ \A S \in SUBSET Reached(s, n, w, c) :
                 Cardinality(S) \in Nat /\ Cardinality(S) <= Cardinality(Reached(s, n, w, c))
<1>1. Reached(s, n, w, c) \in SUBSET Places(s)
  BY DEF Reached, Alikes
<1> QED BY <1>1, OfAStrand, FS_Subset

LEMMA ServedTake ==
    ASSUME AllInv, NEW s \in Dets, whole, NEW i \in Places(s), Take(s, i), ServedAt(s) PROVE ServedAt(s)'
<1> DEFINE n == seen[s][CallAt(s, i)]
           R(c) == Reached(s, num[s], waiting[s], c)
<1>1. s \in Strands /\ CallAt(s, i) \in Wording
  BY OfAStrand DEF Dets
<1>2. /\ UNCHANGED <<mode, file, val, waiting, whole>>
      /\ InFlight(s) = {} /\ num[s][i] = Unnumbered /\ val[s][i] = None /\ waiting[s].at # i
  BY DEF Take
<1>3. n \in Nat /\ num'[s][i] = n /\ \A j \in Places(s) \ {i} : num'[s][j] = num[s][j]
  BY <1>1, OwnOf, SeenIn DEF Take
<1>4. i \in InFlight(s)' /\ KeyOf(s, i)' = <<s, CallAt(s, i), n>>
  BY <1>2, <1>3 DEF InFlight, KeyOf, Unnumbered
<1>5. ASSUME NEW c \in Wording
      PROVE  seen[s][c] \in Nat /\ seen'[s][c] = IF CallAt(s, i) = c THEN seen[s][c] + 1 ELSE seen[s][c]
  BY <1>1, TakenCount
<1>6. ASSUME NEW c \in Wording PROVE Cardinality(Reached(s, num'[s], waiting'[s], c)) <= seen'[s][c]
  <2>1. Cardinality(R(c)) <= seen[s][c] /\ Cardinality(R(c)) \in Nat /\ IsFiniteSet(R(c))
    BY <1>1, ReachedFinite DEF ServedAt
  <2>2. Numbered(s, num'[s]) = Numbered(s, num[s]) \cup {i} /\ i \notin Numbered(s, num[s])
    BY <1>2, <1>3 DEF Numbered, Unnumbered
  <2>3. CASE CallAt(s, i) = c
    <3>1. Reached(s, num'[s], waiting'[s], c) = R(c) \cup {i} /\ i \notin R(c)
      BY <1>2, <2>2, <2>3 DEF Reached, Alikes
    <3>2. Cardinality(R(c) \cup {i}) = Cardinality(R(c)) + 1
      BY <2>1, <3>1, FS_AddElement
    <3>3. seen[s][c] \in Nat /\ seen'[s][c] = seen[s][c] + 1
      BY <1>5, <2>3
    <3> QED BY <2>1, <3>1, <3>2, <3>3
  <2>4. CASE CallAt(s, i) # c
    <3>1. Reached(s, num'[s], waiting'[s], c) = R(c)
      BY <1>2, <2>2, <2>4 DEF Reached, Alikes
    <3> QED BY <1>5, <2>1, <2>4, <3>1
  <2> QED BY <2>3, <2>4
<1>7. ASSUME mode # "replay", NEW c \in Wording, NEW m \in Nat, m < seen'[s][c]
      PROVE  Accounted(s, <<s, c, m>>)'
  <2>1. CASE m < seen[s][c]
    <3>1. Accounted(s, <<s, c, m>>)
      BY <1>7, <2>1 DEF ServedAt
    <3> QED BY <1>2, <3>1 DEF Accounted, Waits, WaitKey
  <2>2. CASE m = n /\ CallAt(s, i) = c
    BY <1>4, <2>2 DEF Accounted
  <2> QED BY <1>5, <1>7, <2>1, <2>2
<1> QED BY <1>2, <1>6, <1>7 DEF ServedAt

(* An answer to the call in flight is filed. *)
LEMMA ServedAnswer ==
    ASSUME AllInv, NEW s \in Dets, whole, NEW i \in InFlight(s), file'[KeyOf(s, i)] # <<>>,
           UNCHANGED <<num, seen, waiting, mode>>, Grows, ServedAt(s)
    PROVE  ServedAt(s)'
<1>1. s \in Strands
  BY DEF Dets
<1>2. InFlight(s) = {i}
  BY <1>1, OwnOf DEF SoloAt
<1>3. ASSUME mode # "replay", NEW c \in Wording, NEW m \in Nat, m < seen[s][c]
      PROVE  Accounted(s, <<s, c, m>>)'
  <2>1. PICK k \in Keys : k = <<s, c, m>>
    BY <1>1, <1>3, OwnOf, SeenIn
  <2>2. Accounted(s, k)
    BY <1>3, <2>1 DEF ServedAt
  <2>3. CASE file[k] # <<>>
    BY <2>1, <2>3 DEF Grows, Accounted
  <2>4. CASE \E j \in InFlight(s) : k = KeyOf(s, j)
    BY <1>2, <2>1, <2>4 DEF Accounted
  <2>5. CASE Waits(s) /\ k = WaitKey(s)
    BY <2>1, <2>5 DEF Accounted, Waits, WaitKey
  <2> QED BY <2>2, <2>3, <2>4, <2>5 DEF Accounted
<1>4. ASSUME NEW c \in Wording PROVE Cardinality(Reached(s, num'[s], waiting'[s], c)) <= seen'[s][c]
  BY DEF ServedAt
<1> QED BY <1>3, <1>4 DEF ServedAt

(* The call that waits keeps its number: no other was waiting.               *)
LEMMA ServedSuspend ==
    ASSUME AllInv, AsksOnce, NEW s \in Dets, whole, NEW i \in Places(s), Suspend(s, i), ServedAt(s)
    PROVE  ServedAt(s)'
<1>1. s \in Strands /\ i \in InFlight(s) /\ i \in Asks(s) /\ num[s][i] # Unnumbered
  BY InFlightIn DEF Dets, Suspend, Missing, Asks
<1>2. InFlight(s) = {i} /\ ~Waits(s)
  <2>1. waiting[s].at # i
    BY <1>1 DEF InFlight
  <2> QED BY <1>1, <2>1, OwnOf DEF SoloAt, AsksOnce
<1>3. /\ waiting'[s] = [at |-> i, number |-> num[s][i]] /\ UNCHANGED <<mode, file, seen, num, whole>>
  BY <1>1, OwnOf DEF Suspend
<1>4. waiting'[s].at = i /\ waiting'[s].number = num[s][i] /\ i # 0
  BY <1>1, <1>3, OfAStrand
<1>5. Waits(s)' /\ WaitKey(s)' = KeyOf(s, i)
  BY <1>3, <1>4 DEF Waits, WaitKey, KeyOf, NoWait
<1>6. ASSUME NEW c \in Wording PROVE Cardinality(Reached(s, num'[s], waiting'[s], c)) <= seen'[s][c]
  <2> DEFINE R == Reached(s, num[s], waiting[s], c)
  <2>1. Reached(s, num'[s], waiting'[s], c) \in SUBSET R
    BY <1>1, <1>3, <1>4 DEF Reached, Numbered
  <2>2. Cardinality(R) <= seen[s][c] /\ seen[s][c] \in Nat
    BY <1>1, OwnOf, SeenIn DEF ServedAt
  <2>3. /\ Cardinality(Reached(s, num'[s], waiting'[s], c)) <= Cardinality(R)
        /\ Cardinality(Reached(s, num'[s], waiting'[s], c)) \in Nat /\ Cardinality(R) \in Nat
    BY <1>1, <2>1, ReachedFinite
  <2> QED BY <1>3, <2>2, <2>3
<1>7. ASSUME mode # "replay", NEW c \in Wording, NEW m \in Nat, m < seen[s][c]
      PROVE  Accounted(s, <<s, c, m>>)'
  <2>1. Accounted(s, <<s, c, m>>)
    BY <1>7 DEF ServedAt
  <2>2. file[<<s, c, m>>] # <<>> \/ <<s, c, m>> = KeyOf(s, i)
    BY <1>2, <2>1 DEF Accounted
  <2> QED BY <1>3, <1>5, <2>2 DEF Accounted
<1> QED BY <1>3, <1>6, <1>7 DEF ServedAt

LEMMA ServedDeliver ==
    ASSUME AllInv, NEW s \in Dets, whole, NEW v \in Answers, Deliver(s, v), Grows, ServedAt(s)
    PROVE  ServedAt(s)'
<1>0. PICK i : i = waiting[s].at
  OBVIOUS
<1>1. s \in Strands /\ Waits(s) /\ InFlight(s) = {} /\ ShapeInv /\ FileInv /\ DOMAIN num = Strands
      /\ DOMAIN waiting = Strands /\ DOMAIN num[s] = Places(s)
  <2>1. s \in Strands
    BY DEF Dets
  <2> QED BY <2>1, OwnOf DEF Dets, Deliver
<1>2. WaitKey(s) \in Keys /\ i \in Places(s) /\ waiting[s].number \in Nat
  BY <1>0, <1>1, WaitKeyIn
<1>3. /\ num'[s][i] = waiting[s].number /\ \A j \in Places(s) \ {i} : num'[s][j] = num[s][j]
      /\ waiting'[s] = NoWait /\ UNCHANGED <<mode, seen, whole>>
  BY <1>0, <1>1, <1>2 DEF Deliver
<1>4. PICK k \in Keys : k = WaitKey(s)
  BY <1>2
<1>5. file'[k] # <<>>
  <2>1. file' = Store(k, v)
    BY <1>4 DEF Deliver, WaitKey
  <2> QED BY <1>1, <2>1, Stored
<1>6. ASSUME NEW c \in Wording
      PROVE  Reached(s, num'[s], waiting'[s], c) = Reached(s, num[s], waiting[s], c)
  <2>1. Numbered(s, num'[s]) = Numbered(s, num[s]) \cup {i}
    BY <1>2, <1>3 DEF Numbered, Unnumbered
  <2>2. 0 \notin Places(s)
    BY <1>1, OfAStrand
  <2> QED BY <1>0, <1>3, <2>1, <2>2 DEF Reached, NoWait, Alikes
<1>7. ASSUME mode # "replay", NEW c \in Wording, NEW m \in Nat, m < seen[s][c]
      PROVE  Accounted(s, <<s, c, m>>)'
  <2>1. PICK l \in Keys : l = <<s, c, m>>
    BY <1>1, <1>7, SeenIn
  <2>2. Accounted(s, l)
    BY <1>7, <2>1 DEF ServedAt
  <2>3. file[l] # <<>> \/ l = k
    BY <1>1, <1>4, <2>2 DEF Accounted
  <2>4. file'[l] # <<>>
    BY <1>5, <2>3 DEF Grows
  <2> QED BY <2>1, <2>4 DEF Accounted
<1>8. \A c \in Wording : Cardinality(Reached(s, num'[s], waiting'[s], c)) <= seen'[s][c]
  BY <1>3, <1>6 DEF ServedAt
<1> QED BY <1>3, <1>7, <1>8 DEF ServedAt

(* It is about the counts and the places of a strand, and nothing else. *)
LEMMA ServedSame ==
    ASSUME UNCHANGED <<mode, file, seen, num, val, waiting, whole>>, NEW s \in Strands, ServedAt(s)
    PROVE  ServedAt(s)'
<1>1. InFlight(s)' = InFlight(s)
  BY DEF InFlight
<1>2. ASSUME NEW k, Accounted(s, k) PROVE Accounted(s, k)'
  <2>1. CASE file[k] # <<>>
    BY <2>1 DEF Accounted
  <2>2. CASE \E i \in InFlight(s) : k = KeyOf(s, i)
    <3>1. PICK i \in InFlight(s) : k = KeyOf(s, i)
      BY <2>2
    <3>2. i \in InFlight(s)' /\ k = KeyOf(s, i)'
      BY <1>1, <3>1 DEF KeyOf
    <3> QED BY <3>2 DEF Accounted
  <2>3. CASE Waits(s) /\ k = WaitKey(s)
    BY <2>3 DEF Accounted, Waits, WaitKey
  <2> QED BY <1>2, <2>1, <2>2, <2>3 DEF Accounted
<1> QED BY <1>2 DEF ServedAt

LEMMA ServedOwn ==
    ASSUME AllInv, AsksOnce, NEW s \in Strands, Works(s), ServedAt(s) PROVE ServedAt(s)'
<1>1. Elsewhere(s) /\ Grows /\ ShapeInv /\ FileInv /\ (whole' => whole)
  BY OwnOf, WorksElsewhere DEF Elsewhere
<1> SUFFICES ASSUME s \in Dets, whole' PROVE ServedAt(s)'
  BY DEF ServedAt
<1>2. whole
  BY <1>1
<1>3. ASSUME NEW i \in Places(s), Reserve(s, i) PROVE FALSE
  BY <1>3 DEF Reserve, Overlaps, Dets
<1>4. ASSUME NEW i \in Places(s), Serve(s, i) PROVE ServedAt(s)'
  <2>1. KeyOf(s, i) \in Keys /\ i \in InFlight(s)
    BY <1>1, <1>4, InFlightIn, NumberedIn DEF Serve
  <2>2. file'[KeyOf(s, i)] # <<>> /\ UNCHANGED <<num, seen, waiting, mode>>
    BY <1>1, <1>4, <2>1, Looked DEF Serve
  <2> QED BY <1>1, <1>2, <2>1, <2>2, ServedAnswer
<1>5. ASSUME NEW i \in Places(s), NEW v \in Answers, Live(s, i, v) PROVE ServedAt(s)'
  <2>1. i \in InFlight(s) /\ UNCHANGED <<num, seen, waiting, mode>>
    BY <1>5 DEF Live, Missing
  <2>2. PICK k \in Keys : k = KeyOf(s, i)
    BY <1>1, <2>1, InFlightIn, NumberedIn
  <2>3. file' = Store(k, v)
    BY <1>5, <2>2 DEF Live
  <2>4. file'[k] # <<>>
    BY <1>1, <2>3, Stored
  <2> QED BY <1>1, <1>2, <2>1, <2>2, <2>4, ServedAnswer
<1>6. ASSUME (\E i \in Places(s) : Miss(s, i)) \/ Fail(s) PROVE ServedAt(s)'
  <2>1. UNCHANGED <<mode, file, seen, num, val, waiting, whole>>
    BY <1>6 DEF Miss, Fail
  <2> QED BY <2>1, ServedSame
<1>7. ASSUME Retry(s) \/ Leave(s) \/ \E i \in Places(s) : Catch(s, i) PROVE FALSE
  BY <1>7 DEF Retry, Leave, Catch, GoesOn
<1> QED BY <1>1, <1>2, <1>3, <1>4, <1>5, <1>6, <1>7, ServedTake, ServedSuspend, ServedDeliver DEF Works

(* A call a replay misses is one no whole run came past.                     *)
LEMMA MissedUnheard ==
    ASSUME AllInv, ServedInv, NEW s \in Strands, NEW i \in Places(s), Miss(s, i),
           NEW r \in DOMAIN heard, heard[r].whole
    PROVE  FALSE
<1>1. num[s][i] # Unnumbered /\ CallAt(s, i) \in Wording /\ mode = "replay"
  BY InFlightIn, OfAStrand DEF Miss, Missing
<1>2. KeyOf(s, i) \in Keys /\ num[s][i] \in Nat
  BY <1>1, NumberedIn, OwnOf
<1>3. file[KeyOf(s, i)] = <<>>
  BY <1>2, OwnOf, Looked DEF Miss, Missing, ServesHits
<1>4. CASE s \in Agents
  <2>1. num[s][i] = Cardinality(Before(s, i))
    <3>1. whole /\ NumbersInv
      BY <1>1, OwnOf DEF RunInv
    <3> QED BY <1>1, <1>4, <3>1, AgentNumber
  <2>2. HeardAt(r, s, i)
    BY DEF AllInv, HeardInv
  <2>3. HeardKey(r, s, i) = KeyOf(s, i) /\ heard[r].val[s][i] \in Range(file[HeardKey(r, s, i)])
    BY <1>4, <2>1, <2>2 DEF HeardAt, HeardKey, KeyOf
  <2> QED BY <1>3, <2>3 DEF Range
<1>5. CASE s \in Dets
  <2>1. num[s][i] < Often(s, CallAt(s, i))
    BY <1>1, <1>5, OwnOf DEF CountsAt
  <2> QED BY <1>1, <1>2, <1>3, <1>5, <2>1 DEF ServedInv, KeyOf
<1> QED BY <1>4, <1>5, OneKind

LEMMA EndServed ==
    ASSUME AllInv, EndRun, Recording, whole, NEW s \in Dets, ServedAt(s),
           NEW c \in Wording, NEW n \in Nat, n < Often(s, c)
    PROVE  <<s, c, n>> \in Keys /\ file'[<<s, c, n>>] # <<>>
<1>1. s \in Strands /\ file' = file /\ mode # "replay"
  BY DEF Dets, EndRun, Recording
<1>2. FiledAt(s) /\ SoloAt(s) /\ ShapeInv
  BY <1>1, OwnOf
<1>3. \A i \in Places(s) : val[s][i] # None /\ num[s][i] # Unnumbered
  BY <1>1, <1>2 DEF EndRun, Finished, FiledAt
<1>4. InFlight(s) = {} /\ ~Waits(s)
  BY <1>2, <1>3 DEF InFlight, SoloAt, Asks
<1>5. Reached(s, num[s], waiting[s], c) = Alikes(s, c)
  BY <1>3 DEF Reached, Numbered, Alikes
<1>6. Often(s, c) <= seen[s][c]
  BY <1>5 DEF ServedAt, Often
<1>7. n < seen[s][c]
  BY <1>1, <1>2, <1>6, SeenIn, OftenType
<1>8. Accounted(s, <<s, c, n>>) /\ <<s, c, n>> \in Keys
  BY <1>1, <1>2, <1>7, SeenIn DEF ServedAt
<1> QED BY <1>1, <1>4, <1>8 DEF Accounted

(* What is written down is accounted for by the file and by the call that     *)
(* waits.                                                                     *)
LEMMA StopServed == ASSUME AllInv, Stop, NEW s \in Strands, ServedAt(s) PROVE SavedServed(s)'
<1>1. /\ saved'.num = num /\ saved'.val = val /\ saved'.waiting = waiting /\ saved'.whole = whole
      /\ saved'.seen = seen /\ file' = file /\ mode # "replay"
  BY OwnOf DEF Stop, RunInv
<1> SUFFICES ASSUME s \in Dets, whole PROVE SavedServed(s)'
  BY <1>1 DEF SavedServed
<1>2. InFlight(s) = {}
  BY OwnOf DEF Stop, Settled, SoloAt
<1>3. ASSUME NEW c \in Wording, NEW m \in Nat, m < seen[s][c]
      PROVE  file[<<s, c, m>>] # <<>> \/ (waiting[s] # NoWait /\ <<s, c, m>> = WaitKey(s))
  BY <1>1, <1>2, <1>3 DEF ServedAt, Accounted, Waits
<1>4. \A c \in Wording : Cardinality(Reached(s, num[s], waiting[s], c)) <= seen[s][c]
  BY DEF ServedAt
<1> QED BY <1>1, <1>3, <1>4 DEF SavedServed, WaitKey

LEMMA ResumeServed == ASSUME AllInv, Resume, NEW s \in Strands, SavedServed(s) PROVE ServedAt(s)'
<1>1. /\ file' = file /\ waiting' = saved.waiting /\ whole' = saved.whole /\ seen' = saved.seen
      /\ num'[s] = [i \in Places(s) |-> IF RunsAgain(s) THEN Unnumbered ELSE saved.num[s][i]]
  BY DEF Resume
<1> SUFFICES ASSUME s \in Dets, saved.whole PROVE ServedAt(s)'
  BY <1>1 DEF ServedAt
<1>2. ASSUME NEW c \in Wording, NEW m \in Nat, m < seen'[s][c] PROVE Accounted(s, <<s, c, m>>)'
  BY <1>1, <1>2 DEF SavedServed, Accounted, Waits, WaitKey
<1>3. ASSUME NEW c \in Wording PROVE Cardinality(Reached(s, num'[s], waiting'[s], c)) <= seen'[s][c]
  <2> DEFINE R == Reached(s, saved.num[s], saved.waiting[s], c)
  <2>1. Reached(s, num'[s], waiting'[s], c) \in SUBSET R
    BY <1>1 DEF Reached, Numbered
  <2>2. Cardinality(R) <= saved.seen[s][c] /\ saved.seen[s][c] \in Nat
    <3>1. Shape(s, saved.num[s], saved.val[s], saved.seen[s], saved.waiting[s]) /\ MaxAsked \in Nat
      BY OwnOf, BoundsAssumption DEF ShapeInv, Shaped
    <3> QED BY <3>1 DEF SavedServed, Shape
  <2>3. /\ Cardinality(Reached(s, num'[s], waiting'[s], c)) <= Cardinality(R)
        /\ Cardinality(Reached(s, num'[s], waiting'[s], c)) \in Nat /\ Cardinality(R) \in Nat
    BY <2>1, ReachedFinite
  <2> QED BY <1>1, <2>2, <2>3
<1> QED BY <1>2, <1>3 DEF ServedAt

(* Where a run begins nothing is numbered, nor written down. *)
LEMMA BegunServed ==
    ASSUME NEW s \in Strands, NEW c \in Wording
    PROVE  /\ \A m \in Nat : ~(m < Begun.seen[s][c])
           /\ Cardinality(Reached(s, Begun.num[s], Begun.waiting[s], c)) <= Begun.seen[s][c]
<1>1. /\ Begun.seen[s][c] = 0 /\ Begun.waiting[s].at = 0 /\ 0 \notin Places(s)
      /\ Numbered(s, Begun.num[s]) = {}
  BY BegunAt
<1>2. Reached(s, Begun.num[s], Begun.waiting[s], c) = {}
  BY <1>1 DEF Reached, Alikes
<1>3. Cardinality({}) = 0
  BY FS_EmptySet
<1> QED BY <1>1, <1>2, <1>3

ServedAll == ServedInv /\ \A s \in Strands : ServedAt(s) /\ SavedServed(s)

LEMMA ServedStep == ASSUME AllInv, AsksOnce, ServedAll, [Next]_vars PROVE ServedAll'
<1>1. ServedInv /\ \A s \in Strands : ServedAt(s) /\ SavedServed(s)
  BY DEF ServedAll
<1>2. Grows /\ ShapeInv
  BY NextFile DEF AllInv
<1>3. ASSUME heard' = heard, mode' = mode,
             phase' = "missed" => phase = "missed" \/ (mode = "replay" /\ \A r \in DOMAIN heard : ~heard[r].whole)
      PROVE  ServedInv'
  <2>1. ASSUME \E r \in DOMAIN heard : heard[r].whole,
               NEW s \in Dets, NEW c \in Wording, NEW n \in Nat, n < Often(s, c)
        PROVE  <<s, c, n>> \in Keys /\ file'[<<s, c, n>>] # <<>>
    <3>1. PICK k \in Keys : k = <<s, c, n>> /\ file[k] # <<>>
      BY <1>1, <2>1 DEF ServedInv
    <3> QED BY <1>2, <3>1 DEF Grows
  <2> QED BY <1>1, <1>3, <2>1 DEF ServedInv
<1>4. \A s \in Strands : saved' = saved => SavedServed(s)'
  BY <1>1, <1>2, SavedKept
<1>5. CASE UNCHANGED vars
  <2>1. /\ UNCHANGED <<mode, file, seen, num, val, waiting, whole>> /\ heard' = heard /\ phase' = phase
        /\ saved' = saved
    BY <1>5 DEF vars
  <2>2. ServedInv'
    BY <1>3, <2>1
  <2>3. \A s \in Strands : ServedAt(s)'
    BY <1>1, <2>1, ServedSame
  <2> QED BY <1>4, <2>1, <2>2, <2>3 DEF ServedAll
<1>6. ASSUME Stop PROVE ServedAll'
  <2>1. UNCHANGED <<mode, file, seen, num, val, waiting, whole>> /\ heard' = heard /\ phase' = "stopped"
    BY <1>6 DEF Stop
  <2>2. ServedInv'
    BY <1>3, <2>1
  <2>3. \A s \in Strands : ServedAt(s)'
    BY <1>1, <2>1, ServedSame
  <2> QED BY <1>1, <1>6, <2>2, <2>3, StopServed DEF ServedAll
<1>7. ASSUME Resume PROVE ServedAll'
  <2>1. mode' = mode /\ heard' = heard /\ phase' = "driving" /\ saved' = saved
    BY <1>7 DEF Resume
  <2>2. ServedInv'
    BY <1>3, <2>1
  <2>3. \A s \in Strands : ServedAt(s)'
    BY <1>1, <1>7, ResumeServed
  <2> QED BY <1>4, <2>1, <2>2, <2>3 DEF ServedAll
<1>8. ASSUME EndRun PROVE ServedAll'
  <2>1. /\ UNCHANGED <<mode, file, seen, num, val, waiting, whole>> /\ phase' = "over" /\ saved' = saved
        /\ ~Recording => heard' = heard
    BY <1>8 DEF EndRun
  <2>2. ASSUME Recording, whole PROVE ServedInv'
    <3>1. ASSUME NEW s \in Dets, NEW c \in Wording, NEW n \in Nat, n < Often(s, c)
          PROVE  <<s, c, n>> \in Keys /\ file'[<<s, c, n>>] # <<>>
      BY <1>1, <1>8, <2>2, <3>1, EndServed DEF Dets
    <3> QED BY <2>1, <3>1 DEF ServedInv
  <2>3. ASSUME Recording, ~whole PROVE ServedInv'
    <3>1. ASSUME NEW r \in DOMAIN heard', heard'[r].whole PROVE r \in DOMAIN heard /\ heard[r].whole
      <4>1. PICK l : l = Len(heard) + 1
        OBVIOUS
      <4>2. /\ DOMAIN heard' = DOMAIN heard \cup {l} /\ \A q \in DOMAIN heard : heard'[q] = heard[q]
            /\ heard'[l].whole = whole
        BY <1>8, <2>3, <4>1, EndHeard
      <4> QED BY <2>3, <3>1, <4>2
    <3>2. (\E r \in DOMAIN heard' : heard'[r].whole) => \E r \in DOMAIN heard : heard[r].whole
      BY <3>1
    <3> QED BY <1>1, <2>1, <3>2 DEF ServedInv
  <2>4. ASSUME ~Recording PROVE ServedInv'
    BY <1>3, <2>1, <2>4
  <2>5. \A s \in Strands : ServedAt(s)'
    BY <1>1, <2>1, ServedSame
  <2> QED BY <1>4, <2>1, <2>2, <2>3, <2>4, <2>5 DEF ServedAll
<1>9. ASSUME NEW m \in {"record", "update", "replay"}, NextRun(m) PROVE ServedAll'
  <2>1. /\ UNCHANGED <<file, heard>> /\ phase' = "driving"
        /\ seen' = Begun.seen /\ num' = Begun.num /\ waiting' = Begun.waiting /\ saved' = Begun
    BY <1>9 DEF NextRun, Fresh
  <2>2. ServedInv'
    BY <1>1, <2>1 DEF ServedInv
  <2>3. ASSUME NEW s \in Strands PROVE ServedAt(s)' /\ SavedServed(s)'
    BY <2>1, BegunServed DEF ServedAt, SavedServed
  <2> QED BY <2>2, <2>3 DEF ServedAll
<1>10. ASSUME NEW s \in Strands, Works(s) PROVE ServedAll'
  <2>1. Elsewhere(s) /\ heard' = heard /\ mode' = mode /\ saved' = saved
    BY <1>10, WorksElsewhere DEF Elsewhere
  <2>2. \A r \in Strands : ServedAt(r)'
    BY <1>1, <1>2, <1>10, <2>1, OthersKept, ServedOwn
  <2>3. phase' = "missed" => mode = "replay" /\ \A r \in DOMAIN heard : ~heard[r].whole
    <3>1. ASSUME NEW i \in Places(s), Miss(s, i) PROVE mode = "replay" /\ \A r \in DOMAIN heard : ~heard[r].whole
      BY <1>1, <3>1, MissedUnheard DEF Miss
    <3>2. ASSUME NEW i \in Places(s),
                 Reserve(s, i) \/ Take(s, i) \/ Serve(s, i) \/ Suspend(s, i) \/ Catch(s, i)
          PROVE  phase' # "missed"
      BY <3>2 DEF Reserve, Take, Serve, Catch, Suspend, Missing, Goes
    <3>3. ASSUME Fail(s) \/ Retry(s) \/ Leave(s) PROVE phase' # "missed"
      BY <3>3 DEF Fail, Retry, Leave, Fails, Goes
    <3>4. ASSUME NEW v \in Answers, Deliver(s, v) PROVE phase' # "missed"
      BY <3>4 DEF Deliver
    <3>5. ASSUME NEW v \in Answers, NEW i \in Places(s), Live(s, i, v) PROVE phase' # "missed"
      BY <3>5 DEF Live, Missing
    <3> QED BY <1>10, <3>1, <3>2, <3>3, <3>4, <3>5 DEF Works
  <2>4. ServedInv'
    BY <1>3, <2>1, <2>3
  <2> QED BY <1>4, <2>1, <2>2, <2>4 DEF ServedAll
<1> QED BY <1>5, <1>6, <1>7, <1>8, <1>9, <1>10 DEF Next

(* A replay of a file that holds a whole run, one that was recorded to its end *)
(* and went on from no failure, lacks no answer, where no Deterministic         *)
(* function asks twice.                                                         *)
THEOREM ReplaysLackNothing == AsksOnce /\ Spec => []ReplayIsServed
<1> SUFFICES ASSUME AsksOnce PROVE Spec => []ReplayIsServed
  OBVIOUS
<1>1. Init => ServedAll
  <2> SUFFICES ASSUME Init PROVE ServedAll
    OBVIOUS
  <2>1. ServedInv
    BY DEF Init, ServedInv
  <2>2. ASSUME NEW s \in Strands PROVE ServedAt(s) /\ SavedServed(s)
    BY BegunServed DEF Init, ServedAt, SavedServed
  <2> QED BY <2>1, <2>2 DEF ServedAll
<1>2. AllInv /\ ServedAll /\ [Next]_vars => ServedAll'
  BY ServedStep
<1>3. ServedAll => ReplayIsServed
  BY DEF ServedAll, ServedInv, ReplayIsServed
<1> QED BY <1>1, <1>2, <1>3, AllInductive, PTL DEF Spec
=============================================================================
