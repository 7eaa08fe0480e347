-------------------------- MODULE ContainerLemmas --------------------------
(***************************************************************************)
(* What the operators of ItemContainer do to a container of any size, for  *)
(* any stacks and items: lemmas for the proofs about ContainerOps and      *)
(* GameServer.  The loops over slots and entries are recursive functions,  *)
(* and a recursive function is what its definition says only if there is   *)
(* such a function; that is shown first, by induction on a set of numbers. *)
(***************************************************************************)
EXTENDS ItemContainer, FiniteSetTheorems, SequenceTheorems, WellFoundedInduction, TLAPS

\* A nonempty set of naturals has a lowest element, which Min chooses.
LEMMA MinIsLowest ==
  ASSUME NEW S \in SUBSET Nat, S # {}
  PROVE  Min(S) \in S /\ \A y \in S : Min(S) <= y
  <1> DEFINE R == OpToRel(<, Nat)
  <1>1. PICK x \in S : \A y \in S : ~(<<y, x>> \in R)
    <2>1. IsWellFoundedOn(R, Nat)
      BY NatLessThanWellFounded
    <2> HIDE DEF R
    <2> QED
      BY <2>1, WFMin
  <1>2. \A y \in S : ~(y < x)
    BY <1>1 DEF OpToRel
  <1>3. \A y \in S : x <= y
    BY <1>2
  <1> QED
    BY <1>3 DEF Min

\* Induction up to n, on a set.
LEMMA UpTo ==
  ASSUME NEW n \in Nat, NEW T, 0 \in T, \A k \in 0 .. n - 1 : k \in T => k + 1 \in T
  PROVE  \A k \in 0 .. n : k \in T
  <1> DEFINE S == {k \in 0 .. n : k \notin T}
  <1> SUFFICES ASSUME S # {} PROVE FALSE
    OBVIOUS
  <1> DEFINE m == Min(S)
  <1>1. m \in S /\ \A y \in S : m <= y
    BY MinIsLowest
  <1> HIDE DEF m
  <1>2. m \in 1 .. n /\ m - 1 \notin S
    BY <1>1
  <1>3. m - 1 \in T
    BY <1>2
  <1> QED
    BY <1>1, <1>2, <1>3

\* A value for every number up to n, each made from the one before.
Steps(n, V) == [1 .. n -> [V -> V]]
Follows(f, n, V, base, step) ==
  f \in [0 .. n -> V] /\ f[0] = base /\ \A k \in 1 .. n : f[k] = step[k][f[k - 1]]
LEMMA Recursion ==
  ASSUME NEW n \in Nat, NEW V, NEW base \in V, NEW step \in Steps(n, V)
  PROVE  \E f : Follows(f, n, V, base, step)
  <1> DEFINE Is(m, f) == f[0] = base /\ \A k \in 1 .. m : f[k] = step[k][f[k - 1]]
             T == {m \in 0 .. n : \E f \in [0 .. m -> V] : Is(m, f)}
  <1> USE DEF Steps
  <1>1. 0 \in T
    <2> DEFINE f == [k \in 0 .. 0 |-> base]
    <2>1. f \in [0 .. 0 -> V] /\ Is(0, f)
      OBVIOUS
    <2> HIDE DEF f
    <2>2. \E g \in [0 .. 0 -> V] : Is(0, g)
      BY <2>1
    <2> QED
      BY <2>2
  <1>2. ASSUME NEW m \in 0 .. n - 1, m \in T PROVE m + 1 \in T
    <2>1. PICK f \in [0 .. m -> V] : Is(m, f)
      BY <1>2
    <2> DEFINE g == [k \in 0 .. m + 1 |-> IF k = m + 1 THEN step[m + 1][f[m]] ELSE f[k]]
    <2>2. g \in [0 .. m + 1 -> V]
      OBVIOUS
    <2>3. Is(m + 1, g)
      BY <2>1
    <2> HIDE DEF g
    <2> QED
      BY <2>2, <2>3
  <1> HIDE DEF T
  <1>3. \A k \in 0 .. n : k \in T
    BY <1>1, <1>2, UpTo
  <1>4. n \in T
    BY <1>3
  <1> QED
    BY <1>4 DEF T, Follows

-----------------------------------------------------------------------------
(* Sums over sets of slots. *)

\* h gives every set of slots a number that grows by w[x] with a slot x.
Adds(h, w) ==
  /\ h \in [SUBSET SlotIds -> Int]
  /\ h[{}] = 0
  /\ \A S \in SUBSET SlotIds : \A x \in S : h[S] = h[S \ {x}] + w[x]
SumOver(w) == CHOOSE h : Adds(h, w)

\* There is such a sum, built up slot by slot.
LEMMA SumOverAdds ==
  ASSUME NEW w \in [SlotIds -> Int]
  PROVE  Adds(SumOver(w), w)
  <1> DEFINE Sums(h, m) ==
               /\ h \in [SUBSET (0 .. m - 1) -> Int] /\ h[{}] = 0
               /\ \A S \in SUBSET (0 .. m - 1) : \A x \in S : h[S] = h[S \ {x}] + w[x]
             P(m) == \E h : Sums(h, m)
  <1>1. P(0)
    <2> DEFINE h == [S \in SUBSET (0 .. 0 - 1) |-> 0]
    <2>1. Sums(h, 0)
      OBVIOUS
    <2> HIDE DEF h, Sums
    <2> QED
      BY <2>1
  <1>2. ASSUME NEW m \in 0 .. MAX_BAG_SIZE - 1, P(m) PROVE P(m + 1)
    <2>1. PICK h : Sums(h, m)
      BY <1>2
    <2>2. m \in SlotIds /\ w[m] \in Int /\ (m + 1) - 1 = m
      BY ContainerAssumption DEF SlotIds
    <2> DEFINE g == [S \in SUBSET (0 .. m) |-> IF m \in S THEN h[S \ {m}] + w[m] ELSE h[S]]
    <2>3. \A S \in SUBSET (0 .. m) : S \ {m} \in SUBSET (0 .. m - 1)
      BY <2>2
    <2>4. \A S \in SUBSET (0 .. m) : m \notin S => S \in SUBSET (0 .. m - 1)
      BY <2>3
    <2>5. \A S \in SUBSET (0 .. m) : g[S] \in Int
      BY <2>1, <2>2, <2>3, <2>4
    <2>6. g \in [SUBSET (0 .. m) -> Int] /\ g[{}] = 0
      BY <2>1, <2>5
    <2>7. ASSUME NEW S \in SUBSET (0 .. m), NEW x \in S PROVE g[S] = g[S \ {x}] + w[x]
      <3>1. w[x] \in Int
        BY ContainerAssumption DEF SlotIds
      <3>2. CASE x = m
        BY <3>2, <2>2
      <3>3. CASE x # m /\ m \in S
        <4> DEFINE a == h[(S \ {m}) \ {x}]
        <4>1. h[S \ {m}] = a + w[x] /\ a \in Int
          BY <2>1, <2>3, <3>3
        <4>2. (S \ {m}) \ {x} = (S \ {x}) \ {m}
          OBVIOUS
        <4>3. g[S] = h[S \ {m}] + w[m] /\ g[S \ {x}] = a + w[m]
          BY <3>3, <4>2
        <4> HIDE DEF a, g
        <4> QED
          BY <4>1, <4>3, <3>1, <2>2
      <3>4. CASE m \notin S
        <4>1. h[S] = h[S \ {x}] + w[x]
          BY <2>1, <2>4, <3>4
        <4> QED
          BY <4>1, <3>4
      <3> QED
        BY <3>2, <3>3, <3>4
    <2> HIDE DEF g
    <2>8. Sums(g, m + 1)
      BY <2>2, <2>6, <2>7
    <2> HIDE DEF Sums
    <2> QED
      BY <2>8
  <1> HIDE DEF P
  <1>3. P(MAX_BAG_SIZE)
    <2> DEFINE T == {m \in 0 .. MAX_BAG_SIZE : P(m)}
    <2>1. 0 \in T /\ \A m \in 0 .. MAX_BAG_SIZE - 1 : m \in T => m + 1 \in T
      BY <1>1, <1>2, ContainerAssumption
    <2> HIDE DEF T
    <2>2. \A m \in 0 .. MAX_BAG_SIZE : m \in T
      BY <2>1, UpTo, ContainerAssumption
    <2> QED
      BY <2>2, ContainerAssumption DEF T
  <1>4. PICK h : Sums(h, MAX_BAG_SIZE)
    BY <1>3 DEF P
  <1>5. Adds(h, w)
    BY <1>4 DEF Adds, SlotIds
  <1> QED
    BY <1>5 DEF SumOver

\* What is summed up is what the slots of the set have.
LEMMA SumsAgree ==
  ASSUME NEW v \in [SlotIds -> Int], NEW w \in [SlotIds -> Int], NEW S \in SUBSET SlotIds,
         \A i \in S : v[i] = w[i]
  PROVE  SumOver(v)[S] = SumOver(w)[S]
  <1> DEFINE g == SumOver(v)
             h == SumOver(w)
             Low(m) == S \cap 0 .. m - 1
             T == {m \in 0 .. MAX_BAG_SIZE : g[Low(m)] = h[Low(m)]}
  <1>1. Adds(g, v) /\ Adds(h, w)
    BY SumOverAdds
  <1> HIDE DEF g, h
  <1>2. 0 \in T
    <2>1. Low(0) = {}
      OBVIOUS
    <2> QED
      BY <2>1, <1>1, ContainerAssumption DEF Adds
  <1>3. ASSUME NEW m \in 0 .. MAX_BAG_SIZE - 1, m \in T PROVE m + 1 \in T
    <2>1. Low(m) \in SUBSET SlotIds /\ Low(m + 1) \in SUBSET SlotIds
      OBVIOUS
    <2>2. CASE m \in S
      <3>1. m \in Low(m + 1) /\ Low(m + 1) \ {m} = Low(m)
        BY <2>2 DEF SlotIds
      <3>2. g[Low(m)] = h[Low(m)]
        BY <1>3
      <3> HIDE DEF Low
      <3>3. g[Low(m + 1)] = g[Low(m)] + v[m] /\ h[Low(m + 1)] = h[Low(m)] + w[m]
        BY <1>1, <2>1, <3>1 DEF Adds
      <3>4. g[Low(m + 1)] = h[Low(m + 1)]
        BY <2>2, <3>2, <3>3
      <3> QED
        BY <3>4, ContainerAssumption
    <2>3. CASE m \notin S
      <3>1. Low(m + 1) = Low(m)
        BY <2>3 DEF SlotIds
      <3>2. g[Low(m)] = h[Low(m)]
        BY <1>3
      <3> HIDE DEF Low
      <3> QED
        BY <3>1, <3>2, ContainerAssumption
    <2> QED
      BY <2>2, <2>3
  <1> HIDE DEF T
  <1>4. \A k \in 0 .. MAX_BAG_SIZE : k \in T
    BY <1>2, <1>3, UpTo, ContainerAssumption
  <1>5. Low(MAX_BAG_SIZE) = S
    BY DEF SlotIds
  <1> QED
    BY <1>4, <1>5, ContainerAssumption DEF T, g, h

-----------------------------------------------------------------------------
(* Containers. *)

\* A container of stacks; what was added may leave any count in them.
Stacks == [id : ItemIds \cup {NoItem}, count : Int]
Containers == [SlotIds -> {Null} \cup Stacks]

\* What the slots add to a sum.
Counts(c) == [i \in SlotIds |-> IF c[i] = Null THEN 0 ELSE c[i].count]

\* The empty slots and the stacks.
LEMMA SlotTypes ==
  ASSUME NEW c \in Containers
  PROVE  /\ Null \notin Stacks
         /\ \A i \in Occupied(c) : i \in SlotIds /\ c[i] \in Stacks
         /\ \A i \in SlotIds : i \in Occupied(c) \/ c[i] = Null
         /\ Counts(c) \in [SlotIds -> Int]
         /\ \A i \in Occupied(c) : Counts(c)[i] = c[i].count
         /\ \A id : Holding(c, id) \in SUBSET SlotIds
  <1>1. Null \notin Stacks
    BY ContainerAssumption DEF Stacks
  <1>2. \A i \in Occupied(c) : i \in SlotIds /\ c[i] \in Stacks
    BY DEF Containers, Occupied
  <1>3. Counts(c) \in [SlotIds -> Int]
    BY <1>2 DEF Counts, Stacks, Occupied
  <1> QED
    BY <1>1, <1>2, <1>3 DEF Counts, Occupied, Holding

\* Slots are few.
LEMMA SlotSetsFinite ==
  ASSUME NEW S \in SUBSET SlotIds
  PROVE  IsFiniteSet(S) /\ Cardinality(S) \in 0 .. MAX_BAG_SIZE
  <1>1. IsFiniteSet(SlotIds) /\ Cardinality(SlotIds) = MAX_BAG_SIZE
    BY FS_Interval, ContainerAssumption DEF SlotIds
  <1>2. IsFiniteSet(S) /\ Cardinality(S) <= MAX_BAG_SIZE
    BY <1>1, FS_Subset
  <1> QED
    BY <1>2, FS_CardinalityType, ContainerAssumption

\* Total is such a sum, in whatever order it adds up the slots.
LEMMA TotalIsSum ==
  ASSUME NEW c \in Containers, NEW id
  PROVE  Total(c, id) = SumOver(Counts(c))[Holding(c, id)]
  <1> DEFINE H == Holding(c, id)
             h == SumOver(Counts(c))
             Step(f) == [s \in SUBSET H |->
                           IF s = {} THEN 0
                           ELSE c[CHOOSE x \in s : TRUE].count + f[s \ {CHOOSE x \in s : TRUE}]]
             t == CHOOSE f : f = Step(f)
  <1>1. Total(c, id) = t[H]
    BY DEF Total, MapThenSumSet, MapThenFoldSet
  <1>2. Adds(h, Counts(c))
    BY SlotTypes, SumOverAdds
  <1>3. H \in SUBSET SlotIds /\ \A i \in H : c[i].count = Counts(c)[i] /\ c[i].count \in Int
    BY SlotTypes DEF Holding, Stacks
  <1> HIDE DEF H, h
  <1>4. ASSUME NEW s \in SUBSET H, s # {}, NEW x \in s
        PROVE  h[s] = c[x].count + h[s \ {x}]
    <2>1. h[s] = h[s \ {x}] + Counts(c)[x] /\ h[s \ {x}] \in Int
      BY <1>2, <1>3, <1>4 DEF Adds
    <2> QED
      BY <2>1, <1>3
  <1>5. t = Step(t)
    <2> DEFINE g == [s \in SUBSET H |-> h[s]]
    <2>1. h[{}] = 0
      BY <1>2 DEF Adds
    <2>2. ASSUME NEW s \in SUBSET H PROVE g[s] = Step(g)[s]
      <3>1. CASE s = {}
        BY <3>1, <2>1
      <3>2. CASE s # {}
        <4> DEFINE x == CHOOSE x \in s : TRUE
        <4>1. x \in s
          BY <3>2
        <4> HIDE DEF x
        <4>2. g[s] = c[x].count + g[s \ {x}]
          BY <4>1, <3>2, <1>4
        <4> QED
          BY <4>2, <3>2 DEF x
      <3> QED
        BY <3>1, <3>2
    <2>3. g = Step(g)
      BY <2>2
    <2> HIDE DEF g
    <2>4. \E f : f = Step(f)
      BY <2>3
    <2> HIDE DEF Step
    <2> QED
      BY <2>4
  <1> HIDE DEF t
  <1> DEFINE P(m) == \A s \in SUBSET H : Cardinality(s) <= m => t[s] = h[s]
             T == {m \in 0 .. MAX_BAG_SIZE : P(m)}
  <1>6. 0 \in T
    <2> SUFFICES ASSUME NEW s \in SUBSET H, Cardinality(s) <= 0 PROVE t[s] = h[s]
      BY ContainerAssumption
    <2>1. s = {}
      BY <1>3, SlotSetsFinite, FS_EmptySet
    <2> QED
      BY <2>1, <1>2, <1>5 DEF Adds
  <1>7. ASSUME NEW m \in 0 .. MAX_BAG_SIZE - 1, m \in T PROVE m + 1 \in T
    <2> SUFFICES ASSUME NEW s \in SUBSET H, Cardinality(s) <= m + 1 PROVE t[s] = h[s]
      BY ContainerAssumption
    <2>1. CASE s = {}
      BY <2>1, <1>2, <1>5 DEF Adds
    <2>2. CASE s # {}
      <3> DEFINE x == CHOOSE x \in s : TRUE
      <3>1. x \in s
        BY <2>2
      <3>2. t[s] = c[x].count + t[s \ {x}]
        BY <2>2, <1>5
      <3> HIDE DEF x
      <3>3. Cardinality(s \ {x}) <= m
        BY <3>1, <1>3, SlotSetsFinite, FS_RemoveElement
      <3>4. t[s \ {x}] = h[s \ {x}]
        BY <3>3, <1>7
      <3> QED
        BY <3>1, <3>2, <3>4, <2>2, <1>4
    <2> QED
      BY <2>1, <2>2
  <1> HIDE DEF P
  <1>8. \A m \in 0 .. MAX_BAG_SIZE : P(m)
    <2> HIDE DEF T
    <2>1. \A m \in 0 .. MAX_BAG_SIZE : m \in T
      BY <1>6, <1>7, UpTo, ContainerAssumption
    <2> QED
      BY <2>1 DEF T
  <1>9. Cardinality(H) <= MAX_BAG_SIZE
    BY <1>3, SlotSetsFinite, ContainerAssumption
  <1>10. t[H] = h[H]
    BY <1>8, <1>9, ContainerAssumption DEF P
  <1> QED
    BY <1>1, <1>10 DEF t, h, H

\* Totals are whole numbers.
LEMMA TotalIsInt ==
  ASSUME NEW c \in Containers, NEW id
  PROVE  Total(c, id) \in Int
  <1>1. Adds(SumOver(Counts(c)), Counts(c))
    BY SlotTypes, SumOverAdds
  <1> QED
    BY <1>1, SlotTypes, TotalIsSum DEF Adds

\* Containers that agree on the stacks of an item hold as many of it.
LEMMA TotalsAgree ==
  ASSUME NEW c \in Containers, NEW d \in Containers, NEW id,
         Holding(c, id) = Holding(d, id), \A i \in Holding(c, id) : c[i].count = d[i].count
  PROVE  Total(c, id) = Total(d, id)
  <1>1. \A i \in Holding(c, id) : Counts(c)[i] = Counts(d)[i]
    BY SlotTypes DEF Holding
  <1>2. SumOver(Counts(c))[Holding(c, id)] = SumOver(Counts(d))[Holding(c, id)]
    BY <1>1, SlotTypes, SumsAgree
  <1> QED
    BY <1>2, TotalIsSum

\* A stack more.
LEMMA TotalWithSlot ==
  ASSUME NEW c \in Containers, NEW j \in SlotIds \ Occupied(c), NEW s \in Stacks
  PROVE  LET d == [c EXCEPT ![j] = s] IN
           /\ d \in Containers /\ Occupied(d) = Occupied(c) \cup {j}
           /\ Holding(d, s.id) = Holding(c, s.id) \cup {j}
           /\ Total(d, s.id) = Total(c, s.id) + s.count
           /\ \A o : o # s.id => Holding(d, o) = Holding(c, o) /\ Total(d, o) = Total(c, o)
  <1> DEFINE d == [c EXCEPT ![j] = s]
  <1>1. d \in Containers
    BY DEF Containers
  <1>2. \A i \in SlotIds : d[i] = IF i = j THEN s ELSE c[i]
    BY DEF Containers
  <1>3. s # Null
    BY SlotTypes
  <1> HIDE DEF d
  <1>4. Occupied(d) = Occupied(c) \cup {j}
    BY <1>2, <1>3 DEF Occupied
  <1>5. \A o : Holding(d, o) = Holding(c, o) \cup (IF o = s.id THEN {j} ELSE {})
    BY <1>2, <1>4 DEF Holding, Occupied
  <1>6. Total(d, s.id) = Total(c, s.id) + s.count
    <2> DEFINE H == Holding(c, s.id)
               K == Holding(d, s.id)
    <2>1. j \in K /\ K \ {j} = H
      BY <1>5 DEF Holding
    <2>2. H \in SUBSET SlotIds /\ K \in SUBSET SlotIds
      BY <1>1, SlotTypes
    <2>3. \A i \in H : Counts(c)[i] = Counts(d)[i]
      BY <1>2, <2>2 DEF Counts, Holding
    <2>4. Counts(d)[j] = s.count
      BY <1>2, <1>3 DEF Counts
    <2> HIDE DEF H, K
    <2>5. SumOver(Counts(c))[H] = SumOver(Counts(d))[H]
      BY <1>1, <2>2, <2>3, SlotTypes, SumsAgree
    <2>6. SumOver(Counts(d))[K] = SumOver(Counts(d))[H] + s.count
      <3>1. Adds(SumOver(Counts(d)), Counts(d))
        BY <1>1, SlotTypes, SumOverAdds
      <3> QED
        BY <2>1, <2>2, <2>4, <3>1 DEF Adds
    <2> QED
      BY <1>1, <2>5, <2>6, TotalIsSum DEF H, K
  <1>7. ASSUME NEW o, o # s.id PROVE Holding(d, o) = Holding(c, o) /\ Total(d, o) = Total(c, o)
    <2>1. Holding(d, o) = Holding(c, o)
      BY <1>5, <1>7
    <2>2. \A i \in Holding(c, o) : c[i].count = d[i].count
      BY <1>2 DEF Holding, Occupied
    <2> QED
      BY <1>1, <2>1, <2>2, TotalsAgree
  <1> QED
    BY <1>1, <1>4, <1>5, <1>6, <1>7 DEF d

-----------------------------------------------------------------------------
(* AddItem of a bag and of a currency container. *)

\* The loop over the stacks, one slot at a time.
PassedOn(left, c, id, cnt, overly) ==
  /\ left \in [0 .. MAX_BAG_SIZE -> Nat \cup {cnt}]
  /\ left[0] = cnt
  /\ \A i \in SlotIds :
       left[i + 1] = IF Tops(c, id, i, left[i])
                       THEN Leftover(c[i].count, left[i], overly) ELSE left[i]
LEMMA LeftIsDefined ==
  ASSUME NEW c \in Containers, NEW id, NEW cnt \in Int, NEW overly \in Nat
  PROVE  PassedOn(LeftBefore(c, id, cnt, overly), c, id, cnt, overly)
  <1> DEFINE H == Holding(c, id)
             V == Nat \cup {cnt}
             N == MAX_BAG_SIZE
             Passed(i, v) == IF Tops(c, id, i, v) THEN Leftover(c[i].count, v, overly) ELSE v
             step == [k \in 1 .. N |-> [v \in V |-> Passed(k - 1, v)]]
             Def(f) == [i \in 0 .. N |->
                          IF i = 0 THEN cnt
                          ELSE IF Tops(c, id, i - 1, f[i - 1])
                                 THEN Leftover(c[i - 1].count, f[i - 1], overly)
                                 ELSE f[i - 1]]
             left == CHOOSE f : f = Def(f)
  <1>1. LeftBefore(c, id, cnt, overly) = left
    BY DEF LeftBefore
  <1>2. \A i \in H : c[i].count \in Int
    BY SlotTypes DEF Holding, Stacks
  <1>3. \A i, v : v \in V => Passed(i, v) \in V
    <2> SUFFICES ASSUME NEW i, NEW v \in V, Tops(c, id, i, v)
                 PROVE  Leftover(c[i].count, v, overly) \in Nat
      OBVIOUS
    <2>1. c[i].count \in Int /\ v \in Int
      BY <1>2 DEF Tops
    <2> QED
      BY <2>1 DEF Leftover
  <1> HIDE DEF H, V
  <1>4. step \in [1 .. N -> [V -> V]]
    BY <1>3
  <1>5. \A k \in 1 .. N, v \in V : step[k][v] = Passed(k - 1, v)
    OBVIOUS
  <1>6. N \in Nat
    BY ContainerAssumption
  <1> HIDE DEF step
  <1>7. PICK f \in [0 .. N -> V] : f[0] = cnt /\ \A k \in 1 .. N : f[k] = step[k][f[k - 1]]
    <2>1. step \in Steps(N, V)
      BY <1>4 DEF Steps
    <2>2. \E f : Follows(f, N, V, cnt, step)
      <3>1. cnt \in V
        BY DEF V
      <3> QED
        BY <1>6, <2>1, <3>1, Recursion
    <2> QED
      BY <2>2 DEF Follows
  <1>8. f = Def(f)
    <2>1. ASSUME NEW i \in 0 .. N PROVE f[i] = Def(f)[i]
      <3>1. CASE i = 0
        BY <3>1, <1>7
      <3>2. CASE i # 0
        <4>1. i \in 1 .. N /\ f[i - 1] \in V
          BY <3>2, <1>6, <1>7
        <4>2. f[i] = Passed(i - 1, f[i - 1])
          BY <4>1, <1>5, <1>7
        <4> QED
          BY <4>2, <3>2
      <3> QED
        BY <3>1, <3>2
    <2> QED
      BY <2>1
  <1>9. left = Def(left)
    <2> HIDE DEF Def
    <2> QED
      BY <1>8
  <1> HIDE DEF left
  <1>10. left[0] = cnt /\ \A i \in SlotIds : i + 1 \in 1 .. N /\ left[i + 1] = Passed(i, left[i])
    <2>1. left[0] = cnt
      BY <1>6, <1>9
    <2>2. ASSUME NEW i \in SlotIds PROVE i + 1 \in 1 .. N /\ left[i + 1] = Passed(i, left[i])
      <3>1. i + 1 \in 1 .. N /\ (i + 1) - 1 = i
        BY <1>6 DEF SlotIds
      <3>2. left[i + 1] = Def(left)[i + 1]
        BY <1>9
      <3>3. Def(left)[i + 1] = Passed(i, left[i])
        BY <3>1
      <3> QED
        BY <3>1, <3>2, <3>3
    <2> QED
      BY <2>1, <2>2
  <1>11. \A k \in 0 .. N : left[k] \in V
    <2> DEFINE T == {k \in 0 .. N : left[k] \in V}
    <2>1. 0 \in T
      BY <1>6, <1>10 DEF V
    <2>2. ASSUME NEW k \in 0 .. N - 1, k \in T PROVE k + 1 \in T
      <3>1. left[k] \in V /\ k \in SlotIds /\ k + 1 \in 0 .. N
        BY <2>2, <1>6 DEF SlotIds
      <3>2. left[k + 1] = Passed(k, left[k]) /\ Passed(k, left[k]) \in V
        BY <3>1, <1>3, <1>10
      <3> HIDE DEF Passed
      <3> QED
        BY <3>1, <3>2
    <2> HIDE DEF T
    <2>3. \A k \in 0 .. N : k \in T
      BY <2>1, <2>2, <1>6, UpTo
    <2> QED
      BY <2>3 DEF T
  <1>12. left \in [0 .. N -> V]
    BY <1>9, <1>11
  <1> QED
    BY <1>1, <1>10, <1>12 DEF H, V, PassedOn

\* Once nothing is left after a stack nothing will be: what the loop ends with
\* has passed every stack of the item.
PassesAll(left, c, id) ==
  \A i \in Holding(c, id) : Tops(c, id, i, left[i]) /\ left[i + 1] # 0
LEMMA NothingStaysNothing ==
  ASSUME NEW c \in Containers, NEW id, NEW cnt \in Int, NEW overly \in Nat,
         LeftBefore(c, id, cnt, overly)[MAX_BAG_SIZE] # 0
  PROVE  PassesAll(LeftBefore(c, id, cnt, overly), c, id)
  <1> DEFINE left == LeftBefore(c, id, cnt, overly)
             H == Holding(c, id)
  <1>1. \A i \in SlotIds : left[i + 1] = IF Tops(c, id, i, left[i])
                                           THEN Leftover(c[i].count, left[i], overly)
                                           ELSE left[i]
    BY LeftIsDefined DEF PassedOn
  <1>2. H \in SUBSET SlotIds
    BY SlotTypes
  <1> HIDE DEF left
  <1>3. ASSUME NEW i \in H, NEW j \in i + 1 .. MAX_BAG_SIZE PROVE left[j] # 0
    <2> SUFFICES ASSUME left[j] = 0 PROVE FALSE
      OBVIOUS
    <2> DEFINE T == {k \in 0 .. MAX_BAG_SIZE : j <= k => left[k] = 0}
    <2>1. i \in SlotIds /\ i \in Int /\ i < j
      BY <1>2 DEF SlotIds
    <2>2. 0 \in T
      BY <2>1, ContainerAssumption DEF SlotIds
    <2>3. ASSUME NEW k \in 0 .. MAX_BAG_SIZE - 1, k \in T PROVE k + 1 \in T
      <3>1. k \in SlotIds /\ k + 1 \in 0 .. MAX_BAG_SIZE
        BY ContainerAssumption DEF SlotIds
      <3>2. CASE j <= k
        <4>1. left[k] = 0
          BY <2>3, <3>2
        <4>2. ~Tops(c, id, k, 0)
          <5>1. ~(k <= i)
            BY <2>1, <3>1, <3>2 DEF SlotIds
          <5> QED
            BY <1>3, <5>1 DEF Tops
        <4> QED
          BY <1>1, <3>1, <4>1, <4>2
      <3>3. CASE ~(j <= k)
        <4>1. j <= k + 1 => j = k + 1
          BY <2>1, <3>1, <3>3 DEF SlotIds
        <4> QED
          BY <3>1, <4>1
      <3> QED
        BY <3>2, <3>3
    <2> HIDE DEF T
    <2>4. \A k \in 0 .. MAX_BAG_SIZE : k \in T
      BY <2>2, <2>3, UpTo, ContainerAssumption
    <2>5. left[MAX_BAG_SIZE] = 0
      BY <2>1, <2>4, ContainerAssumption DEF T
    <2> QED
      BY <2>5 DEF left
  <1>4. ASSUME NEW i \in H PROVE Tops(c, id, i, left[i]) /\ left[i + 1] # 0
    <2>1. i \in SlotIds /\ i + 1 \in i + 1 .. MAX_BAG_SIZE
      BY <1>2, ContainerAssumption DEF SlotIds
    <2>2. left[i + 1] # 0
      BY <1>3, <2>1
    <2>3. Tops(c, id, i, left[i])
      <3>1. CASE \A k \in H : i <= k
        BY <1>4, <3>1 DEF Tops
      <3>2. ASSUME NEW k \in H, ~(i <= k) PROVE Tops(c, id, i, left[i])
        <4>1. i \in k + 1 .. MAX_BAG_SIZE
          BY <1>2, <2>1, <3>2, ContainerAssumption DEF SlotIds
        <4>2. left[i] # 0
          BY <1>3, <4>1
        <4> QED
          BY <4>2 DEF Tops
      <3> QED
        BY <3>1, <3>2
    <2> QED
      BY <2>2, <2>3
  <1> QED
    BY <1>4 DEF PassesAll, left, H

\* Filling up stacks moves nothing, and touches only stacks of the item.
FillsOnly(d, c, id, overly, rest) ==
  /\ d \in Containers /\ Occupied(d) = Occupied(c)
  /\ \A o : Holding(d, o) = Holding(c, o)
  /\ \A i \in SlotIds \ Holding(c, id) : d[i] = c[i]
  /\ rest # 0 => \A i \in Holding(c, id) : d[i].count = overly
LEMMA FilledSlots ==
  ASSUME NEW c \in Containers, NEW id \in ItemIds \cup {NoItem}, NEW cnt \in Int,
         NEW overly \in Nat \ {0}
  PROVE  FillsOnly(StacksFilled(c, id, cnt, overly), c, id, overly,
                   LeftBefore(c, id, cnt, overly)[MAX_BAG_SIZE])
  <1> DEFINE d == StacksFilled(c, id, cnt, overly)
             left == LeftBefore(c, id, cnt, overly)
             H == Holding(c, id)
  <1>1. d = [i \in SlotIds |-> IF Tops(c, id, i, left[i])
                                 THEN [id |-> id, count |-> Stacked(c[i].count, left[i], overly)]
                                 ELSE c[i]]
    BY DEF StacksFilled
  <1>2. /\ left \in [0 .. MAX_BAG_SIZE -> Nat \cup {cnt}] /\ left[0] = cnt
        /\ \A i \in SlotIds : left[i + 1] = IF Tops(c, id, i, left[i])
                                              THEN Leftover(c[i].count, left[i], overly)
                                              ELSE left[i]
    BY LeftIsDefined DEF PassedOn
  <1>3. \A i \in H : i \in Occupied(c) /\ c[i].id = id
    BY DEF Holding
  <1>a. \A i : Tops(c, id, i, left[i]) => i \in H
    BY DEF Tops
  <1>4. left[MAX_BAG_SIZE] # 0 => \A i \in H : Tops(c, id, i, left[i]) /\ left[i + 1] # 0
    BY NothingStaysNothing DEF PassesAll
  <1>5. /\ Null \notin Stacks /\ H \in SUBSET SlotIds
        /\ \A i \in Occupied(c) : i \in SlotIds /\ c[i] \in Stacks
        /\ \A i \in SlotIds : i \in Occupied(c) \/ c[i] = Null
    BY SlotTypes
  <1> HIDE DEF left, d, H
  <1>6. \A i \in H : c[i].count \in Int /\ left[i] \in Int /\ i \in SlotIds /\ i + 1 \in 0 .. MAX_BAG_SIZE
    BY <1>2, <1>3, <1>5, ContainerAssumption DEF Stacks, SlotIds
  <1>7. \A i \in H : Tops(c, id, i, left[i]) => d[i] \in Stacks /\ d[i].id = id
    BY <1>1, <1>6 DEF Stacked, Stacks
  <1>8. \A i \in H : ~Tops(c, id, i, left[i]) => d[i] = c[i]
    BY <1>1, <1>6
  <1>9. \A i \in SlotIds \ H : d[i] = c[i]
    BY <1>1, <1>a
  <1>10. \A i \in Occupied(c) : d[i] \in Stacks /\ d[i].id = c[i].id
    BY <1>3, <1>5, <1>7, <1>8, <1>9
  <1>11. \A i \in SlotIds \ Occupied(c) : d[i] = Null
    BY <1>3, <1>5, <1>9
  <1>12. d \in Containers
    <2>1. d = [i \in SlotIds |-> d[i]]
      BY <1>1
    <2> QED
      BY <2>1, <1>10, <1>11 DEF Containers
  <1>13. Occupied(d) = Occupied(c)
    BY <1>5, <1>10, <1>11 DEF Occupied
  <1>14. \A o : Holding(d, o) = Holding(c, o)
    BY <1>10, <1>13 DEF Holding
  <1>15. ASSUME left[MAX_BAG_SIZE] # 0, NEW i \in H PROVE d[i].count = overly
    <2>1. Tops(c, id, i, left[i]) /\ left[i + 1] # 0
      BY <1>4, <1>15
    <2>2. c[i].count + left[i] > overly
      BY <2>1, <1>2, <1>5, <1>15 DEF Leftover
    <2> QED
      BY <2>1, <2>2, <1>1, <1>5, <1>15 DEF Stacked
  <1> QED
    BY <1>9, <1>12, <1>13, <1>14, <1>15 DEF FillsOnly, d, left, H

\* What the stacks have more is what is left less.
LEMMA FilledTotal ==
  ASSUME NEW c \in Containers, NEW id \in ItemIds \cup {NoItem}, NEW cnt \in Int,
         NEW overly \in Nat \ {0}
  PROVE  Total(StacksFilled(c, id, cnt, overly), id)
           = Total(c, id) + cnt - LeftBefore(c, id, cnt, overly)[MAX_BAG_SIZE]
  <1> DEFINE d == StacksFilled(c, id, cnt, overly)
             left == LeftBefore(c, id, cnt, overly)
             H == Holding(c, id)
             v == Counts(c)
             w == Counts(d)
             g == SumOver(v)
             h == SumOver(w)
             Low(m) == H \cap 0 .. m - 1
             P(m) == h[Low(m)] = g[Low(m)] + cnt - left[m]
             T == {m \in 0 .. MAX_BAG_SIZE : P(m)}
  <1>1. /\ left \in [0 .. MAX_BAG_SIZE -> Int] /\ left[0] = cnt
        /\ \A i \in SlotIds : left[i + 1] = IF Tops(c, id, i, left[i])
                                              THEN Leftover(c[i].count, left[i], overly)
                                              ELSE left[i]
    BY LeftIsDefined DEF PassedOn
  <1>2. d \in Containers /\ Holding(d, id) = H /\ \A i \in SlotIds \ H : d[i] = c[i]
    <2>1. FillsOnly(d, c, id, overly, left[MAX_BAG_SIZE])
      BY FilledSlots
    <2> QED
      BY <2>1 DEF FillsOnly
  <1>3. Adds(g, v) /\ Adds(h, w)
    BY <1>2, SlotTypes, SumOverAdds
  <1>4. /\ H \in SUBSET SlotIds
        /\ \A i \in H : v[i] = c[i].count /\ w[i] = d[i].count /\ v[i] \in Int /\ w[i] \in Int
    <2>1. \A i \in H : i \in Occupied(c) /\ i \in Occupied(d)
      BY <1>2 DEF Holding
    <2>2. v \in [SlotIds -> Int] /\ w \in [SlotIds -> Int] /\ H \in SUBSET SlotIds
      BY <1>2, SlotTypes
    <2> QED
      BY <1>2, <2>1, <2>2, SlotTypes
  <1>5. \A i \in H : d[i].count = IF Tops(c, id, i, left[i]) THEN Stacked(c[i].count, left[i], overly) ELSE c[i].count
    BY <1>4 DEF StacksFilled
  <1>6. \A m \in 0 .. MAX_BAG_SIZE : Low(m) \in SUBSET SlotIds
    BY <1>4
  <1>7. Low(0) = {} /\ Low(MAX_BAG_SIZE) = H
    BY <1>4 DEF SlotIds
  <1>8. \A m \in 0 .. MAX_BAG_SIZE - 1 :
          Low(m + 1) = IF m \in H THEN Low(m) \cup {m} ELSE Low(m)
    BY DEF SlotIds
  <1>9. \A m \in 0 .. MAX_BAG_SIZE : m \notin Low(m)
    OBVIOUS
  <1> HIDE DEF d, left, H, v, w, g, h, Low
  <1>10. 0 \in T
    <2>1. g[Low(0)] = 0 /\ h[Low(0)] = 0 /\ left[0] = cnt
      BY <1>1, <1>3, <1>7 DEF Adds
    <2> QED
      BY <2>1, ContainerAssumption
  <1>11. ASSUME NEW m \in 0 .. MAX_BAG_SIZE - 1, m \in T PROVE m + 1 \in T
    <2>1. m \in SlotIds /\ m + 1 \in 0 .. MAX_BAG_SIZE /\ m \in 0 .. MAX_BAG_SIZE
      BY ContainerAssumption DEF SlotIds
    <2>2. left[m] \in Int /\ left[m + 1] \in Int /\ P(m)
      BY <2>1, <1>1, <1>11
    <2>3. g[Low(m)] \in Int /\ h[Low(m)] \in Int
      BY <2>1, <1>3, <1>6 DEF Adds
    <2>4. CASE m \in H
      <3>1. g[Low(m + 1)] = g[Low(m)] + v[m] /\ h[Low(m + 1)] = h[Low(m)] + w[m]
        <4>1. Low(m + 1) \in SUBSET SlotIds /\ m \in Low(m + 1) /\ Low(m + 1) \ {m} = Low(m)
          BY <2>1, <2>4, <1>6, <1>8, <1>9
        <4> QED
          BY <4>1, <1>3 DEF Adds
      <3>2. w[m] + left[m + 1] = v[m] + left[m]
        BY <2>1, <2>2, <2>4, <1>1, <1>4, <1>5 DEF Leftover, Stacked
      <3>3. P(m + 1)
        BY <2>2, <2>3, <2>4, <3>1, <3>2, <1>4
      <3> QED
        BY <2>1, <3>3
    <2>5. CASE m \notin H
      <3>1. Low(m + 1) = Low(m) /\ left[m + 1] = left[m]
        <4>1. ~Tops(c, id, m, left[m])
          BY <2>5 DEF Tops, H
        <4> QED
          BY <2>1, <2>5, <4>1, <1>1, <1>8
      <3> QED
        BY <2>1, <2>2, <3>1
    <2> QED
      BY <2>4, <2>5
  <1>12. P(MAX_BAG_SIZE)
    <2> HIDE DEF T, P
    <2>1. \A m \in 0 .. MAX_BAG_SIZE : m \in T
      BY <1>10, <1>11, UpTo, ContainerAssumption
    <2> QED
      BY <2>1, ContainerAssumption DEF T
  <1>13. Total(c, id) = g[H] /\ Total(d, id) = h[H]
    BY <1>2, TotalIsSum DEF g, h, v, w, H
  <1> QED
    BY <1>7, <1>12, <1>13 DEF d, left

\* Only a stack above its maximum gives back more than it was asked to take.
LEMMA RestIsNoMore ==
  ASSUME NEW c \in Containers, NEW id, NEW cnt \in Int, NEW overly \in Nat,
         \A i \in Holding(c, id) : c[i].count <= overly
  PROVE  LeftBefore(c, id, cnt, overly)[MAX_BAG_SIZE] \in {0, cnt} \cup 1 .. cnt
  <1> DEFINE left == LeftBefore(c, id, cnt, overly)
             V == {0, cnt} \cup 1 .. cnt
  <1>1. /\ left[0] = cnt
        /\ \A i \in SlotIds : left[i + 1] = IF Tops(c, id, i, left[i])
                                              THEN Leftover(c[i].count, left[i], overly)
                                              ELSE left[i]
    <2>1. PassedOn(left, c, id, cnt, overly)
      BY LeftIsDefined
    <2> QED
      BY <2>1 DEF PassedOn
  <1> HIDE DEF left
  <1> DEFINE T == {k \in 0 .. MAX_BAG_SIZE : left[k] \in V}
  <1>2. 0 \in T
    BY <1>1, ContainerAssumption
  <1>3. ASSUME NEW k \in 0 .. MAX_BAG_SIZE - 1, k \in T PROVE k + 1 \in T
    <2>1. k \in SlotIds /\ k + 1 \in 0 .. MAX_BAG_SIZE /\ left[k] \in V
      BY <1>3, ContainerAssumption DEF SlotIds
    <2>2. \A i \in Holding(c, id) : c[i].count \in Int
      BY SlotTypes DEF Holding, Stacks
    <2>3. ASSUME Tops(c, id, k, left[k]) PROVE Leftover(c[k].count, left[k], overly) \in V
      <3>1. c[k].count \in Int /\ c[k].count <= overly /\ left[k] \in Int
        BY <2>1, <2>2, <2>3 DEF Tops
      <3> QED
        BY <2>1, <3>1 DEF Leftover
    <2> HIDE DEF V
    <2> QED
      BY <1>1, <2>1, <2>3
  <1> HIDE DEF T
  <1>4. \A k \in 0 .. MAX_BAG_SIZE : k \in T
    BY <1>2, <1>3, UpTo, ContainerAssumption
  <1> QED
    BY <1>4, ContainerAssumption DEF T, left

\* The three ways AddItem ends, with the stacks filled (d) and what they could
\* not take (rest).
Ends(a, d, rest, c, id, cnt, newSlot) ==
  LET j == Min(FreeSlots(c))
  IN  /\ rest \in Nat \cup {cnt}
      /\ \/ rest = 0 /\ a.cont = d /\ a.ret = TRUE
         \/ /\ rest # 0 /\ FreeSlots(c) # {} /\ a.ret = newSlot
            /\ j \in SlotIds \ Occupied(d) /\ \A i \in FreeSlots(c) : j <= i
            /\ [id |-> id, count |-> rest] \in Stacks
            /\ a.cont = [d EXCEPT ![j] = [id |-> id, count |-> rest]]
         \/ rest # 0 /\ FreeSlots(c) = {} /\ a.cont = d /\ a.ret = FALSE
LEMMA AddEnds ==
  ASSUME NEW c \in Containers, NEW id \in ItemIds \cup {NoItem}, NEW cnt \in Int,
         NEW overly \in Nat \ {0}, NEW newSlot
  PROVE  Ends(AddToStacks(c, id, cnt, overly, newSlot), StacksFilled(c, id, cnt, overly),
              LeftBefore(c, id, cnt, overly)[MAX_BAG_SIZE], c, id, cnt, newSlot)
  <1> DEFINE a == AddToStacks(c, id, cnt, overly, newSlot)
             d == StacksFilled(c, id, cnt, overly)
             rest == LeftBefore(c, id, cnt, overly)[MAX_BAG_SIZE]
             j == Min(FreeSlots(c))
  <1>1. rest \in Nat \cup {cnt}
    <2>1. LeftBefore(c, id, cnt, overly) \in [0 .. MAX_BAG_SIZE -> Nat \cup {cnt}]
      BY LeftIsDefined DEF PassedOn
    <2> QED
      BY <2>1, ContainerAssumption
  <1>2. a = IF rest = 0 THEN [cont |-> d, ret |-> TRUE]
            ELSE IF FreeSlots(c) # {}
              THEN [cont |-> [d EXCEPT ![j] = [id |-> id, count |-> rest]], ret |-> newSlot]
              ELSE [cont |-> d, ret |-> FALSE]
    BY DEF AddToStacks
  <1>3. FreeSlots(c) # {} => j \in FreeSlots(c) /\ \A i \in FreeSlots(c) : j <= i
    <2>1. FreeSlots(c) \in SUBSET Nat
      BY DEF FreeSlots, SlotIds
    <2> QED
      BY <2>1, MinIsLowest
  <1>4. FreeSlots(c) = SlotIds \ Occupied(d)
    <2>1. FillsOnly(d, c, id, overly, rest)
      BY FilledSlots
    <2> QED
      BY <2>1 DEF FreeSlots, FillsOnly
  <1> HIDE DEF a, d, rest, j
  <1>5. rest # 0 => [id |-> id, count |-> rest] \in Stacks
    BY <1>1 DEF Stacks
  <1>6. CASE rest = 0
    BY <1>1, <1>2, <1>6 DEF a, d, rest, Ends
  <1>7. CASE rest # 0 /\ FreeSlots(c) # {}
    <2>1. /\ a.ret = newSlot /\ a.cont = [d EXCEPT ![j] = [id |-> id, count |-> rest]]
          /\ j \in SlotIds \ Occupied(d) /\ \A i \in FreeSlots(c) : j <= i
      BY <1>2, <1>3, <1>4, <1>7
    <2> QED
      BY <2>1, <1>1, <1>5, <1>7 DEF a, d, rest, j, Ends
  <1>8. CASE rest # 0 /\ FreeSlots(c) = {}
    BY <1>1, <1>2, <1>8 DEF a, d, rest, Ends
  <1> QED
    BY <1>6, <1>7, <1>8

\* Adding an item keeps a container one, leaves every other item alone, and
\* adds all that was asked unless neither stacks nor slots have room for it.
Gains(a, c, id, cnt, overly, rest) ==
  /\ a.cont \in Containers
  /\ \A o : o # id => Holding(a.cont, o) = Holding(c, o) /\ Total(a.cont, o) = Total(c, o)
  /\ rest = 0 \/ FreeSlots(c) # {} => Total(a.cont, id) = Total(c, id) + cnt
  /\ rest # 0 /\ FreeSlots(c) = {} =>
       /\ Total(a.cont, id) = Total(c, id) + cnt - rest
       /\ \A i \in Holding(a.cont, id) : a.cont[i].count = overly
LEMMA AddKeeps ==
  ASSUME NEW c \in Containers, NEW id \in ItemIds \cup {NoItem}, NEW cnt \in Int,
         NEW overly \in Nat \ {0}, NEW newSlot
  PROVE  Gains(AddToStacks(c, id, cnt, overly, newSlot), c, id, cnt, overly,
               LeftBefore(c, id, cnt, overly)[MAX_BAG_SIZE])
  <1> DEFINE a == AddToStacks(c, id, cnt, overly, newSlot)
             d == StacksFilled(c, id, cnt, overly)
             rest == LeftBefore(c, id, cnt, overly)[MAX_BAG_SIZE]
             j == Min(FreeSlots(c))
             s == [id |-> id, count |-> rest]
  <1>1. /\ d \in Containers /\ Occupied(d) = Occupied(c)
        /\ \A o : Holding(d, o) = Holding(c, o)
        /\ \A i \in SlotIds \ Holding(c, id) : d[i] = c[i]
        /\ rest # 0 => \A i \in Holding(c, id) : d[i].count = overly
    <2>1. FillsOnly(d, c, id, overly, rest)
      BY FilledSlots
    <2> QED
      BY <2>1 DEF FillsOnly
  <1>2. Total(d, id) = Total(c, id) + cnt - rest
    BY FilledTotal
  <1>3. /\ rest \in Int
        /\ \/ rest = 0 /\ a.cont = d
           \/ /\ rest # 0 /\ FreeSlots(c) # {}
              /\ j \in SlotIds \ Occupied(d) /\ s \in Stacks
              /\ a.cont = [d EXCEPT ![j] = s]
           \/ rest # 0 /\ FreeSlots(c) = {} /\ a.cont = d
    <2>1. Ends(a, d, rest, c, id, cnt, newSlot)
      BY AddEnds
    <2> QED
      BY <2>1 DEF Ends
  <1>4. \A o : o # id => Total(d, o) = Total(c, o)
    <2> SUFFICES ASSUME NEW o, o # id PROVE Total(d, o) = Total(c, o)
      OBVIOUS
    <2>1. \A i \in Holding(c, o) : c[i].count = d[i].count
      BY <1>1 DEF Holding, Occupied
    <2> QED
      BY <1>1, <2>1, TotalsAgree
  <1>5. Total(c, id) \in Int /\ Total(d, id) \in Int
    BY <1>1, TotalIsInt
  <1>6. s.id = id /\ s.count = rest
    OBVIOUS
  <1> HIDE DEF a, d, rest, j, s
  <1>7. CASE rest = 0
    BY <1>1, <1>2, <1>3, <1>4, <1>5, <1>7 DEF Gains, a, rest
  <1>8. CASE rest # 0 /\ FreeSlots(c) # {}
    <2>1. /\ a.cont \in Containers
          /\ Total(a.cont, id) = Total(d, id) + rest
          /\ \A o : o # id => Holding(a.cont, o) = Holding(d, o) /\ Total(a.cont, o) = Total(d, o)
      BY <1>1, <1>3, <1>6, <1>8, TotalWithSlot
    <2> QED
      BY <2>1, <1>1, <1>2, <1>3, <1>4, <1>5, <1>8 DEF Gains, a, rest
  <1>9. CASE rest # 0 /\ FreeSlots(c) = {}
    BY <1>1, <1>2, <1>3, <1>4, <1>5, <1>9 DEF Gains, a, rest
  <1> QED
    BY <1>7, <1>8, <1>9

-----------------------------------------------------------------------------
(* RemoveItem, and the containers of equipment. *)

\* A removal keeps a container one and concerns the item of its slot alone.
OneItemLess(d, c) ==
  /\ d \in Containers
  /\ \A q : Holding(d, q) \subseteq Holding(c, q)
  /\ \E o : \A q : q # o => Holding(d, q) = Holding(c, q) /\ Total(d, q) = Total(c, q)
LEMMA RemoveKeeps ==
  ASSUME NEW c \in Containers, NEW num \in Nat, NEW cnt \in Int
  PROVE  OneItemLess(RemoveFromSlot(c, num, cnt), c)
  <1> DEFINE d == RemoveFromSlot(c, num, cnt)
  <1>1. CASE num >= MAX_BAG_SIZE \/ c[num] = Null
    BY <1>1 DEF RemoveFromSlot, OneItemLess
  <1>2. CASE ~(num >= MAX_BAG_SIZE \/ c[num] = Null)
    <2> DEFINE s == [c[num] EXCEPT !.count = @ - cnt]
    <2>1. num \in SlotIds /\ c[num] \in Stacks /\ num \in Occupied(c)
      BY <1>2, ContainerAssumption DEF SlotIds, Containers, Occupied
    <2>2. \/ d = [c EXCEPT ![num] = Null]
          \/ d = [c EXCEPT ![num] = s] /\ s \in Stacks
      <3>1. CASE UsedUp(c[num].count, cnt)
        BY <1>2, <3>1 DEF RemoveFromSlot
      <3>2. CASE ~UsedUp(c[num].count, cnt)
        <4>1. s = [id |-> c[num].id, count |-> c[num].count - cnt]
          BY <2>1 DEF Stacks
        <4>2. c[num].count - cnt \in Int
          BY <2>1 DEF Stacks
        <4>3. s \in Stacks
          BY <2>1, <4>1, <4>2 DEF Stacks
        <4> QED
          BY <1>2, <3>2, <4>3 DEF RemoveFromSlot
      <3> QED
        BY <3>1, <3>2
    <2>3. s.id = c[num].id
      BY <2>1 DEF Stacks
    <2>4. d \in Containers /\ (d[num] = Null \/ d[num].id = c[num].id)
          /\ \A i \in SlotIds : i # num => d[i] = c[i]
      BY <2>1, <2>2, <2>3 DEF Containers
    <2> HIDE DEF d, s
    <2>5. /\ \A q : q # c[num].id => Holding(d, q) = Holding(c, q)
          /\ \A q : Holding(d, q) \subseteq Holding(c, q)
      BY <2>1, <2>4 DEF Holding, Occupied
    <2>6. \A q : q # c[num].id => \A i \in Holding(c, q) : c[i].count = d[i].count
      BY <2>1, <2>4 DEF Holding, Occupied
    <2>7. ASSUME NEW q, q # c[num].id PROVE Total(d, q) = Total(c, q)
      BY <2>4, <2>5, <2>6, <2>7, TotalsAgree
    <2> QED
      BY <2>4, <2>5, <2>7 DEF OneItemLess, d
  <1> QED
    BY <1>1, <1>2

\* Containers of equipment: one piece to a slot.
Pieces == {c \in Containers : \A i \in Occupied(c) : c[i].count = 1}

\* A container nothing was put in.
LEMMA EmptyContainerTypes ==
  EmptyContainer \in Containers /\ EmptyContainer \in Pieces /\ Occupied(EmptyContainer) = {}
BY DEF EmptyContainer, Containers, Pieces, Occupied

\* One piece more, or no free slot.
OnePieceMore(a, c, id) ==
  LET j == Min(FreeSlots(c)) IN
  /\ a.cont \in Pieces
  /\ \A o : o # id => Holding(a.cont, o) = Holding(c, o) /\ Total(a.cont, o) = Total(c, o)
  /\ \/ FreeSlots(c) = {} /\ a.cont = c /\ a.ret = FALSE
     \/ /\ FreeSlots(c) # {} /\ a.ret = TRUE
        /\ j \in FreeSlots(c) /\ \A i \in FreeSlots(c) : j <= i
        /\ a.cont = [c EXCEPT ![j] = [id |-> id, count |-> 1]]
        /\ Total(a.cont, id) = Total(c, id) + 1
LEMMA EquipAddKeeps ==
  ASSUME NEW c \in Pieces, NEW id \in ItemIds \cup {NoItem}
  PROVE  OnePieceMore(EquipAddItem(c, id), c, id)
  <1> DEFINE a == EquipAddItem(c, id)
             j == Min(FreeSlots(c))
             s == [id |-> id, count |-> 1]
  <1>1. c \in Containers /\ \A i \in Occupied(c) : c[i].count = 1
    BY DEF Pieces
  <1>2. CASE FreeSlots(c) = {}
    BY <1>2 DEF EquipAddItem, OnePieceMore
  <1>3. CASE FreeSlots(c) # {}
    <2>1. a.ret = TRUE /\ a.cont = [c EXCEPT ![j] = s]
      BY <1>3 DEF EquipAddItem
    <2>2. j \in FreeSlots(c) /\ \A i \in FreeSlots(c) : j <= i
      <3>1. FreeSlots(c) \in SUBSET Nat
        BY DEF FreeSlots, SlotIds
      <3> QED
        BY <1>3, <3>1, MinIsLowest
    <2>3. j \in SlotIds \ Occupied(c) /\ s \in Stacks /\ s.id = id /\ s.count = 1
      BY <2>2 DEF FreeSlots, Stacks
    <2> HIDE DEF a, j, s
    <2>4. /\ a.cont \in Containers /\ Occupied(a.cont) = Occupied(c) \cup {j}
          /\ Total(a.cont, id) = Total(c, id) + 1
          /\ \A o : o # id => Holding(a.cont, o) = Holding(c, o) /\ Total(a.cont, o) = Total(c, o)
      <3> DEFINE d == [c EXCEPT ![j] = s]
      <3>1. /\ d \in Containers /\ Occupied(d) = Occupied(c) \cup {j}
            /\ Holding(d, s.id) = Holding(c, s.id) \cup {j}
            /\ Total(d, s.id) = Total(c, s.id) + s.count
            /\ \A o : o # s.id => Holding(d, o) = Holding(c, o) /\ Total(d, o) = Total(c, o)
        BY <1>1, <2>3, TotalWithSlot
      <3> QED
        BY <2>1, <2>3, <3>1
    <2>5. \A i \in Occupied(a.cont) : a.cont[i].count = 1
      <3>1. \A i \in SlotIds : a.cont[i] = IF i = j THEN s ELSE c[i]
        BY <1>1, <2>1 DEF Containers
      <3> QED
        BY <1>1, <2>3, <2>4, <3>1 DEF Occupied
    <2> QED
      BY <1>3, <2>1, <2>2, <2>4, <2>5 DEF OnePieceMore, Pieces, a, j, s
  <1> QED
    BY <1>2, <1>3

\* A piece less.
LEMMA EquipRemoveKeeps ==
  ASSUME NEW c \in Pieces, NEW num
  PROVE  EquipRemoveItem(c, num) \in Pieces
  <1> DEFINE d == EquipRemoveItem(c, num)
  <1>1. d \in Containers /\ \A i \in SlotIds : d[i] = Null \/ d[i] = c[i]
    BY DEF EquipRemoveItem, Pieces, Containers
  <1> QED
    BY <1>1 DEF Pieces, Occupied

\* And it concerns the piece of its slot alone, if there is one.
LEMMA EquipTakesOne ==
  ASSUME NEW c \in Containers, NEW num \in SlotIds
  PROVE  OneItemLess(EquipRemoveItem(c, num), c)
  <1>1. CASE c[num] = Null
    <2>1. EquipRemoveItem(c, num) = c
      BY <1>1 DEF EquipRemoveItem, Containers
    <2> QED
      BY <2>1 DEF OneItemLess
  <1>2. CASE c[num] # Null
    <2>1. c[num] \in Stacks /\ num \in Nat
      BY <1>2 DEF Containers, SlotIds
    <2>2. c[num].count \in Int /\ UsedUp(c[num].count, c[num].count)
      BY <2>1 DEF Stacks, UsedUp
    <2>3. ~(num >= MAX_BAG_SIZE)
      BY ContainerAssumption DEF SlotIds
    <2>4. EquipRemoveItem(c, num) = RemoveFromSlot(c, num, c[num].count)
      BY <1>2, <2>2, <2>3 DEF EquipRemoveItem, RemoveFromSlot
    <2> QED
      BY <2>1, <2>2, <2>4, RemoveKeeps
  <1> QED
    BY <1>1, <1>2

-----------------------------------------------------------------------------
(* SetPlayer: the entries of a message are added one after the other. *)

\* The last of some entries.
LEMMA MaxIsHighest ==
  ASSUME NEW n \in Nat, NEW S \in SUBSET (1 .. n), S # {}
  PROVE  Max(S) \in S /\ \A y \in S : Max(S) >= y
  <1> DEFINE U == {u \in 0 .. n : \A y \in S : u >= y}
             m == Min(U)
  <1>1. U \in SUBSET Nat /\ n \in U
    OBVIOUS
  <1>2. m \in U /\ \A u \in U : m <= u
    BY <1>1, MinIsLowest
  <1>3. m \in S
    <2> SUFFICES ASSUME m \notin S PROVE FALSE
      OBVIOUS
    <2>1. \A y \in S : y < m
      BY <1>2
    <2>2. m \in 1 .. n
      <3>1. PICK y \in S : TRUE
        OBVIOUS
      <3>2. y < m /\ y \in 1 .. n /\ m \in 0 .. n
        BY <1>2, <2>1, <3>1
      <3> HIDE DEF m
      <3> QED
        BY <3>2
    <2> HIDE DEF m
    <2>3. m - 1 \in U
      BY <2>1, <2>2
    <2> QED
      BY <1>2, <2>2, <2>3
  <1>4. \E x \in S : \A y \in S : x >= y
    BY <1>2, <1>3
  <1> QED
    BY <1>4 DEF Max

LEMMA MaxOfFirst ==
  ASSUME NEW k \in Nat \ {0}
  PROVE  Max(1 .. k) = k /\ (1 .. k) \ {k} = 1 .. k - 1
  <1>1. k \in 1 .. k /\ 1 .. k \in SUBSET (1 .. k)
    OBVIOUS
  <1>2. Max(1 .. k) \in 1 .. k /\ \A y \in 1 .. k : Max(1 .. k) >= y
    BY <1>1, MaxIsHighest
  <1> QED
    BY <1>1, <1>2

\* A fold from the left takes the last entry last.
FoldsOver(h, n, V, base, step) ==
  /\ h \in [SUBSET (1 .. n) -> V]
  /\ h[{}] = base
  /\ \A s \in SUBSET (1 .. n) : s # {} => h[s] = step[Max(s)][h[s \ {Max(s)}]]
LEMMA FoldExists ==
  ASSUME NEW n \in Nat, NEW V, NEW base \in V, NEW step \in Steps(n, V)
  PROVE  \E h : FoldsOver(h, n, V, base, step)
  <1> DEFINE P(m) == \E h : FoldsOver(h, m, V, base, step)
             T == {m \in 0 .. n : P(m)}
  <1>1. 0 \in T
    <2> DEFINE h == [s \in SUBSET (1 .. 0) |-> base]
    <2>1. SUBSET (1 .. 0) = {{}}
      OBVIOUS
    <2>2. FoldsOver(h, 0, V, base, step)
      BY <2>1 DEF FoldsOver
    <2> HIDE DEF h
    <2> QED
      BY <2>2
  <1>2. ASSUME NEW m \in 0 .. n - 1, m \in T PROVE m + 1 \in T
    <2>1. PICK h : FoldsOver(h, m, V, base, step)
      BY <1>2
    <2> DEFINE g == [s \in SUBSET (1 .. m + 1) |->
                       IF m + 1 \in s THEN step[m + 1][h[s \ {m + 1}]] ELSE h[s]]
    <2>2. \A s \in SUBSET (1 .. m + 1) : s \ {m + 1} \in SUBSET (1 .. m)
      OBVIOUS
    <2>3. \A s \in SUBSET (1 .. m + 1) : m + 1 \notin s => s \in SUBSET (1 .. m)
      OBVIOUS
    <2>4. m + 1 \in 1 .. n /\ step[m + 1] \in [V -> V]
      BY <1>2 DEF Steps
    <2>5. \A s \in SUBSET (1 .. m + 1) : g[s] \in V
      BY <2>1, <2>2, <2>3, <2>4 DEF FoldsOver
    <2>6. g \in [SUBSET (1 .. m + 1) -> V] /\ g[{}] = base
      BY <2>1, <2>5 DEF FoldsOver
    <2>7. ASSUME NEW s \in SUBSET (1 .. m + 1), s # {}
          PROVE  g[s] = step[Max(s)][g[s \ {Max(s)}]]
      <3>1. Max(s) \in s /\ \A y \in s : Max(s) >= y
        BY <2>7, MaxIsHighest
      <3>2. CASE m + 1 \in s
        <4>1. Max(s) = m + 1
          <5> DEFINE x == Max(s)
          <5>1. x \in 1 .. m + 1 /\ x >= m + 1
            BY <3>1, <3>2
          <5> HIDE DEF x
          <5>2. x = m + 1
            BY <5>1
          <5> QED
            BY <5>2 DEF x
        <4>2. g[s \ {m + 1}] = h[s \ {m + 1}]
          OBVIOUS
        <4> QED
          BY <3>2, <4>1, <4>2
      <3>3. CASE m + 1 \notin s
        <4>1. s \in SUBSET (1 .. m) /\ g[s] = h[s]
          BY <2>3, <3>3
        <4>2. g[s \ {Max(s)}] = h[s \ {Max(s)}]
          BY <3>3
        <4> QED
          BY <2>1, <2>7, <4>1, <4>2 DEF FoldsOver
      <3> QED
        BY <3>2, <3>3
    <2> HIDE DEF g
    <2>8. FoldsOver(g, m + 1, V, base, step)
      BY <2>6, <2>7 DEF FoldsOver
    <2>9. m + 1 \in 0 .. n
      OBVIOUS
    <2> QED
      BY <2>8, <2>9
  <1> HIDE DEF P
  <1>3. T \in SUBSET (0 .. n) /\ \A m \in 0 .. n : m \in T
    <2> HIDE DEF T
    <2>1. \A m \in 0 .. n : m \in T
      BY <1>1, <1>2, UpTo
    <2> QED
      BY <2>1 DEF T
  <1> QED
    BY <1>3 DEF P

\* The entries of a message.
Entries(n) == [1 .. n -> Stacks]

\* The three classes: the size of a stack, what AddItem returns for a new slot,
\* and whether a slot takes a single piece.
Classes == [overly : Nat \ {0}, newSlot : BOOLEAN, pieces : BOOLEAN]
BagClass == [overly |-> MAX_ITEM_BAGOVERLY, newSlot |-> TRUE, pieces |-> FALSE]
CurrencyClass == [overly |-> MAX_ITEM_CURRENCYOVERLY, newSlot |-> FALSE, pieces |-> FALSE]
EquipClass == [overly |-> 1, newSlot |-> TRUE, pieces |-> TRUE]
LEMMA ClassTypes == BagClass \in Classes /\ CurrencyClass \in Classes /\ EquipClass \in Classes
BY ContainerAssumption DEF Classes, BagClass, CurrencyClass, EquipClass

ContainersOf(class) == IF class.pieces THEN Pieces ELSE Containers

\* The container after an entry was added.
AddEntry(class, c, e) ==
  IF class.pieces
    THEN EquipAddItem(c, e.id).cont
    ELSE AddToStacks(c, e.id, e.count, class.overly, class.newSlot).cont
LEMMA AddEntryKeeps ==
  ASSUME NEW class \in Classes, NEW c \in ContainersOf(class),
         NEW e \in Stacks
  PROVE  AddEntry(class, c, e) \in ContainersOf(class)
  <1>1. e.id \in ItemIds \cup {NoItem} /\ e.count \in Int
    BY DEF Stacks
  <1>2. CASE class.pieces
    <2>1. OnePieceMore(EquipAddItem(c, e.id), c, e.id)
      BY <1>1, <1>2, EquipAddKeeps DEF ContainersOf
    <2> QED
      BY <1>2, <2>1 DEF OnePieceMore, AddEntry, ContainersOf
  <1>3. CASE ~class.pieces
    <2>1. class.overly \in Nat \ {0} /\ c \in Containers
      BY <1>3 DEF Classes, ContainersOf
    <2>2. AddToStacks(c, e.id, e.count, class.overly, class.newSlot).cont \in Containers
      <3>1. Gains(AddToStacks(c, e.id, e.count, class.overly, class.newSlot), c, e.id, e.count,
                  class.overly, LeftBefore(c, e.id, e.count, class.overly)[MAX_BAG_SIZE])
        BY <1>1, <2>1, AddKeeps
      <3> QED
        BY <3>1 DEF Gains
    <2> QED
      BY <1>3, <2>2 DEF AddEntry, ContainersOf
  <1> QED
    BY <1>2, <1>3

\* A container filled entry by entry.
Refills(f, n, entries, class) ==
  /\ f \in [0 .. n -> ContainersOf(class)]
  /\ f[0] = EmptyContainer
  /\ \A k \in 1 .. n : f[k] = AddEntry(class, f[k - 1], entries[k])

\* The fold over the entries, and that there is one.
EntryFold(t, n, entries, class) ==
  t = [s \in SUBSET (1 .. n) |->
         IF s = {} THEN EmptyContainer ELSE AddEntry(class, t[s \ {Max(s)}], entries[Max(s)])]
LEMMA EntryFoldExists ==
  ASSUME NEW n \in Nat, NEW entries \in Entries(n), NEW class \in Classes
  PROVE  \E t : EntryFold(t, n, entries, class)
  <1> DEFINE V == ContainersOf(class)
             step == [k \in 1 .. n |-> [c \in V |-> AddEntry(class, c, entries[k])]]
  <1>1. step \in Steps(n, V)
    <2>1. \A k \in 1 .. n : entries[k] \in Stacks
      BY DEF Entries
    <2>2. \A k \in 1 .. n : \A c \in V : AddEntry(class, c, entries[k]) \in V
      BY <2>1, AddEntryKeeps
    <2> QED
      BY <2>2 DEF Steps
  <1>2. EmptyContainer \in V
    BY EmptyContainerTypes DEF ContainersOf
  <1>3. \A k \in 1 .. n : \A c \in V : step[k][c] = AddEntry(class, c, entries[k])
    OBVIOUS
  <1> HIDE DEF step, V
  <1>4. PICK h : FoldsOver(h, n, V, EmptyContainer, step)
    BY <1>1, <1>2, FoldExists
  <1>5. ASSUME NEW s \in SUBSET (1 .. n), s # {}
        PROVE  h[s] = AddEntry(class, h[s \ {Max(s)}], entries[Max(s)])
    <2>1. Max(s) \in 1 .. n
      BY <1>5, MaxIsHighest
    <2>2. h[s] = step[Max(s)][h[s \ {Max(s)}]] /\ h[s \ {Max(s)}] \in V
      BY <1>4, <1>5 DEF FoldsOver
    <2> QED
      BY <1>3, <2>1, <2>2
  <1>6. EntryFold(h, n, entries, class)
    BY <1>4, <1>5 DEF FoldsOver, EntryFold
  <1> QED
    BY <1>6

LEMMA EntryFoldRefills ==
  ASSUME NEW n \in Nat, NEW entries \in Entries(n), NEW class \in Classes,
         NEW t, EntryFold(t, n, entries, class)
  PROVE  \E f : Refills(f, n, entries, class) /\ t[1 .. n] = f[n]
  <1> DEFINE f == [k \in 0 .. n |-> t[1 .. k]]
             T == {k \in 0 .. n : f[k] \in ContainersOf(class)}
  <1>1. f[0] = EmptyContainer
    <2>1. 1 .. 0 = {}
      OBVIOUS
    <2> QED
      BY <2>1 DEF EntryFold
  <1>2. ASSUME NEW k \in 1 .. n PROVE f[k] = AddEntry(class, f[k - 1], entries[k])
    <2>1. Max(1 .. k) = k /\ (1 .. k) \ {k} = 1 .. k - 1
      BY MaxOfFirst
    <2>2. 1 .. k \in SUBSET (1 .. n) /\ 1 .. k # {}
      OBVIOUS
    <2>3. t[1 .. k] = AddEntry(class, t[(1 .. k) \ {Max(1 .. k)}], entries[Max(1 .. k)])
      BY <2>2 DEF EntryFold
    <2>4. f[k] = t[1 .. k] /\ f[k - 1] = t[1 .. k - 1]
      OBVIOUS
    <2> HIDE DEF f
    <2> QED
      BY <2>1, <2>3, <2>4
  <1>3. f = [k \in 0 .. n |-> f[k]] /\ f[n] = t[1 .. n]
    OBVIOUS
  <1> HIDE DEF f
  <1>4. 0 \in T
    BY <1>1, EmptyContainerTypes DEF ContainersOf
  <1>5. ASSUME NEW k \in 0 .. n - 1, k \in T PROVE k + 1 \in T
    <2>1. entries[k + 1] \in Stacks
      BY DEF Entries
    <2>2. f[k] \in ContainersOf(class)
      BY <1>5
    <2>3. AddEntry(class, f[k], entries[k + 1]) \in ContainersOf(class)
      BY <2>1, <2>2, AddEntryKeeps
    <2> QED
      BY <2>3, <1>2
  <1>6. \A k \in 0 .. n : k \in T
    <2> HIDE DEF T
    <2> QED
      BY <1>4, <1>5, UpTo
  <1>7. Refills(f, n, entries, class)
    BY <1>1, <1>2, <1>3, <1>6 DEF Refills
  <1> QED
    BY <1>3, <1>7

\* RestoreBag goes through the entries in their order.
LEMMA RestoreBagRefills ==
  ASSUME NEW n \in Nat, NEW entries \in Entries(n)
  PROVE  \E f : Refills(f, n, entries, BagClass) /\ RestoreBag(entries) = f[n]
  <1> DEFINE Step(f) == [s \in SUBSET DOMAIN entries |->
                           IF s = {} THEN EmptyContainer
                           ELSE AddToStacks(f[s \ {Max(s)}], entries[Max(s)].id,
                                            entries[Max(s)].count, MAX_ITEM_BAGOVERLY, TRUE).cont]
             t == CHOOSE f : f = Step(f)
  <1>1. RestoreBag(entries) = t[DOMAIN entries]
    BY DEF RestoreBag, FoldLeft, MapThenFoldSet, BagAddItem
  <1>2. DOMAIN entries = 1 .. n
    BY DEF Entries
  <1>3. \E f : f = Step(f)
    <2>1. PICK f : EntryFold(f, n, entries, BagClass)
      BY EntryFoldExists, ClassTypes
    <2> QED
      BY <1>2, <2>1 DEF EntryFold, AddEntry, BagClass
  <1>4. t = Step(t)
    <2> HIDE DEF Step
    <2> QED
      BY <1>3
  <1> HIDE DEF t
  <1>5. EntryFold(t, n, entries, BagClass)
    BY <1>2, <1>4 DEF EntryFold, AddEntry, BagClass
  <1> QED
    BY <1>1, <1>2, <1>5, EntryFoldRefills, ClassTypes

\* RestoreCurrency goes through the entries in their order.
LEMMA RestoreCurrencyRefills ==
  ASSUME NEW n \in Nat, NEW entries \in Entries(n)
  PROVE  \E f : Refills(f, n, entries, CurrencyClass) /\ RestoreCurrency(entries) = f[n]
  <1> DEFINE Step(f) == [s \in SUBSET DOMAIN entries |->
                           IF s = {} THEN EmptyContainer
                           ELSE AddToStacks(f[s \ {Max(s)}], entries[Max(s)].id,
                                            entries[Max(s)].count, MAX_ITEM_CURRENCYOVERLY, FALSE).cont]
             t == CHOOSE f : f = Step(f)
  <1>1. RestoreCurrency(entries) = t[DOMAIN entries]
    BY DEF RestoreCurrency, FoldLeft, MapThenFoldSet, CurAddItem
  <1>2. DOMAIN entries = 1 .. n
    BY DEF Entries
  <1>3. \E f : f = Step(f)
    <2>1. PICK f : EntryFold(f, n, entries, CurrencyClass)
      BY EntryFoldExists, ClassTypes
    <2> QED
      BY <1>2, <2>1 DEF EntryFold, AddEntry, CurrencyClass
  <1>4. t = Step(t)
    <2> HIDE DEF Step
    <2> QED
      BY <1>3
  <1> HIDE DEF t
  <1>5. EntryFold(t, n, entries, CurrencyClass)
    BY <1>2, <1>4 DEF EntryFold, AddEntry, CurrencyClass
  <1> QED
    BY <1>1, <1>2, <1>5, EntryFoldRefills, ClassTypes

\* RestoreEquipment goes through the entries in their order.
LEMMA RestoreEquipmentRefills ==
  ASSUME NEW n \in Nat, NEW entries \in Entries(n)
  PROVE  \E f : Refills(f, n, entries, EquipClass) /\ RestoreEquipment(entries) = f[n]
  <1> DEFINE Step(f) == [s \in SUBSET DOMAIN entries |->
                           IF s = {} THEN EmptyContainer
                           ELSE EquipAddItem(f[s \ {Max(s)}], entries[Max(s)].id).cont]
             t == CHOOSE f : f = Step(f)
  <1>1. RestoreEquipment(entries) = t[DOMAIN entries]
    BY DEF RestoreEquipment, FoldLeft, MapThenFoldSet
  <1>2. DOMAIN entries = 1 .. n
    BY DEF Entries
  <1>3. \E f : f = Step(f)
    <2>1. PICK f : EntryFold(f, n, entries, EquipClass)
      BY EntryFoldExists, ClassTypes
    <2> QED
      BY <1>2, <2>1 DEF EntryFold, AddEntry, EquipClass
  <1>4. t = Step(t)
    <2> HIDE DEF Step
    <2> QED
      BY <1>3
  <1> HIDE DEF t
  <1>5. EntryFold(t, n, entries, EquipClass)
    BY <1>2, <1>4 DEF EntryFold, AddEntry, EquipClass
  <1> QED
    BY <1>1, <1>2, <1>5, EntryFoldRefills, ClassTypes

-----------------------------------------------------------------------------
(* A save and a reload. *)

\* What an entry adds: the pieces of a message all count one.
AddedBy(class, e) == IF class.pieces THEN 1 ELSE e.count

\* An entry that finds a free slot is added in full, and takes no slot but the
\* first free one.
EntryAdded(a, c, e, class) ==
  LET j == Min(FreeSlots(c)) IN
  /\ a \in ContainersOf(class)
  /\ j \in FreeSlots(c) /\ \A i \in FreeSlots(c) : j <= i
  /\ Occupied(c) \subseteq Occupied(a) /\ Occupied(a) \subseteq Occupied(c) \cup {j}
  /\ Total(a, e.id) = Total(c, e.id) + AddedBy(class, e)
  /\ \A o : o # e.id => Total(a, o) = Total(c, o)
LEMMA RoomForEntry ==
  ASSUME NEW class \in Classes, NEW c \in ContainersOf(class), FreeSlots(c) # {},
         NEW e \in Stacks
  PROVE  EntryAdded(AddEntry(class, c, e), c, e, class)
  <1> DEFINE a == AddEntry(class, c, e)
             j == Min(FreeSlots(c))
  <1>1. e.id \in ItemIds \cup {NoItem} /\ e.count \in Int
    BY DEF Stacks
  <1>2. a \in ContainersOf(class)
    BY AddEntryKeeps
  <1>3. j \in FreeSlots(c) /\ \A i \in FreeSlots(c) : j <= i
    <2>1. FreeSlots(c) \in SUBSET Nat
      BY DEF FreeSlots, SlotIds
    <2> QED
      BY <2>1, MinIsLowest
  <1> HIDE DEF j
  <1>4. CASE class.pieces
    <2> DEFINE s == [id |-> e.id, count |-> 1]
    <2>1. c \in Pieces /\ a = EquipAddItem(c, e.id).cont /\ AddedBy(class, e) = 1
      BY <1>4 DEF AddEntry, ContainersOf, AddedBy
    <2>2. /\ \A o : o # e.id => Total(a, o) = Total(c, o)
          /\ Total(a, e.id) = Total(c, e.id) + 1
          /\ a = [c EXCEPT ![j] = s]
      <3>1. OnePieceMore(EquipAddItem(c, e.id), c, e.id)
        BY <1>1, <2>1, EquipAddKeeps
      <3> QED
        BY <2>1, <3>1 DEF OnePieceMore, j
    <2>3. Occupied(a) = Occupied(c) \cup {j}
      <3>1. s \in Stacks /\ c \in Containers /\ j \in SlotIds
        BY <1>1, <1>3, <2>1 DEF Stacks, Pieces, FreeSlots
      <3>2. s # Null
        BY <3>1, <2>1, SlotTypes
      <3> HIDE DEF s, a
      <3> QED
        BY <2>2, <3>1, <3>2 DEF Occupied, Containers
    <2> QED
      BY <1>2, <1>3, <2>1, <2>2, <2>3 DEF EntryAdded, j
  <1>5. CASE ~class.pieces
    <2> DEFINE full == AddToStacks(c, e.id, e.count, class.overly, class.newSlot)
               d == StacksFilled(c, e.id, e.count, class.overly)
               rest == LeftBefore(c, e.id, e.count, class.overly)[MAX_BAG_SIZE]
               s == [id |-> e.id, count |-> rest]
    <2>1. /\ c \in Containers /\ class.overly \in Nat \ {0}
          /\ a = full.cont /\ AddedBy(class, e) = e.count
      BY <1>5 DEF AddEntry, ContainersOf, AddedBy, Classes
    <2>2. /\ \A o : o # e.id => Holding(full.cont, o) = Holding(c, o)
                             /\ Total(full.cont, o) = Total(c, o)
          /\ Total(full.cont, e.id) = Total(c, e.id) + e.count
      <3>1. Gains(full, c, e.id, e.count, class.overly, rest)
        BY <1>1, <2>1, AddKeeps
      <3> QED
        BY <3>1 DEF Gains
    <2>3. Occupied(d) = Occupied(c) /\ d \in Containers
      <3>1. FillsOnly(d, c, e.id, class.overly, rest)
        BY <1>1, <2>1, FilledSlots
      <3> QED
        BY <3>1 DEF FillsOnly
    <2>4. \/ full.cont = d
          \/ j \in SlotIds /\ s \in Stacks /\ full.cont = [d EXCEPT ![j] = s]
      <3>1. Ends(full, d, rest, c, e.id, e.count, class.newSlot)
        BY <1>1, <2>1, AddEnds
      <3> QED
        BY <3>1 DEF Ends, j
    <2> HIDE DEF full, d, s, rest
    <2>5. Occupied(c) \subseteq Occupied(a) /\ Occupied(a) \subseteq Occupied(c) \cup {j}
      <3>1. CASE full.cont = d
        BY <2>1, <2>3, <3>1
      <3>2. CASE j \in SlotIds /\ s \in Stacks /\ full.cont = [d EXCEPT ![j] = s]
        <4>1. s # Null
          BY <2>1, <3>2, SlotTypes
        <4> QED
          BY <2>1, <2>3, <3>2, <4>1 DEF Occupied, Containers
      <3> QED
        BY <2>4, <3>1, <3>2
    <2> QED
      BY <1>2, <1>3, <2>1, <2>2, <2>5 DEF EntryAdded, j
  <1> QED
    BY <1>4, <1>5

\* What GetBagInfo writes is what SetPlayer reads.
LEMMA EntriesOfContainer ==
  ASSUME NEW c \in Containers
  PROVE  /\ ContainerEntries(c) \in Entries(MAX_BAG_SIZE)
         /\ \A k \in SlotIds : ContainerEntries(c)[k + 1]
                                 = IF c[k] = Null THEN [id |-> NoItem, count |-> 0] ELSE c[k]
  <1>1. \A k \in 1 .. MAX_BAG_SIZE : k - 1 \in SlotIds /\ (c[k - 1] # Null => c[k - 1] \in Stacks)
    BY ContainerAssumption DEF SlotIds, Containers
  <1>2. ContainerEntries(c) \in Entries(MAX_BAG_SIZE)
    BY <1>1 DEF ContainerEntries, Entries, Stacks
  <1>3. \A k \in SlotIds : k + 1 \in 1 .. MAX_BAG_SIZE /\ (k + 1) - 1 = k
    BY ContainerAssumption DEF SlotIds
  <1> QED
    BY <1>2, <1>3 DEF ContainerEntries

\* After k entries no more than k slots are taken, and every item of the first
\* k slots has come back.
Returned(g, c, k) ==
  /\ Occupied(g) \subseteq 0 .. k - 1
  /\ \A id \in ItemIds : Total(g, id) = SumOver(Counts(c))[Holding(c, id) \cap 0 .. k - 1]
LEMMA EntryReturns ==
  ASSUME NEW class \in Classes, NEW c \in ContainersOf(class), NEW k \in SlotIds,
         NEW g \in ContainersOf(class), Returned(g, c, k)
  PROVE  Returned(AddEntry(class, g, ContainerEntries(c)[k + 1]), c, k + 1)
  <1> DEFINE e == ContainerEntries(c)[k + 1]
             a == AddEntry(class, g, e)
             h == SumOver(Counts(c))
             Low(id, m) == Holding(c, id) \cap 0 .. m - 1
  <1>1. c \in Containers /\ g \in Containers /\ k \in Nat /\ k + 1 \in 1 .. MAX_BAG_SIZE
    BY ContainerAssumption DEF ContainersOf, Pieces, SlotIds
  <1>2. /\ e \in Stacks
        /\ e = IF c[k] = Null THEN [id |-> NoItem, count |-> 0] ELSE c[k]
    BY <1>1, EntriesOfContainer DEF Entries
  <1>3. k \in FreeSlots(g)
    BY DEF Returned, FreeSlots, SlotIds
  <1>4. EntryAdded(a, g, e, class)
    BY <1>2, <1>3, RoomForEntry
  <1>5. Occupied(a) \subseteq 0 .. k
    <2>1. PICK j \in FreeSlots(g) : j <= k /\ Occupied(a) \subseteq Occupied(g) \cup {j}
      BY <1>3, <1>4 DEF EntryAdded
    <2>2. j \in 0 .. k
      BY <2>1, <1>1 DEF FreeSlots, SlotIds
    <2> QED
      BY <2>1, <2>2, <1>1 DEF Returned
  <1>6. ASSUME NEW id \in ItemIds PROVE Total(a, id) = h[Low(id, k + 1)]
    <2>1. Adds(h, Counts(c))
      BY <1>1, SlotTypes, SumOverAdds
    <2>2. Total(g, id) = h[Low(id, k)]
      BY DEF Returned
    <2>3. CASE k \in Holding(c, id)
      <3>1. k \in Low(id, k + 1) /\ Low(id, k + 1) \ {k} = Low(id, k)
        BY <2>3, <1>1
      <3>2. Low(id, k + 1) \in SUBSET SlotIds
        BY <1>1, SlotTypes
      <3> HIDE DEF Low, h
      <3>3. h[Low(id, k + 1)] = h[Low(id, k)] + Counts(c)[k]
        BY <2>1, <3>1, <3>2 DEF Adds
      <3>4. e = c[k] /\ e.id = id /\ Counts(c)[k] = c[k].count
        BY <1>1, <1>2, <2>3 DEF Holding, Occupied, Counts
      <3>5. AddedBy(class, e) = c[k].count
        <4>1. class.pieces => c[k].count = 1
          BY <2>3 DEF ContainersOf, Pieces, Holding
        <4> QED
          BY <3>4, <4>1 DEF AddedBy
      <3>6. Total(a, id) = Total(g, id) + AddedBy(class, e)
        BY <1>4, <3>4 DEF EntryAdded
      <3> QED
        BY <2>2, <3>3, <3>4, <3>5, <3>6
    <2>4. CASE k \notin Holding(c, id)
      <3>1. Low(id, k + 1) = Low(id, k)
        BY <2>4, <1>1, SlotTypes DEF SlotIds
      <3>2. e.id # id
        <4>1. CASE c[k] = Null
          BY <1>2, <4>1, ContainerAssumption
        <4>2. CASE c[k] # Null
          BY <1>2, <2>4, <4>2 DEF Holding, Occupied
        <4> QED
          BY <4>1, <4>2
      <3>3. Total(a, id) = Total(g, id)
        BY <1>4, <3>2 DEF EntryAdded
      <3> QED
        BY <2>2, <3>1, <3>3
    <2> QED
      BY <2>3, <2>4
  <1> HIDE DEF a, h
  <1>7. (k + 1) - 1 = k
    BY <1>1
  <1> QED
    BY <1>5, <1>6, <1>7 DEF Returned, a, e, h

\* A save and a reload give every item back.
LEMMA RefillKeepsTotals ==
  ASSUME NEW class \in Classes, NEW c \in ContainersOf(class),
         NEW f, Refills(f, MAX_BAG_SIZE, ContainerEntries(c), class), NEW id \in ItemIds
  PROVE  Total(f[MAX_BAG_SIZE], id) = Total(c, id)
  <1> DEFINE T == {k \in 0 .. MAX_BAG_SIZE : Returned(f[k], c, k)}
  <1>1. c \in Containers
    BY DEF ContainersOf, Pieces
  <1>2. 0 \in T
    <2>1. f[0] = EmptyContainer /\ Occupied(EmptyContainer) = {} /\ EmptyContainer \in Containers
      BY EmptyContainerTypes DEF Refills
    <2>2. Adds(SumOver(Counts(c)), Counts(c)) /\ Adds(SumOver(Counts(f[0])), Counts(f[0]))
      BY <1>1, <2>1, SlotTypes, SumOverAdds
    <2>3. \A q : Holding(c, q) \cap 0 .. 0 - 1 = {} /\ Holding(f[0], q) = {}
      BY <2>1 DEF Holding
    <2>4. \A q : Total(f[0], q) = 0
      <3>1. \A q : Total(f[0], q) = SumOver(Counts(f[0]))[{}]
        BY <2>1, <2>3, TotalIsSum
      <3>2. SumOver(Counts(f[0]))[{}] = 0
        BY <2>2 DEF Adds
      <3> QED
        BY <3>1, <3>2
    <2>5. Returned(f[0], c, 0)
      BY <2>1, <2>2, <2>3, <2>4 DEF Returned, Adds
    <2> QED
      BY <2>5, ContainerAssumption
  <1>3. ASSUME NEW k \in 0 .. MAX_BAG_SIZE - 1, k \in T PROVE k + 1 \in T
    <2>1. k \in SlotIds /\ k + 1 \in 1 .. MAX_BAG_SIZE /\ k \in 0 .. MAX_BAG_SIZE /\ (k + 1) - 1 = k
      BY ContainerAssumption DEF SlotIds
    <2>2. f[k] \in ContainersOf(class) /\ f[k + 1] = AddEntry(class, f[k], ContainerEntries(c)[k + 1])
      BY <2>1 DEF Refills
    <2>3. Returned(f[k], c, k)
      BY <1>3
    <2>4. Returned(f[k + 1], c, k + 1)
      BY <2>1, <2>2, <2>3, EntryReturns
    <2> QED
      BY <2>1, <2>4
  <1>4. Returned(f[MAX_BAG_SIZE], c, MAX_BAG_SIZE)
    <2> HIDE DEF T
    <2>1. \A k \in 0 .. MAX_BAG_SIZE : k \in T
      BY <1>2, <1>3, UpTo, ContainerAssumption
    <2> QED
      BY <2>1, ContainerAssumption DEF T
  <1>5. Holding(c, id) \cap 0 .. MAX_BAG_SIZE - 1 = Holding(c, id)
    BY <1>1, SlotTypes DEF SlotIds
  <1> QED
    BY <1>1, <1>4, <1>5, TotalIsSum DEF Returned

\* Every stack holds something, and an item.
Proper(c) == \A i \in Occupied(c) : c[i].count > 0 /\ c[i].id # NoItem

\* An add of no negative count to an item, or of the entry of an empty slot.
ProperEntry(e) == e.count \in Nat /\ (e.id = NoItem => e.count = 0)

\* The taken slots come first.
Packed(c) == \A i \in Occupied(c) : \A j \in 0 .. i - 1 : j \in Occupied(c)

\* All the stacks of an item but the last are of the maximum size.
AllButLastFull(c, overly) ==
  \A i, j \in Occupied(c) : i < j /\ c[i].id = c[j].id => c[i].count = overly

\* How the slots look that were filled from k entries: a container of stacks is
\* packed and all but the last stack of an item full, one of pieces has a piece
\* for every entry.
Settled(class, c, k) ==
  /\ Packed(c)
  /\ IF class.pieces THEN 0 .. k - 1 \subseteq Occupied(c) ELSE AllButLastFull(c, class.overly)

\* Another slot behind the taken ones.
LEMMA StaysPacked ==
  ASSUME NEW c, NEW a, Packed(c), NEW j \in FreeSlots(c), \A i \in FreeSlots(c) : j <= i,
         Occupied(c) \subseteq Occupied(a), Occupied(a) \subseteq Occupied(c) \cup {j}
  PROVE  Packed(a)
  <1> SUFFICES ASSUME NEW i \in Occupied(a), NEW q \in 0 .. i - 1 PROVE q \in Occupied(a)
    BY DEF Packed
  <1>1. i \in SlotIds /\ i \in Nat
    BY DEF Occupied, SlotIds
  <1>2. CASE i \in Occupied(c)
    BY <1>2 DEF Packed
  <1>3. CASE i = j
    <2>1. q \in SlotIds
      BY <1>1, ContainerAssumption DEF SlotIds
    <2>2. q \notin FreeSlots(c)
      BY <1>1, <1>3
    <2> QED
      BY <2>1, <2>2 DEF FreeSlots
  <1> QED
    BY <1>2, <1>3

\* AddItem leaves a full stack full, and opens a slot only if all are.
LEMMA StaysFull ==
  ASSUME NEW c \in Containers, NEW id \in ItemIds \cup {NoItem}, NEW cnt \in Nat,
         NEW overly \in Nat \ {0}, NEW newSlot, Packed(c), AllButLastFull(c, overly)
  PROVE  AllButLastFull(AddToStacks(c, id, cnt, overly, newSlot).cont, overly)
  <1> DEFINE full == AddToStacks(c, id, cnt, overly, newSlot)
             a == full.cont
             d == StacksFilled(c, id, cnt, overly)
             left == LeftBefore(c, id, cnt, overly)
             rest == left[MAX_BAG_SIZE]
             j == Min(FreeSlots(c))
             s == [id |-> id, count |-> rest]
  <1>1. /\ d \in Containers /\ Occupied(d) = Occupied(c)
        /\ \A o : Holding(d, o) = Holding(c, o)
        /\ \A i \in SlotIds \ Holding(c, id) : d[i] = c[i]
        /\ rest # 0 => \A i \in Holding(c, id) : d[i].count = overly
    <2>1. FillsOnly(d, c, id, overly, rest)
      BY FilledSlots
    <2> QED
      BY <2>1 DEF FillsOnly
  <1>2. \A i \in Occupied(c) : d[i].id = c[i].id
    BY <1>1 DEF Holding
  <1>3. \A i \in Occupied(c) : c[i].count = overly => d[i].count = overly
    <2>1. PassedOn(left, c, id, cnt, overly)
      BY LeftIsDefined
    <2>2. \A i \in SlotIds : left[i] \in Nat
      BY <2>1, ContainerAssumption DEF PassedOn, SlotIds
    <2> HIDE DEF left
    <2>3. \A i \in SlotIds : d[i] = IF Tops(c, id, i, left[i])
                                     THEN [id |-> id, count |-> Stacked(c[i].count, left[i], overly)]
                                     ELSE c[i]
      BY DEF StacksFilled, left
    <2>4. \A m \in Nat : Stacked(overly, m, overly) = overly
      BY DEF Stacked
    <2> HIDE DEF d
    <2> SUFFICES ASSUME NEW i \in Occupied(c), c[i].count = overly PROVE d[i].count = overly
      OBVIOUS
    <2>5. i \in SlotIds /\ left[i] \in Nat
      BY <2>2 DEF Occupied
    <2>6. CASE Tops(c, id, i, left[i])
      <3> DEFINE x == Stacked(c[i].count, left[i], overly)
      <3>1. d[i] = [id |-> id, count |-> x]
        BY <2>3, <2>5, <2>6
      <3> HIDE DEF x
      <3>2. d[i].count = x
        BY <3>1
      <3>3. d[i].count = Stacked(c[i].count, left[i], overly)
        BY <3>2 DEF x
      <3> QED
        BY <2>4, <2>5, <2>6, <3>3
    <2>7. CASE ~Tops(c, id, i, left[i])
      BY <2>3, <2>5, <2>7
    <2> QED
      BY <2>6, <2>7
  <1>4. AllButLastFull(d, overly)
    BY <1>1, <1>2, <1>3 DEF AllButLastFull
  <1>5. \/ a = d
        \/ /\ rest # 0 /\ j \in SlotIds \ Occupied(d) /\ \A i \in FreeSlots(c) : j <= i
           /\ s \in Stacks /\ a = [d EXCEPT ![j] = s]
    <2>1. Ends(full, d, rest, c, id, cnt, newSlot)
      BY AddEnds
    <2> QED
      BY <2>1 DEF Ends
  <1> HIDE DEF a, d, left, rest, j, s, full
  <1>6. CASE a = d
    BY <1>4, <1>6 DEF a, full
  <1>7. CASE /\ rest # 0 /\ j \in SlotIds \ Occupied(d) /\ \A i \in FreeSlots(c) : j <= i
             /\ s \in Stacks /\ a = [d EXCEPT ![j] = s]
    <2>1. \A i \in SlotIds : a[i] = IF i = j THEN s ELSE d[i]
      BY <1>1, <1>7 DEF Containers
    <2>2. s # Null /\ s.id = id
      BY <1>1, <1>7, SlotTypes DEF s
    <2>3. Occupied(a) = Occupied(c) \cup {j}
      BY <1>1, <1>7, <2>1, <2>2 DEF Occupied
    <2>4. \A i \in Occupied(c) : i \in SlotIds /\ i # j /\ i <= j
      <3>1. ASSUME NEW i \in Occupied(c), i > j PROVE FALSE
        <4>1. j \in 0 .. i - 1
          BY <1>7, <3>1 DEF Occupied, SlotIds
        <4> QED
          BY <1>1, <1>7, <3>1, <4>1 DEF Packed
      <3> QED
        BY <1>1, <1>7, <3>1 DEF Occupied, SlotIds
    <2>5. ASSUME NEW i \in Occupied(a), NEW q \in Occupied(a), i < q, a[i].id = a[q].id
          PROVE  a[i].count = overly
      <3>1. i \in Occupied(c) /\ a[i] = d[i]
        <4>1. i # j
          <5>1. \A x \in SlotIds : x \in Int
            BY DEF SlotIds
          <5>2. i \in Int /\ j \in Int /\ q \in Int
            BY <1>7, <2>3, <2>4, <5>1
          <5>3. i = j => q \in Occupied(c)
            BY <2>3, <2>5, <5>2
          <5> QED
            BY <2>4, <2>5, <5>2, <5>3
        <4> QED
          BY <2>1, <2>3, <2>4, <4>1
      <3>2. CASE q = j
        <4>1. d[i].id = id
          BY <2>1, <2>2, <2>5, <3>1, <3>2, <1>7
        <4>2. i \in Holding(c, id)
          BY <1>2, <3>1, <4>1 DEF Holding
        <4> QED
          BY <1>1, <1>7, <3>1, <4>2
      <3>3. CASE q # j
        <4>1. q \in Occupied(c) /\ a[q] = d[q]
          BY <2>1, <2>3, <2>4, <3>3
        <4> QED
          BY <1>1, <1>4, <2>5, <3>1, <4>1 DEF AllButLastFull
      <3> QED
        BY <3>2, <3>3
    <2> QED
      BY <2>5 DEF AllButLastFull, a, full
  <1> QED
    BY <1>5, <1>6, <1>7

LEMMA EntrySettles ==
  ASSUME NEW class \in Classes, NEW c \in ContainersOf(class), NEW k \in SlotIds,
         NEW e \in Stacks, class.pieces \/ e.count \in Nat, Settled(class, c, k),
         Occupied(c) \subseteq 0 .. k - 1
  PROVE  LET a == AddEntry(class, c, e) IN
           Settled(class, a, k + 1) /\ Occupied(a) \subseteq 0 .. k
  <1> DEFINE a == AddEntry(class, c, e)
             j == Min(FreeSlots(c))
  <1>1. k \in FreeSlots(c) /\ k \in Nat
    BY DEF FreeSlots, SlotIds
  <1>2. EntryAdded(a, c, e, class)
    BY <1>1, RoomForEntry
  <1>3. /\ j \in FreeSlots(c) /\ \A i \in FreeSlots(c) : j <= i
        /\ Occupied(c) \subseteq Occupied(a) /\ Occupied(a) \subseteq Occupied(c) \cup {j}
    BY <1>2 DEF EntryAdded
  <1>4. Packed(a)
    <2> HIDE DEF j, a
    <2> QED
      BY <1>3, StaysPacked DEF Settled
  <1>5. j \in 0 .. k /\ Occupied(a) \subseteq 0 .. k
    <2> HIDE DEF j, a
    <2>1. j \in 0 .. k
      BY <1>1, <1>3 DEF FreeSlots, SlotIds
    <2>2. 0 .. k - 1 \subseteq 0 .. k
      BY <1>1
    <2> QED
      BY <1>3, <2>1, <2>2
  <1>6. CASE class.pieces
    <2>1. 0 .. k - 1 \subseteq Occupied(c)
      BY <1>6 DEF Settled
    <2>2. j = k
      <3> HIDE DEF j
      <3>1. j \notin 0 .. k - 1
        BY <1>3, <2>1 DEF FreeSlots
      <3> QED
        BY <1>1, <1>5, <3>1
    <2>3. k \in Occupied(a)
      <3> DEFINE s == [id |-> e.id, count |-> 1]
      <3>1. OnePieceMore(EquipAddItem(c, e.id), c, e.id)
        <4>1. c \in Pieces /\ e.id \in ItemIds \cup {NoItem}
          BY <1>6 DEF ContainersOf, Stacks
        <4> QED
          BY <4>1, EquipAddKeeps
      <3>2. a = [c EXCEPT ![k] = s]
        BY <1>1, <1>6, <2>2, <3>1 DEF OnePieceMore, AddEntry
      <3>3. s \in Stacks /\ c \in Containers
        BY <1>6 DEF Stacks, ContainersOf, Pieces
      <3>4. s # Null
        BY <3>3, SlotTypes
      <3> HIDE DEF s, a
      <3> QED
        BY <3>2, <3>3, <3>4 DEF Occupied, Containers
    <2>4. 0 .. k \subseteq Occupied(a)
      BY <1>1, <1>3, <2>1, <2>3
    <2> HIDE DEF a
    <2>5. (k + 1) - 1 = k
      BY <1>1
    <2> QED
      BY <1>4, <1>5, <1>6, <2>4, <2>5 DEF Settled, a
  <1>7. CASE ~class.pieces
    <2>1. c \in Containers /\ class.overly \in Nat \ {0} /\ AllButLastFull(c, class.overly) /\ Packed(c)
      BY <1>7 DEF ContainersOf, Classes, Settled
    <2>2. AllButLastFull(AddToStacks(c, e.id, e.count, class.overly, class.newSlot).cont, class.overly)
      <3>1. e.id \in ItemIds \cup {NoItem} /\ e.count \in Nat
        BY <1>7 DEF Stacks
      <3> QED
        BY <2>1, <3>1, StaysFull
    <2>3. AllButLastFull(a, class.overly)
      BY <1>7, <2>2 DEF AddEntry
    <2> HIDE DEF a
    <2> QED
      BY <1>4, <1>5, <1>7, <2>3 DEF Settled, a
  <1> QED
    BY <1>6, <1>7

\* So looks a container that was reloaded.
LEMMA RefillSettles ==
  ASSUME NEW class \in Classes, NEW entries \in Entries(MAX_BAG_SIZE),
         \A k \in 1 .. MAX_BAG_SIZE : class.pieces \/ entries[k].count \in Nat,
         NEW f, Refills(f, MAX_BAG_SIZE, entries, class)
  PROVE  Settled(class, f[MAX_BAG_SIZE], MAX_BAG_SIZE)
  <1> DEFINE P(k) == Settled(class, f[k], k) /\ Occupied(f[k]) \subseteq 0 .. k - 1
             T == {k \in 0 .. MAX_BAG_SIZE : P(k)}
  <1>1. 0 \in T
    <2>1. f[0] = EmptyContainer /\ Occupied(EmptyContainer) = {}
      BY EmptyContainerTypes DEF Refills
    <2>2. P(0)
      BY <2>1 DEF Settled, Packed, AllButLastFull
    <2> QED
      BY <2>2, ContainerAssumption
  <1>2. ASSUME NEW k \in 0 .. MAX_BAG_SIZE - 1, k \in T PROVE k + 1 \in T
    <2>1. k \in SlotIds /\ k + 1 \in 1 .. MAX_BAG_SIZE /\ k \in 0 .. MAX_BAG_SIZE /\ (k + 1) - 1 = k
      BY ContainerAssumption DEF SlotIds
    <2>2. /\ f[k] \in ContainersOf(class) /\ f[k + 1] = AddEntry(class, f[k], entries[k + 1])
          /\ entries[k + 1] \in Stacks
      BY <2>1 DEF Refills, Entries
    <2>3. Settled(class, f[k], k) /\ Occupied(f[k]) \subseteq 0 .. k - 1
      BY <1>2
    <2>4. P(k + 1)
      BY <2>1, <2>2, <2>3, EntrySettles
    <2> QED
      BY <2>1, <2>4
  <1>3. P(MAX_BAG_SIZE)
    <2> HIDE DEF T, P
    <2>1. \A k \in 0 .. MAX_BAG_SIZE : k \in T
      BY <1>1, <1>2, UpTo, ContainerAssumption
    <2> QED
      BY <2>1, ContainerAssumption DEF T
  <1> QED
    BY <1>3

\* Full stacks, like no stacks, take nothing.
LEMMA NothingFits ==
  ASSUME NEW c \in Containers, NEW id \in ItemIds \cup {NoItem}, NEW cnt \in Nat,
         NEW overly \in Nat \ {0}, \A i \in Holding(c, id) : c[i].count = overly
  PROVE  StacksFilled(c, id, cnt, overly) = c /\ LeftBefore(c, id, cnt, overly)[MAX_BAG_SIZE] = cnt
  <1> DEFINE left == LeftBefore(c, id, cnt, overly)
             H == Holding(c, id)
             T == {k \in 0 .. MAX_BAG_SIZE : left[k] = cnt}
  <1>1. /\ left[0] = cnt
        /\ \A i \in SlotIds : left[i + 1] = IF Tops(c, id, i, left[i])
                                              THEN Leftover(c[i].count, left[i], overly)
                                              ELSE left[i]
    <2>1. PassedOn(left, c, id, cnt, overly)
      BY LeftIsDefined
    <2> QED
      BY <2>1 DEF PassedOn
  <1>2. \A i, m : Tops(c, id, i, m) => i \in H /\ c[i].count = overly
    BY DEF Tops
  <1>3. Leftover(overly, cnt, overly) = cnt /\ Stacked(overly, cnt, overly) = overly
    BY DEF Leftover, Stacked
  <1>4. \A k \in 0 .. MAX_BAG_SIZE : left[k] = cnt
    <2> HIDE DEF left, H
    <2>1. 0 \in T
      BY <1>1, ContainerAssumption
    <2>2. ASSUME NEW k \in 0 .. MAX_BAG_SIZE - 1, k \in T PROVE k + 1 \in T
      <3>1. k \in SlotIds /\ k + 1 \in 0 .. MAX_BAG_SIZE /\ left[k] = cnt
        BY <2>2, ContainerAssumption DEF SlotIds
      <3>2. left[k + 1] = cnt
        BY <3>1, <1>1, <1>2, <1>3
      <3> QED
        BY <3>1, <3>2
    <2> HIDE DEF T
    <2>3. \A k \in 0 .. MAX_BAG_SIZE : k \in T
      BY <2>1, <2>2, UpTo, ContainerAssumption
    <2> QED
      BY <2>3 DEF T
  <1>5. ASSUME NEW i \in SlotIds, Tops(c, id, i, left[i])
        PROVE  [id |-> id, count |-> Stacked(c[i].count, left[i], overly)] = c[i]
    <2>1. left[i] = cnt
      BY <1>4, ContainerAssumption DEF SlotIds
    <2>2. c[i] \in Stacks /\ c[i].id = id
      BY <1>2, <1>5, SlotTypes DEF Holding
    <2>3. Stacked(c[i].count, left[i], overly) = c[i].count
      BY <1>2, <1>3, <1>5, <2>1
    <2> HIDE DEF left
    <2> QED
      BY <2>2, <2>3 DEF Stacks
  <1>6. StacksFilled(c, id, cnt, overly) = [i \in SlotIds |-> c[i]]
    BY <1>5 DEF StacksFilled
  <1>7. left[MAX_BAG_SIZE] = cnt
    BY <1>4, ContainerAssumption
  <1> QED
    BY <1>6, <1>7 DEF Containers

\* The first k slots of a container.
First(c, k) == [i \in SlotIds |-> IF i < k THEN c[i] ELSE Null]

\* The next entry of a settled container goes where it was.
LEMMA EntryComesBack ==
  ASSUME NEW class \in Classes, NEW c \in ContainersOf(class), Settled(class, c, MAX_BAG_SIZE),
         class.pieces \/ Proper(c), NEW k \in SlotIds
  PROVE  AddEntry(class, First(c, k), ContainerEntries(c)[k + 1]) = First(c, k + 1)
  <1> DEFINE g == First(c, k)
             e == ContainerEntries(c)[k + 1]
             j == Min(FreeSlots(g))
  <1>1. c \in Containers /\ k \in Nat /\ k + 1 \in 1 .. MAX_BAG_SIZE
    BY ContainerAssumption DEF ContainersOf, Pieces, SlotIds
  <1>2. /\ e \in Stacks
        /\ e = IF c[k] = Null THEN [id |-> NoItem, count |-> 0] ELSE c[k]
    BY <1>1, EntriesOfContainer DEF Entries
  <1>3. \A i \in SlotIds : g[i] = IF i < k THEN c[i] ELSE Null
    BY DEF First
  <1>4. g \in ContainersOf(class) /\ Occupied(g) = {i \in Occupied(c) : i < k}
    <2>1. g \in Containers
      BY <1>1 DEF First, Containers
    <2>2. Occupied(g) = {i \in Occupied(c) : i < k}
      BY <1>3 DEF Occupied
    <2>3. \A i \in Occupied(g) : g[i] = c[i]
      BY <1>3, <2>2 DEF Occupied
    <2> HIDE DEF g
    <2> QED
      BY <1>1, <2>1, <2>2, <2>3 DEF ContainersOf, Pieces
  <1>5. CASE c[k] = Null
    <2>1. ~class.pieces
      <3>1. k \in 0 .. MAX_BAG_SIZE - 1 /\ k \notin Occupied(c)
        BY <1>5 DEF Occupied, SlotIds
      <3> QED
        BY <3>1 DEF Settled
    <2>2. First(c, k + 1) = g
      BY <1>1, <1>5 DEF First, SlotIds
    <2> HIDE DEF g, e
    <2>3. g \in Containers /\ e.id \in ItemIds \cup {NoItem} /\ e.count = 0 /\ class.overly \in Nat \ {0}
      BY <1>2, <1>4, <1>5, <2>1 DEF ContainersOf, Classes
    <2>4. /\ StacksFilled(g, e.id, e.count, class.overly) = g
          /\ LeftBefore(g, e.id, e.count, class.overly)[MAX_BAG_SIZE] = e.count
      <3>1. Holding(g, e.id) = {}
        <4>1. \A i \in Occupied(c) : c[i].id # NoItem
          BY <2>1 DEF Proper
        <4>2. e.id = NoItem
          BY <1>2, <1>5
        <4>3. \A i \in Occupied(g) : i \in Occupied(c) /\ g[i] = c[i]
          BY <1>3, <1>4 DEF Occupied
        <4> QED
          BY <4>1, <4>2, <4>3 DEF Holding
      <3> QED
        BY <2>3, <3>1, NothingFits
    <2>5. AddToStacks(g, e.id, e.count, class.overly, class.newSlot).cont = g
      BY <2>3, <2>4 DEF AddToStacks
    <2> QED
      BY <2>1, <2>2, <2>5 DEF AddEntry, g, e
  <1>6. CASE c[k] # Null
    <2>1. k \in Occupied(c) /\ c[k] \in Stacks /\ e = c[k]
      BY <1>1, <1>2, <1>6 DEF Occupied, Containers
    <2>2. FreeSlots(g) = {i \in SlotIds : i >= k}
      <3>1. \A i \in SlotIds : i < k => i \in Occupied(c)
        BY <1>1, <2>1 DEF Settled, Packed, SlotIds
      <3> HIDE DEF g
      <3> QED
        BY <1>1, <1>4, <3>1 DEF FreeSlots, SlotIds
    <2>3. j = k
      <3>1. FreeSlots(g) \in SUBSET Nat /\ k \in FreeSlots(g)
        BY <1>1, <2>2 DEF SlotIds
      <3>2. j \in FreeSlots(g) /\ \A y \in FreeSlots(g) : j <= y
        BY <3>1, MinIsLowest
      <3> HIDE DEF j
      <3>3. j <= k /\ j >= k /\ j \in Int
        BY <3>1, <3>2, <2>2 DEF SlotIds
      <3> QED
        BY <1>1, <3>3
    <2>4. AddEntry(class, g, e) = [g EXCEPT ![k] = c[k]]
      <3>1. CASE class.pieces
        <4>1. c[k].count = 1
          BY <2>1, <3>1 DEF ContainersOf, Pieces
        <4>2. [id |-> e.id, count |-> 1] = c[k]
          BY <2>1, <4>1 DEF Stacks
        <4>3. FreeSlots(g) # {}
          BY <1>1, <2>2
        <4> HIDE DEF g, e
        <4>4. EquipAddItem(g, e.id).cont = [g EXCEPT ![j] = [id |-> e.id, count |-> 1]]
          BY <4>3 DEF EquipAddItem
        <4> QED
          BY <2>3, <3>1, <4>2, <4>4 DEF AddEntry
      <3>2. CASE ~class.pieces
        <4>1. g \in Containers /\ class.overly \in Nat \ {0} /\ AllButLastFull(c, class.overly)
          BY <1>4, <3>2 DEF ContainersOf, Classes, Settled
        <4>2. \A i \in Holding(g, e.id) : g[i].count = class.overly
          <5> SUFFICES ASSUME NEW i \in Holding(g, e.id) PROVE g[i].count = class.overly
            OBVIOUS
          <5>1. i \in Occupied(g) /\ g[i].id = c[k].id
            BY <2>1 DEF Holding
          <5>2. i \in Occupied(c) /\ i < k /\ g[i] = c[i]
            BY <1>3, <1>4, <5>1 DEF Occupied
          <5> HIDE DEF g
          <5> QED
            BY <2>1, <4>1, <5>1, <5>2 DEF AllButLastFull
        <4>3. e.id \in ItemIds \cup {NoItem} /\ e.count \in Nat \ {0}
          BY <2>1, <3>2 DEF Stacks, Proper
        <4> HIDE DEF g, e
        <4>4. /\ StacksFilled(g, e.id, e.count, class.overly) = g
              /\ LeftBefore(g, e.id, e.count, class.overly)[MAX_BAG_SIZE] = e.count
          BY <4>1, <4>2, <4>3, NothingFits
        <4>5. FreeSlots(g) # {}
          BY <1>1, <2>2
        <4>6. AddToStacks(g, e.id, e.count, class.overly, class.newSlot).cont
                = [g EXCEPT ![j] = [id |-> e.id, count |-> e.count]]
          BY <4>3, <4>4, <4>5 DEF AddToStacks
        <4>7. [id |-> e.id, count |-> e.count] = c[k]
          BY <2>1 DEF Stacks
        <4> QED
          BY <2>3, <3>2, <4>6, <4>7 DEF AddEntry
      <3> QED
        BY <3>1, <3>2
    <2>5. [g EXCEPT ![k] = c[k]] = First(c, k + 1)
      <3>1. \A i \in SlotIds : i < k + 1 <=> i < k \/ i = k
        BY <1>1 DEF SlotIds
      <3> QED
        BY <3>1 DEF First
    <2> QED
      BY <2>4, <2>5
  <1> QED
    BY <1>5, <1>6

\* A settled container comes back as it was.
LEMMA SettledComesBack ==
  ASSUME NEW class \in Classes, NEW c \in ContainersOf(class), Settled(class, c, MAX_BAG_SIZE),
         class.pieces \/ Proper(c), NEW f, Refills(f, MAX_BAG_SIZE, ContainerEntries(c), class)
  PROVE  f[MAX_BAG_SIZE] = c
  <1> DEFINE T == {k \in 0 .. MAX_BAG_SIZE : f[k] = First(c, k)}
  <1>1. c \in Containers
    BY DEF ContainersOf, Pieces
  <1>2. 0 \in T
    <2>1. \A i \in SlotIds : ~(i < 0)
      BY DEF SlotIds
    <2>2. f[0] = First(c, 0)
      BY <2>1 DEF Refills, First, EmptyContainer
    <2> QED
      BY <2>2, ContainerAssumption
  <1>3. ASSUME NEW k \in 0 .. MAX_BAG_SIZE - 1, k \in T PROVE k + 1 \in T
    <2>1. k \in SlotIds /\ k + 1 \in 1 .. MAX_BAG_SIZE /\ (k + 1) - 1 = k
      BY ContainerAssumption DEF SlotIds
    <2>2. f[k + 1] = AddEntry(class, First(c, k), ContainerEntries(c)[k + 1])
      BY <2>1, <1>3 DEF Refills
    <2>3. f[k + 1] = First(c, k + 1)
      BY <2>1, <2>2, EntryComesBack
    <2> QED
      BY <2>1, <2>3
  <1>4. f[MAX_BAG_SIZE] = First(c, MAX_BAG_SIZE)
    <2> HIDE DEF T
    <2>1. \A k \in 0 .. MAX_BAG_SIZE : k \in T
      BY <1>2, <1>3, UpTo, ContainerAssumption
    <2> QED
      BY <2>1, ContainerAssumption DEF T
  <1>5. First(c, MAX_BAG_SIZE) = [i \in SlotIds |-> c[i]]
    BY ContainerAssumption DEF First, SlotIds
  <1> QED
    BY <1>1, <1>4, <1>5 DEF Containers

\* Such an add leaves only stacks that hold something.
LEMMA AddStaysProper ==
  ASSUME NEW c \in Containers, Proper(c), NEW id \in ItemIds \cup {NoItem}, NEW cnt \in Nat,
         id = NoItem => cnt = 0, NEW overly \in Nat \ {0}, NEW newSlot
  PROVE  Proper(AddToStacks(c, id, cnt, overly, newSlot).cont)
  <1> DEFINE full == AddToStacks(c, id, cnt, overly, newSlot)
             d == StacksFilled(c, id, cnt, overly)
             left == LeftBefore(c, id, cnt, overly)
             rest == left[MAX_BAG_SIZE]
             j == Min(FreeSlots(c))
             s == [id |-> id, count |-> rest]
  <1>1. CASE id = NoItem
    <2>1. Holding(c, id) = {}
      BY <1>1 DEF Holding, Proper
    <2>2. d = c /\ rest = 0
      BY <1>1, <2>1, NothingFits
    <2>3. full.cont = c
      BY <2>2 DEF AddToStacks
    <2> QED
      BY <2>3
  <1>2. CASE id # NoItem
    <2>1. PassedOn(left, c, id, cnt, overly) /\ left \in [0 .. MAX_BAG_SIZE -> Nat]
      BY LeftIsDefined DEF PassedOn
    <2>2. /\ d \in Containers /\ Occupied(d) = Occupied(c)
          /\ \A o : Holding(d, o) = Holding(c, o)
          /\ \A i \in SlotIds \ Holding(c, id) : d[i] = c[i]
      <3>1. FillsOnly(d, c, id, overly, rest)
        BY FilledSlots
      <3> QED
        BY <3>1 DEF FillsOnly
    <2>3. \A i \in SlotIds : d[i] = IF Tops(c, id, i, left[i])
                                     THEN [id |-> id, count |-> Stacked(c[i].count, left[i], overly)]
                                     ELSE c[i]
      BY DEF StacksFilled
    <2>4. \/ full.cont = d
          \/ /\ rest # 0 /\ j \in SlotIds \ Occupied(d)
             /\ full.cont = [d EXCEPT ![j] = s]
      <3>1. Ends(full, d, rest, c, id, cnt, newSlot)
        BY AddEnds
      <3> QED
        BY <3>1 DEF Ends
    <2>5. rest \in Nat
      BY <2>1, ContainerAssumption
    <2> HIDE DEF full, d, left, j
    <2>6. Proper(d)
      <3> SUFFICES ASSUME NEW i \in Occupied(d) PROVE d[i].count > 0 /\ d[i].id # NoItem
        BY DEF Proper
      <3>1. /\ i \in SlotIds /\ c[i].count > 0 /\ c[i].id # NoItem /\ c[i].count \in Int
            /\ left[i] \in Nat
        <4>1. i \in Occupied(c)
          BY <2>2
        <4>2. i \in SlotIds /\ c[i] \in Stacks
          BY <4>1, SlotTypes
        <4>3. left[i] \in Nat
          BY <2>1, <4>2, ContainerAssumption DEF SlotIds
        <4> QED
          BY <4>1, <4>2, <4>3 DEF Proper, Stacks
      <3>2. CASE Tops(c, id, i, left[i])
        <4> DEFINE x == Stacked(c[i].count, left[i], overly)
        <4>1. x > 0
          BY <3>1 DEF Stacked
        <4> HIDE DEF x
        <4>2. d[i] = [id |-> id, count |-> x]
          BY <2>3, <3>1, <3>2 DEF x
        <4> QED
          BY <1>2, <4>1, <4>2
      <3>3. CASE ~Tops(c, id, i, left[i])
        BY <2>3, <3>1, <3>3
      <3> QED
        BY <3>2, <3>3
    <2>7. CASE full.cont = d
      BY <2>6, <2>7 DEF full
    <2>8. CASE /\ rest # 0 /\ j \in SlotIds \ Occupied(d)
               /\ full.cont = [d EXCEPT ![j] = s]
      <3>1. s.count > 0 /\ s.id # NoItem
        BY <1>2, <2>5, <2>8
      <3> HIDE DEF s
      <3>2. \A i \in Occupied(full.cont) : \/ i \in Occupied(d) /\ full.cont[i] = d[i]
                                           \/ full.cont[i] = s
        BY <2>2, <2>8 DEF Occupied, Containers
      <3> QED
        BY <2>6, <3>1, <3>2 DEF Proper, full
    <2> QED
      BY <2>4, <2>7, <2>8
  <1> QED
    BY <1>1, <1>2

\* What is filled with such entries holds something in every stack.
LEMMA RefillStaysProper ==
  ASSUME NEW class \in Classes, ~class.pieces, NEW n \in Nat, NEW entries \in Entries(n),
         \A k \in 1 .. n : ProperEntry(entries[k]),
         NEW f, Refills(f, n, entries, class)
  PROVE  Proper(f[n])
  <1> DEFINE T == {k \in 0 .. n : Proper(f[k])}
  <1>1. 0 \in T
    <2>1. f[0] = EmptyContainer /\ Occupied(EmptyContainer) = {}
      BY EmptyContainerTypes DEF Refills
    <2> QED
      BY <2>1 DEF Proper
  <1>2. ASSUME NEW k \in 0 .. n - 1, k \in T PROVE k + 1 \in T
    <2> DEFINE g == f[k]
               e == entries[k + 1]
    <2>1. k + 1 \in 1 .. n /\ k + 1 \in 0 .. n /\ (k + 1) - 1 = k /\ k \in 0 .. n
      OBVIOUS
    <2>2. g \in ContainersOf(class) /\ f[k + 1] = AddEntry(class, g, e) /\ Proper(g)
      BY <1>2, <2>1 DEF Refills
    <2>3. e \in Stacks /\ ProperEntry(e)
      BY <2>1 DEF Entries
    <2> HIDE DEF g, e
    <2>4. /\ g \in Containers /\ class.overly \in Nat \ {0}
          /\ e.id \in ItemIds \cup {NoItem} /\ e.count \in Nat /\ (e.id = NoItem => e.count = 0)
          /\ f[k + 1] = AddToStacks(g, e.id, e.count, class.overly, class.newSlot).cont
      BY <2>2, <2>3 DEF AddEntry, ContainersOf, Classes, Stacks, ProperEntry
    <2>5. Proper(f[k + 1])
      BY <2>2, <2>4, AddStaysProper
    <2> QED
      BY <2>1, <2>5
  <1>3. \A k \in 0 .. n : k \in T
    <2> HIDE DEF T
    <2> QED
      BY <1>1, <1>2, UpTo
  <1> QED
    BY <1>3

\* The entries of a container whose stacks hold something.
LEMMA ProperEntries ==
  ASSUME NEW c \in Containers, Proper(c), NEW k \in 1 .. MAX_BAG_SIZE
  PROVE  ProperEntry(ContainerEntries(c)[k])
  <1>1. k - 1 \in SlotIds /\ (k - 1) + 1 = k
    BY ContainerAssumption DEF SlotIds
  <1>2. ContainerEntries(c)[k] = IF c[k - 1] = Null THEN [id |-> NoItem, count |-> 0] ELSE c[k - 1]
    BY <1>1, EntriesOfContainer
  <1>3. c[k - 1] # Null => /\ c[k - 1] \in Stacks
                           /\ c[k - 1].count > 0 /\ c[k - 1].id # NoItem
    BY <1>1 DEF Containers, Proper, Occupied
  <1> QED
    BY <1>2, <1>3 DEF ProperEntry, Stacks

\* What is read from the entries of any message is a container of its class.
LEMMA RestoreTypes ==
  ASSUME NEW n \in Nat, NEW entries \in Entries(n)
  PROVE  /\ RestoreBag(entries) \in Containers
         /\ RestoreCurrency(entries) \in Containers
         /\ RestoreEquipment(entries) \in Pieces
  <1>1. \A f, class : Refills(f, n, entries, class) => f[n] \in ContainersOf(class)
    BY DEF Refills
  <1>2. RestoreBag(entries) \in ContainersOf(BagClass)
    BY <1>1, RestoreBagRefills
  <1>3. RestoreCurrency(entries) \in ContainersOf(CurrencyClass)
    BY <1>1, RestoreCurrencyRefills
  <1>4. RestoreEquipment(entries) \in ContainersOf(EquipClass)
    BY <1>1, RestoreEquipmentRefills
  <1> QED
    BY <1>2, <1>3, <1>4 DEF ContainersOf, BagClass, CurrencyClass, EquipClass

\* What a save and a reload make of a container c: r has as many of every item.
\* If there is something in every stack, that stays so, and r is settled; with
\* pieces it always is.
Reloads(class, r, c) ==
  /\ r \in ContainersOf(class)
  /\ \A id \in ItemIds : Total(r, id) = Total(c, id)
  /\ class.pieces \/ Proper(c) => Settled(class, r, MAX_BAG_SIZE)
  /\ ~class.pieces /\ Proper(c) => Proper(r)
LEMMA RefillReloads ==
  ASSUME NEW class \in Classes, NEW c \in ContainersOf(class),
         NEW f, Refills(f, MAX_BAG_SIZE, ContainerEntries(c), class)
  PROVE  Reloads(class, f[MAX_BAG_SIZE], c)
  <1> DEFINE E == ContainerEntries(c)
             N == MAX_BAG_SIZE
  <1>1. c \in Containers /\ N \in Nat
    BY ContainerAssumption DEF ContainersOf, Pieces
  <1>2. E \in Entries(N)
    BY <1>1, EntriesOfContainer
  <1>3. f[N] \in ContainersOf(class)
    BY <1>1 DEF Refills
  <1>4. \A id \in ItemIds : Total(f[N], id) = Total(c, id)
    BY RefillKeepsTotals
  <1>5. Proper(c) => \A k \in 1 .. N : ProperEntry(E[k])
    BY <1>1, ProperEntries
  <1>6. ASSUME class.pieces \/ Proper(c) PROVE Settled(class, f[N], N)
    <2>1. \A k \in 1 .. N : class.pieces \/ E[k].count \in Nat
      BY <1>5, <1>6 DEF ProperEntry
    <2> QED
      BY <1>2, <2>1, RefillSettles
  <1>7. ASSUME ~class.pieces, Proper(c) PROVE Proper(f[N])
    BY <1>1, <1>2, <1>5, <1>7, RefillStaysProper
  <1> QED
    BY <1>3, <1>4, <1>6, <1>7 DEF Reloads

\* A reload of each class; a second one changes nothing.
LEMMA BagReloads ==
  ASSUME NEW c \in Containers
  PROVE  LET r == RestoreBag(ContainerEntries(c)) IN
           Reloads(BagClass, r, c) /\ (Proper(c) => RestoreBag(ContainerEntries(r)) = r)
  <1> DEFINE r == RestoreBag(ContainerEntries(c))
  <1>1. \A d : d \in Containers <=> d \in ContainersOf(BagClass)
    BY DEF ContainersOf, BagClass
  <1>2. \A d \in Containers : \E f : /\ Refills(f, MAX_BAG_SIZE, ContainerEntries(d), BagClass)
                                     /\ RestoreBag(ContainerEntries(d)) = f[MAX_BAG_SIZE]
    BY EntriesOfContainer, RestoreBagRefills, ContainerAssumption
  <1>3. Reloads(BagClass, r, c)
    BY <1>1, <1>2, RefillReloads, ClassTypes
  <1> HIDE DEF r
  <1>4. ASSUME Proper(c) PROVE RestoreBag(ContainerEntries(r)) = r
    <2>1. r \in Containers /\ Settled(BagClass, r, MAX_BAG_SIZE) /\ Proper(r)
      BY <1>1, <1>3, <1>4 DEF Reloads, BagClass
    <2> QED
      BY <1>1, <1>2, <2>1, SettledComesBack, ClassTypes
  <1> QED
    BY <1>3, <1>4 DEF r

LEMMA CurrencyReloads ==
  ASSUME NEW c \in Containers
  PROVE  LET r == RestoreCurrency(ContainerEntries(c)) IN
           Reloads(CurrencyClass, r, c) /\ (Proper(c) => RestoreCurrency(ContainerEntries(r)) = r)
  <1> DEFINE r == RestoreCurrency(ContainerEntries(c))
  <1>1. \A d : d \in Containers <=> d \in ContainersOf(CurrencyClass)
    BY DEF ContainersOf, CurrencyClass
  <1>2. \A d \in Containers : \E f : /\ Refills(f, MAX_BAG_SIZE, ContainerEntries(d), CurrencyClass)
                                     /\ RestoreCurrency(ContainerEntries(d)) = f[MAX_BAG_SIZE]
    BY EntriesOfContainer, RestoreCurrencyRefills, ContainerAssumption
  <1>3. Reloads(CurrencyClass, r, c)
    BY <1>1, <1>2, RefillReloads, ClassTypes
  <1> HIDE DEF r
  <1>4. ASSUME Proper(c) PROVE RestoreCurrency(ContainerEntries(r)) = r
    <2>1. r \in Containers /\ Settled(CurrencyClass, r, MAX_BAG_SIZE) /\ Proper(r)
      BY <1>1, <1>3, <1>4 DEF Reloads, CurrencyClass
    <2> QED
      BY <1>1, <1>2, <2>1, SettledComesBack, ClassTypes
  <1> QED
    BY <1>3, <1>4 DEF r

LEMMA EquipmentReloads ==
  ASSUME NEW c \in Pieces
  PROVE  LET r == RestoreEquipment(ContainerEntries(c)) IN
           Reloads(EquipClass, r, c) /\ RestoreEquipment(ContainerEntries(r)) = r
  <1> DEFINE r == RestoreEquipment(ContainerEntries(c))
  <1>1. \A d : d \in Pieces <=> d \in ContainersOf(EquipClass)
    BY DEF ContainersOf, EquipClass
  <1>2. \A d \in Pieces : \E f : /\ Refills(f, MAX_BAG_SIZE, ContainerEntries(d), EquipClass)
                                 /\ RestoreEquipment(ContainerEntries(d)) = f[MAX_BAG_SIZE]
    BY EntriesOfContainer, RestoreEquipmentRefills, ContainerAssumption DEF Pieces
  <1>3. Reloads(EquipClass, r, c)
    BY <1>1, <1>2, RefillReloads, ClassTypes
  <1> HIDE DEF r
  <1>4. RestoreEquipment(ContainerEntries(r)) = r
    <2>1. r \in Pieces /\ Settled(EquipClass, r, MAX_BAG_SIZE) /\ EquipClass.pieces
      BY <1>1, <1>3 DEF Reloads, EquipClass
    <2> QED
      BY <1>1, <1>2, <2>1, SettledComesBack, ClassTypes
  <1> QED
    BY <1>3, <1>4 DEF r
=============================================================================
