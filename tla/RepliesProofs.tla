---------------------------- MODULE RepliesProofs ----------------------------
(***************************************************************************)
(* Which answers fit into the buffer, for any numbers, items, containers,  *)
(* and lists; and that the size a message is given is the number of bytes  *)
(* it is written to.  A size is a sum over the elements of a message; the  *)
(* sums are folds, whose equations come first.                             *)
(***************************************************************************)
EXTENDS Replies, WellFoundedInduction, TLAPS

-----------------------------------------------------------------------------
(* Sums over sequences. *)

\* A nonempty set of naturals has a lowest element.
LEMMA LowestExists ==
  ASSUME NEW S \in SUBSET Nat, S # {}
  PROVE  \E x \in S : \A y \in S : x <= y
  <1> DEFINE R == OpToRel(<, Nat)
  <1>1. PICK x \in S : \A y \in S : ~(<<y, x>> \in R)
    <2>1. IsWellFoundedOn(R, Nat)
      BY NatLessThanWellFounded
    <2> HIDE DEF R
    <2> QED
      BY <2>1, WFMin
  <1>2. \A y \in S : ~(y < x)
    BY <1>1 DEF OpToRel
  <1> QED
    BY <1>2

\* Induction up to n, on a set.
LEMMA UpTo ==
  ASSUME NEW n \in Nat, NEW T, 0 \in T, \A k \in 0 .. n - 1 : k \in T => k + 1 \in T
  PROVE  \A k \in 0 .. n : k \in T
  <1> DEFINE S == {k \in 0 .. n : k \notin T}
  <1> SUFFICES ASSUME S # {} PROVE FALSE
    OBVIOUS
  <1>1. PICK m \in S : \A y \in S : m <= y
    <2>1. S \in SUBSET Nat
      OBVIOUS
    <2> HIDE DEF S
    <2> QED
      BY <2>1, LowestExists
  <1>2. m \in 1 .. n /\ m - 1 \notin S
    BY <1>1
  <1>3. m - 1 \in T
    BY <1>2
  <1> QED
    BY <1>1, <1>2, <1>3

\* The highest of some places, which a fold from the left takes last.
LEMMA MaxIsHighest ==
  ASSUME NEW n \in Nat, NEW S \in SUBSET (1 .. n), S # {}
  PROVE  Max(S) \in S /\ \A y \in S : Max(S) >= y
  <1> DEFINE Down == {n - y : y \in S}
  <1>1. PICK d \in Down : \A e \in Down : d <= e
    <2>1. \A y \in S : n - y \in Nat
      OBVIOUS
    <2>2. Down \in SUBSET Nat /\ Down # {}
      BY <2>1
    <2> HIDE DEF Down
    <2> QED
      BY <2>2, LowestExists
  <1>2. PICK x \in S : d = n - x
    BY <1>1
  <1>3. ASSUME NEW y \in S PROVE x >= y
    <2>1. n - x <= n - y
      BY <1>1, <1>2
    <2> QED
      BY <2>1
  <1> QED
    BY <1>3 DEF Max

LEMMA MaxOfFirst ==
  ASSUME NEW k \in Nat \ {0}
  PROVE  Max(1 .. k) = k /\ (1 .. k) \ {k} = 1 .. k - 1
  <1>1. k \in 1 .. k /\ 1 .. k \in SUBSET (1 .. k)
    OBVIOUS
  <1>2. Max(1 .. k) \in 1 .. k /\ \A y \in 1 .. k : Max(1 .. k) >= y
    BY <1>1, MaxIsHighest
  <1> QED
    BY <1>1, <1>2

\* The fold that adds up the numbers w of n places.
Adding(t, n, w) ==
  t = [S \in SUBSET (1 .. n) |-> IF S = {} THEN 0 ELSE t[S \ {Max(S)}] + w[Max(S)]]

LEMMA AddingExists ==
  ASSUME NEW n \in Nat, NEW w
  PROVE  \E t : Adding(t, n, w)
  <1> DEFINE P(m) == \E t : Adding(t, m, w)
             T == {m \in 0 .. n : P(m)}
  <1>1. 0 \in T
    <2> DEFINE t == [S \in SUBSET (1 .. 0) |-> 0]
    <2>1. SUBSET (1 .. 0) = {{}}
      OBVIOUS
    <2>2. Adding(t, 0, w)
      BY <2>1 DEF Adding
    <2> HIDE DEF t
    <2> QED
      BY <2>2
  <1>2. ASSUME NEW m \in 0 .. n - 1, m \in T PROVE m + 1 \in T
    <2>1. PICK t : Adding(t, m, w)
      BY <1>2
    <2> DEFINE u == [S \in SUBSET (1 .. m + 1) |->
                       IF m + 1 \in S THEN t[S \ {m + 1}] + w[m + 1] ELSE t[S]]
    <2>2. ASSUME NEW S \in SUBSET (1 .. m + 1)
          PROVE  u[S] = IF S = {} THEN 0 ELSE u[S \ {Max(S)}] + w[Max(S)]
      <3>1. CASE m + 1 \in S
        <4>1. Max(S) = m + 1
          <5>1. Max(S) \in S /\ \A y \in S : Max(S) >= y
            <6>1. m + 1 \in Nat /\ S # {}
              BY <3>1
            <6> QED
              BY <6>1, MaxIsHighest
          <5> DEFINE x == Max(S)
          <5>2. x \in 1 .. m + 1 /\ x >= m + 1
            BY <5>1, <3>1
          <5> HIDE DEF x
          <5>3. x = m + 1
            BY <5>2
          <5> QED
            BY <5>3 DEF x
        <4> QED
          BY <3>1, <4>1
      <3>2. CASE m + 1 \notin S
        <4>1. S \in SUBSET (1 .. m) /\ u[S] = t[S]
          BY <3>2
        <4>2. u[S \ {Max(S)}] = t[S \ {Max(S)}]
          BY <3>2
        <4>3. t[S] = IF S = {} THEN 0 ELSE t[S \ {Max(S)}] + w[Max(S)]
          BY <2>1, <4>1 DEF Adding
        <4> QED
          BY <4>1, <4>2, <4>3
      <3> QED
        BY <3>1, <3>2
    <2>3. u = [S \in SUBSET (1 .. m + 1) |-> u[S]]
      OBVIOUS
    <2> HIDE DEF u
    <2>4. Adding(u, m + 1, w)
      BY <2>2, <2>3 DEF Adding
    <2> QED
      BY <2>4
  <1> HIDE DEF P
  <1>3. n \in T
    <2> HIDE DEF T
    <2> QED
      BY <1>1, <1>2, UpTo
  <1> QED
    BY <1>3 DEF P

\* x is the sum of the numbers w of n places.
Runs(f, n, w) == f \in [0 .. n -> Nat] /\ f[0] = 0 /\ \A k \in 1 .. n : f[k] = f[k - 1] + w[k]
SumsTo(x, n, w) == \E f : Runs(f, n, w) /\ x = f[n]

LEMMA AddingSums ==
  ASSUME NEW n \in Nat, NEW w \in [1 .. n -> Nat], NEW t, Adding(t, n, w)
  PROVE  SumsTo(t[1 .. n], n, w)
  <1> DEFINE f == [k \in 0 .. n |-> t[1 .. k]]
             T == {k \in 0 .. n : f[k] \in Nat}
  <1>1. f[0] = 0
    <2>1. 1 .. 0 = {}
      OBVIOUS
    <2> QED
      BY <2>1 DEF Adding
  <1>2. ASSUME NEW k \in 1 .. n PROVE f[k] = f[k - 1] + w[k]
    <2>1. Max(1 .. k) = k /\ (1 .. k) \ {k} = 1 .. k - 1
      BY MaxOfFirst
    <2>2. 1 .. k \in SUBSET (1 .. n) /\ 1 .. k # {}
      OBVIOUS
    <2>3. t[1 .. k] = t[(1 .. k) \ {Max(1 .. k)}] + w[Max(1 .. k)]
      BY <2>2 DEF Adding
    <2>4. f[k] = t[1 .. k] /\ f[k - 1] = t[1 .. k - 1]
      OBVIOUS
    <2> HIDE DEF f
    <2> QED
      BY <2>1, <2>3, <2>4
  <1>3. f = [k \in 0 .. n |-> f[k]] /\ f[n] = t[1 .. n]
    OBVIOUS
  <1> HIDE DEF f
  <1>4. 0 \in T
    BY <1>1
  <1>5. ASSUME NEW k \in 0 .. n - 1, k \in T PROVE k + 1 \in T
    <2>1. f[k + 1] = f[k] + w[k + 1] /\ w[k + 1] \in Nat /\ f[k] \in Nat
      BY <1>2, <1>5
    <2> QED
      BY <2>1
  <1>6. \A k \in 0 .. n : k \in T
    <2> HIDE DEF T
    <2> QED
      BY <1>4, <1>5, UpTo
  <1>7. Runs(f, n, w)
    BY <1>1, <1>2, <1>3, <1>6 DEF Runs
  <1> QED
    BY <1>3, <1>7 DEF SumsTo

LEMMA SumSums ==
  ASSUME NEW n \in Nat, NEW w \in [1 .. n -> Nat]
  PROVE  SumsTo(Sum(w), n, w)
  <1> DEFINE Step(f) == [S \in SUBSET DOMAIN w |->
               IF S = {} THEN 0 ELSE f[S \ {Max(S)}] + w[Max(S)]]
             t == CHOOSE f : f = Step(f)
  <1>1. Sum(w) = t[DOMAIN w]
    BY DEF Sum, FoldLeft, MapThenFoldSet
  <1>2. \A f : f = Step(f) <=> Adding(f, n, w)
    BY DEF Adding
  <1>3. t = CHOOSE f : Adding(f, n, w)
    <2> HIDE DEF Step
    <2> QED
      BY <1>2
  <1> HIDE DEF t
  <1>4. Adding(t, n, w)
    BY <1>3, AddingExists
  <1> QED
    BY <1>1, <1>4, AddingSums

\* A sum of n numbers is at least n times the least of them.
LEMMA SumAtLeast ==
  ASSUME NEW n \in Nat, NEW w, NEW x, SumsTo(x, n, w), NEW low \in Nat,
         \A k \in 1 .. n : w[k] \in Nat /\ w[k] >= low
  PROVE  x \in Nat /\ x >= low * n
  <1>1. PICK f : Runs(f, n, w) /\ x = f[n]
    BY DEF SumsTo
  <1> DEFINE T == {k \in 0 .. n : f[k] >= low * k}
  <1>2. 0 \in T
    BY <1>1 DEF Runs
  <1>3. ASSUME NEW k \in 0 .. n - 1, k \in T PROVE k + 1 \in T
    <2> DEFINE a == low * k
    <2>1. a \in Nat /\ low * (k + 1) = a + low
      OBVIOUS
    <2>2. f[k] \in Nat /\ f[k] >= a /\ w[k + 1] \in Nat /\ w[k + 1] >= low
          /\ f[k + 1] = f[k] + w[k + 1]
      BY <1>1, <1>3 DEF Runs
    <2> HIDE DEF a
    <2>3. f[k + 1] >= a + low
      BY <2>1, <2>2
    <2> QED
      BY <2>1, <2>3
  <1>4. n \in T
    <2> HIDE DEF T
    <2> QED
      BY <1>2, <1>3, UpTo
  <1> QED
    BY <1>1, <1>4 DEF Runs

\* A sum of n numbers is at most n times the largest of them.
LEMMA SumAtMost ==
  ASSUME NEW n \in Nat, NEW w, NEW x, SumsTo(x, n, w), NEW high \in Nat,
         \A k \in 1 .. n : w[k] \in 0 .. high
  PROVE  x \in 0 .. high * n
  <1>1. PICK f : Runs(f, n, w) /\ x = f[n]
    BY DEF SumsTo
  <1> DEFINE T == {k \in 0 .. n : f[k] <= high * k}
  <1>2. 0 \in T
    BY <1>1 DEF Runs
  <1>3. ASSUME NEW k \in 0 .. n - 1, k \in T PROVE k + 1 \in T
    <2> DEFINE a == high * k
    <2>1. a \in Nat /\ high * (k + 1) = a + high
      OBVIOUS
    <2>2. f[k] \in Nat /\ f[k] <= a /\ w[k + 1] \in 0 .. high /\ f[k + 1] = f[k] + w[k + 1]
      BY <1>1, <1>3 DEF Runs
    <2> HIDE DEF a
    <2>3. f[k + 1] <= a + high
      BY <2>1, <2>2
    <2> QED
      BY <2>1, <2>3
  <1>4. n \in T
    <2> HIDE DEF T
    <2> QED
      BY <1>2, <1>3, UpTo
  <1> QED
    BY <1>1, <1>4 DEF Runs

-----------------------------------------------------------------------------
(* Sizes of numbers, texts and entries. *)

LEMMA NumberSizes ==
  /\ \A n \in Nat : VarintSize32(n) \in 1 .. 5 /\ (n < 16384 => VarintSize32(n) <= 2)
                    /\ (n < 128 => VarintSize32(n) = 1)
  /\ \A v \in Int : Int32Size(v) \in 1 .. 10 /\ IntSize(v) \in 0 .. 11
  BY SMT DEF VarintSize32, Int32Size, IntSize

\* Numbers whose size is known.
LEMMA KnownSizes ==
  /\ IntSize(0) = 0 /\ IntSize(-1) = 11
  /\ \A v \in Int \ {0} : IntSize(v) >= 2
  /\ IntSize(MAX_ITEM_CURRENCYOVERLY) = 6
  BY SMT, SizesAssumption DEF VarintSize32, Int32Size, IntSize

\* A message without unknown fields has no bytes for them.
LEMMA NothingUnknown == UnknownSize(<<>>) = 0
  <1> DEFINE w == [k \in DOMAIN <<>> |-> FieldBytes(<<>>[k], Bytes3(<<>>[k].msg))]
  <1>1. UnknownSize(<<>>) = Sum(w)
    BY DEF UnknownSize, Bytes, SumOver
  <1>2. w \in [1 .. 0 -> Nat]
    OBVIOUS
  <1> HIDE DEF w
  <1>3. SumsTo(Sum(w), 0, w)
    BY <1>2, SumSums
  <1> QED
    BY <1>1, <1>3 DEF SumsTo, Runs

\* What a slot is sent as, and the bytes it takes at least.
LEMMA EntrySizes ==
  ASSUME NEW item \in {Null} \cup Stacks
  PROVE  /\ BagEntry(item) \in BagItems
         /\ BagItemSize(BagEntry(item)) \in Nat /\ BagItemSize(BagEntry(item)) >= 2
         /\ EquipEntry(item) \in EquipItems
         /\ EquipItemSize(EquipEntry(item)) \in Nat /\ EquipItemSize(EquipEntry(item)) >= 8
         /\ CurrencyEntry(item) \in CurrencyItems
         /\ CurrencyItemSize(CurrencyEntry(item)) \in Nat
         /\ CurrencyItemSize(CurrencyEntry(item)) >= 6
  <1> USE NothingUnknown DEF Stacks
  <1>1. BoolSize(0) = 0 /\ MAX_ITEM_BAGOVERLY \in Int \ {0} /\ MAX_ITEM_CURRENCYOVERLY \in Int
    BY SMT, SizesAssumption DEF BoolSize
  <1>2. CASE item = Null
    <2>1. BagEntry(item) = [itemid |-> -1, typeid |-> 0, count |-> 0, overly |-> 0,
                            binded |-> 0, unknown |-> <<>>]
      BY <1>2 DEF BagEntry, BagItemDefault
    <2>2. EquipEntry(item) = [itemid |-> -1, typeid |-> 0, count |-> 0, overly |-> 0,
                              binded |-> 0, attack |-> 0, durability |-> 0, unknown |-> <<>>]
      BY <1>2 DEF EquipEntry, EquipItemDefault
    <2>3. CurrencyEntry(item) = [itemid |-> -1, typeid |-> 0, count |-> 0, overly |-> 0,
                                 unknown |-> <<>>]
      BY <1>2 DEF CurrencyEntry, CurrencyItemDefault
    <2>4. BagItemSize(BagEntry(item)) = 11
      BY <2>1, <1>1, KnownSizes DEF BagItemSize
    <2>5. EquipItemSize(EquipEntry(item)) = 11
      BY <2>2, <1>1, KnownSizes DEF EquipItemSize
    <2>6. CurrencyItemSize(CurrencyEntry(item)) = 11
      BY <2>3, KnownSizes DEF CurrencyItemSize
    <2>7. BagEntry(item) \in BagItems /\ EquipEntry(item) \in EquipItems
          /\ CurrencyEntry(item) \in CurrencyItems
      BY <2>1, <2>2, <2>3 DEF BagItems, EquipItems, CurrencyItems
    <2> QED
      BY <2>4, <2>5, <2>6, <2>7
  <1>3. CASE item # Null
    <2> item \in Stacks
      BY <1>3
    <2>1. BagEntry(item) = [itemid |-> item.id, typeid |-> item.type, count |-> item.count,
                            overly |-> MAX_ITEM_BAGOVERLY, binded |-> 0, unknown |-> <<>>]
      BY <1>3 DEF BagEntry, BagItemDefault
    <2>2. EquipEntry(item) = [itemid |-> item.id, typeid |-> item.type, count |-> 1,
                              overly |-> 1, binded |-> 0, attack |-> 90,
                              durability |-> 100, unknown |-> <<>>]
      BY <1>3 DEF EquipEntry, EquipItemDefault
    <2>3. CurrencyEntry(item) = [itemid |-> item.id, typeid |-> item.type,
                                 count |-> item.count, overly |-> MAX_ITEM_CURRENCYOVERLY,
                                 unknown |-> <<>>]
      BY <1>3 DEF CurrencyEntry, CurrencyItemDefault
    <2>4. IntSize(item.id) \in Nat /\ IntSize(item.type) \in Nat /\ IntSize(item.count) \in Nat
      BY NumberSizes
    <2>5. BagItemSize(BagEntry(item)) \in Nat /\ BagItemSize(BagEntry(item)) >= 2
      <3>1. IntSize(MAX_ITEM_BAGOVERLY) \in Nat /\ IntSize(MAX_ITEM_BAGOVERLY) >= 2
        BY <1>1, NumberSizes, KnownSizes
      <3> QED
        BY <2>1, <2>4, <3>1, <1>1 DEF BagItemSize
    <2>6. EquipItemSize(EquipEntry(item)) \in Nat /\ EquipItemSize(EquipEntry(item)) >= 8
      <3>1. IntSize(1) \in Nat /\ IntSize(1) >= 2 /\ IntSize(90) \in Nat /\ IntSize(90) >= 2
            /\ IntSize(100) \in Nat /\ IntSize(100) >= 2
        BY NumberSizes, KnownSizes
      <3> QED
        BY <2>2, <2>4, <3>1, <1>1 DEF EquipItemSize
    <2>7. CurrencyItemSize(CurrencyEntry(item)) \in Nat
          /\ CurrencyItemSize(CurrencyEntry(item)) >= 6
      BY <2>3, <2>4, KnownSizes DEF CurrencyItemSize
    <2>8. BagEntry(item) \in BagItems /\ EquipEntry(item) \in EquipItems
          /\ CurrencyEntry(item) \in CurrencyItems
      BY <1>1, <2>1, <2>2, <2>3 DEF BagItems, EquipItems, CurrencyItems
    <2> QED
      BY <2>5, <2>6, <2>7, <2>8
  <1> QED
    BY <1>2, <1>3

-----------------------------------------------------------------------------
(* Sizes of lists. *)

\* What a sequence of messages or values takes at least, or at most.
LEMMA BagSum ==
  ASSUME NEW s \in [SlotIds -> BagItems],
         \A i \in SlotIds : BagItemSize(s[i]) \in Nat /\ BagItemSize(s[i]) >= 2
  PROVE  /\ MessagesSize(s, BagItemSize) \in Nat
         /\ MessagesSize(s, BagItemSize) >= 4 * MAX_BAG_SIZE
  <1> DEFINE w == [i \in DOMAIN s |-> LengthDelimitedSize(BagItemSize(s[i]))]
  <1>1. MessagesSize(s, BagItemSize) = Len(s) + Sum(w)
    BY DEF MessagesSize, SumOver
  <1>2. MAX_BAG_SIZE \in Nat /\ SlotIds = 1 .. MAX_BAG_SIZE
        /\ DOMAIN s = SlotIds /\ Len(s) = MAX_BAG_SIZE
    BY RepliesAssumption DEF SlotIds
  <1>3. \A i \in SlotIds : w[i] \in Nat /\ w[i] >= 3
    BY NumberSizes DEF LengthDelimitedSize
  <1>4. w \in [1 .. MAX_BAG_SIZE -> Nat]
    BY <1>2, <1>3
  <1> HIDE DEF w
  <1>5. Sum(w) \in Nat /\ Sum(w) >= 3 * MAX_BAG_SIZE
    BY <1>2, <1>3, <1>4, SumSums, SumAtLeast
  <1> QED
    BY <1>1, <1>2, <1>5

LEMMA EquipSum ==
  ASSUME NEW s \in [SlotIds -> EquipItems],
         \A i \in SlotIds : EquipItemSize(s[i]) \in Nat /\ EquipItemSize(s[i]) >= 8
  PROVE  /\ MessagesSize(s, EquipItemSize) \in Nat
         /\ MessagesSize(s, EquipItemSize) >= 10 * MAX_BAG_SIZE
  <1> DEFINE w == [i \in DOMAIN s |-> LengthDelimitedSize(EquipItemSize(s[i]))]
  <1>1. MessagesSize(s, EquipItemSize) = Len(s) + Sum(w)
    BY DEF MessagesSize, SumOver
  <1>2. MAX_BAG_SIZE \in Nat /\ SlotIds = 1 .. MAX_BAG_SIZE
        /\ DOMAIN s = SlotIds /\ Len(s) = MAX_BAG_SIZE
    BY RepliesAssumption DEF SlotIds
  <1>3. \A i \in SlotIds : w[i] \in Nat /\ w[i] >= 9
    BY NumberSizes DEF LengthDelimitedSize
  <1>4. w \in [1 .. MAX_BAG_SIZE -> Nat]
    BY <1>2, <1>3
  <1> HIDE DEF w
  <1>5. Sum(w) \in Nat /\ Sum(w) >= 9 * MAX_BAG_SIZE
    BY <1>2, <1>3, <1>4, SumSums, SumAtLeast
  <1> QED
    BY <1>1, <1>2, <1>5

LEMMA CurrencySum ==
  ASSUME NEW s \in [SlotIds -> CurrencyItems],
         \A i \in SlotIds : CurrencyItemSize(s[i]) \in Nat /\ CurrencyItemSize(s[i]) >= 6
  PROVE  /\ MessagesSize(s, CurrencyItemSize) \in Nat
         /\ MessagesSize(s, CurrencyItemSize) >= 8 * MAX_BAG_SIZE
  <1> DEFINE w == [i \in DOMAIN s |-> LengthDelimitedSize(CurrencyItemSize(s[i]))]
  <1>1. MessagesSize(s, CurrencyItemSize) = Len(s) + Sum(w)
    BY DEF MessagesSize, SumOver
  <1>2. MAX_BAG_SIZE \in Nat /\ SlotIds = 1 .. MAX_BAG_SIZE
        /\ DOMAIN s = SlotIds /\ Len(s) = MAX_BAG_SIZE
    BY RepliesAssumption DEF SlotIds
  <1>3. \A i \in SlotIds : w[i] \in Nat /\ w[i] >= 7
    BY NumberSizes DEF LengthDelimitedSize
  <1>4. w \in [1 .. MAX_BAG_SIZE -> Nat]
    BY <1>2, <1>3
  <1> HIDE DEF w
  <1>5. Sum(w) \in Nat /\ Sum(w) >= 7 * MAX_BAG_SIZE
    BY <1>2, <1>3, <1>4, SumSums, SumAtLeast
  <1> QED
    BY <1>1, <1>2, <1>5

\* Names of at most 18 characters take at most 20 bytes each.
LEMMA NamesSum ==
  ASSUME NEW n \in Nat, NEW s \in [1 .. n -> {x \in Strings : StrLen[x] <= 18}]
  PROVE  TextsSize(s) \in 0 .. 20 * n
  <1> DEFINE w == [i \in DOMAIN s |-> StringSize(s[i])]
  <1>1. TextsSize(s) = Len(s) + Sum(w)
    BY DEF TextsSize, SumOver
  <1>2. DOMAIN s = 1 .. n /\ Len(s) = n
    OBVIOUS
  <1>3. \A i \in 1 .. n : w[i] \in 0 .. 19
    <2> TAKE i \in 1 .. n
    <2>1. s[i] \in Strings /\ StrLen[s[i]] <= 18
      OBVIOUS
    <2> DEFINE x == s[i]
    <2> HIDE DEF x
    <2>2. StrLen[x] \in 0 .. 18
      <3>1. StrLen[x] \in Nat
        BY <2>1, WireAssumption DEF x
      <3>2. StrLen[x] <= 18
        BY <2>1 DEF x
      <3>3. \A y \in Nat : y <= 18 => y \in 0 .. 18
        OBVIOUS
      <3> QED
        BY <3>1, <3>2, <3>3
    <2>3. VarintSize32(StrLen[x]) = 1
      BY <2>2, NumberSizes
    <2> QED
      BY <2>2, <2>3 DEF StringSize, LengthDelimitedSize, x
  <1>4. w \in [1 .. n -> Nat]
    BY <1>3
  <1> HIDE DEF w
  <1>5. Sum(w) \in 0 .. 19 * n
    BY <1>3, <1>4, SumSums, SumAtMost
  <1> QED
    BY <1>1, <1>2, <1>5

\* A packed field of n numbers: at most ten bytes each, and the tag and length
\* of the field, three bytes if there are not too many.
LEMMA NumbersSum ==
  ASSUME NEW n \in Nat, n <= 1638, NEW V \in SUBSET Int, NEW s \in [1 .. n -> V]
  PROVE  PackedSize(s) \in 0 .. 10 * n + 3
  <1> DEFINE w == [i \in DOMAIN s |-> Int32Size(s[i])]
             size == Sum(w)
  <1>1. PackedSize(s) = IF size = 0 THEN 0 ELSE 1 + Int32Size(size) + size
    BY DEF PackedSize, SumOver
  <1>2. \A i \in 1 .. n : w[i] \in 0 .. 10
    <2> TAKE i \in 1 .. n
    <2>1. s[i] \in Int
      OBVIOUS
    <2>2. \A v \in Int : Int32Size(v) \in 1 .. 10
      BY NumberSizes
    <2>3. Int32Size(s[i]) \in 1 .. 10
      BY <2>1, <2>2, Zenon
    <2> QED
      BY <2>3
  <1>3. w \in [1 .. n -> Nat]
    BY <1>2
  <1> HIDE DEF w
  <1>4. size \in 0 .. 10 * n
    BY <1>2, <1>3, SumSums, SumAtMost
  <1>5. Int32Size(size) \in 1 .. 2
    BY <1>4, NumberSizes DEF Int32Size
  <1> HIDE DEF size
  <1> QED
    BY <1>1, <1>4, <1>5

-----------------------------------------------------------------------------
(* The answers. *)

Entities == [bag : Containers, equipment : Containers, currency : Containers,
             name : Strings, exp : Int]

\* The bags of a player, empty or not: 22 bytes for a slot of each container.
LEMMA BagInfoTooLarge ==
  ASSUME NEW e \in Entities
  PROVE  /\ GetBagInfo(e) \in BagInfos
         /\ BagInfoSize(GetBagInfo(e)) \in Nat
         /\ BagInfoSize(GetBagInfo(e)) >= 22 * MAX_BAG_SIZE
  <1> DEFINE b == [i \in SlotIds |-> BagEntry(e.bag[i])]
             q == [i \in SlotIds |-> EquipEntry(e.equipment[i])]
             c == [i \in SlotIds |-> CurrencyEntry(e.currency[i])]
  <1>1. \A i \in SlotIds : e.bag[i] \in {Null} \cup Stacks /\ e.equipment[i] \in {Null} \cup Stacks
                           /\ e.currency[i] \in {Null} \cup Stacks
    BY DEF Entities, Containers
  <1>2. /\ b \in [SlotIds -> BagItems]
        /\ \A i \in SlotIds : BagItemSize(b[i]) \in Nat /\ BagItemSize(b[i]) >= 2
    BY <1>1, EntrySizes
  <1>3. /\ q \in [SlotIds -> EquipItems]
        /\ \A i \in SlotIds : EquipItemSize(q[i]) \in Nat /\ EquipItemSize(q[i]) >= 8
    BY <1>1, EntrySizes
  <1>4. /\ c \in [SlotIds -> CurrencyItems]
        /\ \A i \in SlotIds : CurrencyItemSize(c[i]) \in Nat /\ CurrencyItemSize(c[i]) >= 6
    BY <1>1, EntrySizes
  <1>5. GetBagInfo(e) = [bag |-> b, equipment |-> q, currency |-> c, unknown |-> <<>>]
    <2>1. GetBagInfo(e) = [BagInfoDefault EXCEPT !.bag = b, !.equipment = q, !.currency = c]
      BY DEF GetBagInfo
    <2> HIDE DEF b, q, c
    <2> QED
      BY <2>1 DEF BagInfoDefault
  <1> HIDE DEF b, q, c
  <1>6. GetBagInfo(e) \in BagInfos
    BY <1>2, <1>3, <1>4, <1>5 DEF BagInfos
  <1> DEFINE x == MessagesSize(b, BagItemSize)
             y == MessagesSize(q, EquipItemSize)
             z == MessagesSize(c, CurrencyItemSize)
  <1>7. BagInfoSize(GetBagInfo(e)) = 0 + x + y + z
    BY <1>5, NothingUnknown DEF BagInfoSize
  <1>8. x \in Nat /\ x >= 4 * MAX_BAG_SIZE
    BY <1>2, BagSum
  <1>9. y \in Nat /\ y >= 10 * MAX_BAG_SIZE
    BY <1>3, EquipSum
  <1>10. z \in Nat /\ z >= 8 * MAX_BAG_SIZE
    BY <1>4, CurrencySum
  <1> HIDE DEF x, y, z
  <1> QED
    BY <1>6, <1>7, <1>8, <1>9, <1>10, RepliesAssumption

\* An answer to a login is larger than the buffer, whatever the player has.
LEMMA LoginTooLarge ==
  ASSUME NEW e \in Entities, NEW p \in Int
  PROVE  CtlMsgLoginRspSize([CtlMsgLoginRspDefault EXCEPT !.player = GetPlayerInfo(p, e)])
           > BUFFER_SIZE
  <1> DEFINE b == GetBagInfo(e)
             m == GetPlayerInfo(p, e)
             size == BagInfoSize(b)
             r == [CtlMsgLoginRspDefault EXCEPT !.player = m]
  <1>1. b \in BagInfos /\ size \in Nat /\ size >= 22 * MAX_BAG_SIZE
    BY BagInfoTooLarge
  <1>2. e.name \in Strings /\ e.exp \in Int
    BY DEF Entities
  <1>3. m = [id |-> p, name |-> e.name, rank |-> e.exp, exp |-> 0, bags |-> b, unknown |-> <<>>]
    <2> DEFINE name == e.name
               exp == e.exp
    <2>1. m = [PlayersDefault EXCEPT !.id = p, !.name = name, !.rank = exp, !.bags = b]
      BY DEF GetPlayerInfo
    <2> HIDE DEF b, m, name, exp
    <2>2. m = [id |-> p, name |-> name, rank |-> exp, exp |-> 0, bags |-> b, unknown |-> <<>>]
      BY <2>1 DEF PlayersDefault
    <2> QED
      BY <2>2 DEF name, exp
  <1> HIDE DEF b, m
  <1>4. m \in PlayerInfos
    BY <1>1, <1>2, <1>3 DEF PlayerInfos
  <1>5. b # Null /\ m # Null
    BY <1>1, <1>4, NullAssumption
  <1>6. TextSize(m.name) \in Nat
    <2>1. StrLen[e.name] \in Nat
      BY <1>2, WireAssumption
    <2> QED
      BY <1>3, <2>1, NumberSizes DEF TextSize, StringSize, LengthDelimitedSize
  <1>7. MessageSize(m.bags, BagInfoSize) = 1 + LengthDelimitedSize(size)
    BY <1>3, <1>5 DEF MessageSize
  <1> HIDE DEF size
  <1>8. LengthDelimitedSize(size) \in Nat /\ LengthDelimitedSize(size) >= size
    BY <1>1, NumberSizes DEF LengthDelimitedSize
  <1>9. IntSize(m.id) \in Nat /\ IntSize(m.rank) \in Nat /\ IntSize(m.exp) \in Nat
    BY <1>2, <1>3, NumberSizes
  <1>10. PlayersSize(m) \in Nat /\ PlayersSize(m) >= size
    <2>1. PlayersSize(m) = UnknownSize(m.unknown) + TextSize(m.name)
             + MessageSize(m.bags, BagInfoSize) + IntSize(m.id) + IntSize(m.rank) + IntSize(m.exp)
      BY DEF PlayersSize
    <2>2. UnknownSize(m.unknown) = 0
      BY <1>3, NothingUnknown
    <2> QED
      BY <1>1, <1>6, <1>7, <1>8, <1>9, <2>1, <2>2
  <1>11. LengthDelimitedSize(PlayersSize(m)) \in Nat
         /\ LengthDelimitedSize(PlayersSize(m)) >= PlayersSize(m)
    BY <1>10, NumberSizes DEF LengthDelimitedSize
  <1>12. CtlMsgLoginRspSize(r) = 0 + (1 + LengthDelimitedSize(PlayersSize(m))) + 0
    <2>1. r.player = m /\ r.errcode = 0 /\ r.unknown = <<>>
      BY DEF CtlMsgLoginRspDefault
    <2> HIDE DEF r
    <2> QED
      BY <2>1, <1>5, NothingUnknown, KnownSizes DEF CtlMsgLoginRspSize, MessageSize
  <1> HIDE DEF r
  <1>13. BUFFER_SIZE < 22 * MAX_BAG_SIZE /\ BUFFER_SIZE \in Int /\ 22 * MAX_BAG_SIZE \in Int
    BY SMT, SizesAssumption, RepliesAssumption
  <1> QED
    BY <1>1, <1>10, <1>11, <1>12, <1>13 DEF r, m

\* Answers that carry an error code, and the requests sent on.
LEMMA CodesFit ==
  ASSUME NEW code \in Int
  PROVE  /\ AddItemRspSize([AddItemRspDefault EXCEPT !.errcode = code]) \in 0 .. 66
         /\ RemoveItemRspSize([RemoveItemRspDefault EXCEPT !.errcode = code]) \in 0 .. 66
         /\ CtlMsgLoginRspSize([CtlMsgLoginRspDefault EXCEPT !.errcode = code]) \in 0 .. 66
  <1>1. IntSize(code) \in 0 .. 11
    BY NumberSizes
  <1>2. AddItemRspSize([AddItemRspDefault EXCEPT !.errcode = code]) = 0 + IntSize(code)
    BY NothingUnknown DEF AddItemRspSize, AddItemRspDefault
  <1>3. RemoveItemRspSize([RemoveItemRspDefault EXCEPT !.errcode = code]) = 0 + IntSize(code)
    BY NothingUnknown DEF RemoveItemRspSize, RemoveItemRspDefault
  <1>4. CtlMsgLoginRspSize([CtlMsgLoginRspDefault EXCEPT !.errcode = code])
          = 0 + 0 + IntSize(code)
    BY NothingUnknown DEF CtlMsgLoginRspSize, CtlMsgLoginRspDefault, MessageSize
  <1> QED
    BY <1>1, <1>2, <1>3, <1>4

LEMMA RequestsFit ==
  ASSUME NEW v \in Int, NEW p \in Int
  PROVE  /\ MSG_PLAYER_REGISTER_Size([x |-> v, z |-> v, ry |-> v, speed |-> v,
              professsional |-> v, playerid |-> p, unknown |-> <<>>]) \in 0 .. 66
         /\ MSG_PLAYER_MOVE_Size([x |-> v, z |-> v, ry |-> v, playerid |-> p, state |-> v,
              unknown |-> <<>>]) \in 0 .. 66
  <1>1. IntSize(v) \in 0 .. 11 /\ IntSize(p) \in 0 .. 11
    BY NumberSizes
  <1>2. MSG_PLAYER_REGISTER_Size([x |-> v, z |-> v, ry |-> v, speed |-> v,
          professsional |-> v, playerid |-> p, unknown |-> <<>>])
          = 0 + IntSize(v) + IntSize(v) + IntSize(v) + IntSize(v) + IntSize(v) + IntSize(p)
    BY NothingUnknown DEF MSG_PLAYER_REGISTER_Size
  <1>3. MSG_PLAYER_MOVE_Size([x |-> v, z |-> v, ry |-> v, playerid |-> p, state |-> v,
          unknown |-> <<>>])
          = 0 + IntSize(v) + IntSize(v) + IntSize(v) + IntSize(p) + IntSize(v)
    BY NothingUnknown DEF MSG_PLAYER_MOVE_Size
  <1> DEFINE a == IntSize(v)
             b == IntSize(p)
  <1>4. a \in 0 .. 11 /\ b \in 0 .. 11
    BY <1>1
  <1> HIDE DEF a, b
  <1>5. 0 + a + a + a + a + a + b \in 0 .. 66 /\ 0 + a + a + a + b + a \in 0 .. 66
    BY <1>4
  <1> QED
    BY <1>2, <1>3, <1>5 DEF a, b

\* The answer to GetRankList, and to a request that did not parse.
RankAnswer(list) ==
  [RankRspDefault EXCEPT !.name = [i \in 1 .. list.members |-> list.name],
                         !.exp = [i \in 1 .. list.members |-> list.exp]]
LEMMA RankFits ==
  ASSUME NEW list \in RankLists, list.members <= SafeMembers
  PROVE  RankRspSize(RankAnswer(list)) \in 0 .. BUFFER_SIZE
  <1> DEFINE n == list.members
             names == [i \in 1 .. n |-> list.name]
             exps == [i \in 1 .. n |-> list.exp]
             x == TextsSize(names)
             y == PackedSize(exps)
  <1>1. n \in Nat /\ list.name \in {s \in Strings : StrLen[s] <= 18} /\ list.exp \in Int
    BY RepliesAssumption
  <1>2. BUFFER_SIZE \in 66 .. 16384
    BY SMT, SizesAssumption
  <1>3. n <= 1638 /\ 30 * n + 3 <= BUFFER_SIZE
    <2> HIDE DEF n
    <2>1. n <= SafeMembers
      BY DEF n
    <2> QED
      BY <1>1, <1>2, <2>1 DEF SafeMembers
  <1>4. RankAnswer(list) = [errcode |-> 0, name |-> names, exp |-> exps, unknown |-> <<>>]
    <2>1. RankAnswer(list) = [RankRspDefault EXCEPT !.name = names, !.exp = exps]
      BY DEF RankAnswer
    <2> HIDE DEF names, exps
    <2> QED
      BY <2>1 DEF RankRspDefault
  <1>5. names \in [1 .. n -> {s \in Strings : StrLen[s] <= 18}] /\ exps \in [1 .. n -> Int]
    BY <1>1
  <1> HIDE DEF names, exps, n
  <1>6. x \in 0 .. 20 * n
    BY <1>1, <1>5, NamesSum
  <1>7. y \in 0 .. 10 * n + 3
    BY <1>1, <1>3, <1>5, NumbersSum
  <1>8. RankRspSize(RankAnswer(list)) = 0 + x + y + 0
    BY <1>4, NothingUnknown, KnownSizes DEF RankRspSize
  <1> HIDE DEF x, y
  <1> QED
    BY <1>1, <1>2, <1>3, <1>6, <1>7, <1>8

LEMMA FailedRankFits == RankRspSize([RankRspDefault EXCEPT !.errcode = 5]) \in 0 .. 66
  <1>1. IntSize(5) \in 0 .. 11
    BY NumberSizes
  <1> DEFINE n == 0
             s == <<>>
  <1>2. s \in [1 .. n -> {x \in Strings : StrLen[x] <= 18}] /\ s \in [1 .. n -> Int]
        /\ n \in Nat /\ n <= 1638 /\ Int \in SUBSET Int
    OBVIOUS
  <1> HIDE DEF n, s
  <1>3. TextsSize(s) \in 0 .. 20 * n
    BY <1>2, NamesSum
  <1>4. PackedSize(s) \in 0 .. 10 * n + 3
    BY <1>2, NumbersSum
  <1>5. RankRspSize([RankRspDefault EXCEPT !.errcode = 5])
          = 0 + TextsSize(s) + PackedSize(s) + IntSize(5)
    BY NothingUnknown DEF RankRspSize, RankRspDefault, s
  <1>6. TextsSize(s) = 0 /\ PackedSize(s) \in 0 .. 3
    BY <1>3, <1>4 DEF n
  <1> QED
    BY <1>1, <1>5, <1>6

-----------------------------------------------------------------------------
(* Every broadcast. *)

IInv ==
  /\ entities \in [Pids -> {Null} \cup Entities]
  /\ ShortMessagesFit
  /\ LoginAnswerOverruns

LEMMA InitIInv == Init => IInv
  BY DEF Init, IInv, ShortMessagesFit, LoginAnswerOverruns

\* A message that fits, or one that is allowed not to.
LEMMA ShortBroadCast ==
  ASSUME NEW answers, answers # "login", NEW size \in 0 .. BUFFER_SIZE, NEW declared, NEW members,
         BroadCast(answers, size, declared, members)
  PROVE  ShortMessagesFit' /\ LoginAnswerOverruns'
  <1>1. last' = [answers |-> answers, size |-> size, declared |-> declared, members |-> members]
    BY DEF BroadCast
  <1>2. ~(size > BUFFER_SIZE)
    BY SMT, SizesAssumption
  <1> QED
    BY <1>1, <1>2 DEF ShortMessagesFit, LoginAnswerOverruns

\* A message with fields the server does not know may have any size.
LEMMA UndeclaredBroadCast ==
  ASSUME NEW answers, answers # "login", NEW size, NEW members,
         NEW declared, ~declared, BroadCast(answers, size, declared, members)
  PROVE  ShortMessagesFit' /\ LoginAnswerOverruns'
  <1>1. last' = [answers |-> answers, size |-> size, declared |-> declared, members |-> members]
    BY DEF BroadCast
  <1> QED
    BY <1>1 DEF ShortMessagesFit, LoginAnswerOverruns

LEMMA WithinBuffer == ASSUME NEW size \in 0 .. 66 PROVE size \in 0 .. BUFFER_SIZE
  BY SMT, SizesAssumption

LEMMA ItemAnswersFit ==
  ASSUME NEW p, NEW code \in Int
  PROVE  ItemRspSize(p, code) \in 0 .. BUFFER_SIZE
  <1>1. ItemRspSize(p, code) \in 0 .. 66
    <2> DEFINE size == AddItemRspSize([AddItemRspDefault EXCEPT !.errcode = code])
    <2>1. size \in 0 .. 66
      BY CodesFit
    <2>2. ItemRspSize(p, code) = size
      BY DEF ItemRspSize
    <2> QED
      BY <2>1, <2>2
  <1> QED
    BY <1>1, WithinBuffer

LEMMA Registers ==
  ASSUME NEW row \in [bag : Containers, equipment : Containers, currency : Containers],
         NEW info \in [name : Strings, exp : Int]
  PROVE  Entity(row, info) \in Entities
  BY DEF Entity, Entities

LEMMA BagChanges ==
  ASSUME entities \in [Pids -> {Null} \cup Entities], NEW p \in Pids, entities[p] # Null,
         NEW i \in Touched, NEW item \in {Null} \cup Stacks,
         entities' = [entities EXCEPT ![p].bag[i] = item]
  PROVE  entities' \in [Pids -> {Null} \cup Entities]
  <1> DEFINE e == entities[p]
             bag == [e.bag EXCEPT ![i] = item]
  <1>1. e \in Entities
    OBVIOUS
  <1>2. bag \in Containers
    BY <1>1, RepliesAssumption DEF Entities, Containers
  <1>3. [e EXCEPT !.bag = bag] \in Entities
    <2> HIDE DEF e, bag
    <2> QED
      BY <1>1, <1>2 DEF Entities
  <1>4. entities' = [entities EXCEPT ![p] = [e EXCEPT !.bag = bag]]
    OBVIOUS
  <1> HIDE DEF e, bag
  <1> QED
    BY <1>3, <1>4

LEMMA LoginStep == ASSUME IInv, NEW p \in Pids, PlayerLogin(p) PROVE IInv'
  <1>1. entities' \in [Pids -> {Null} \cup Entities] /\ entities'[p] \in Entities
    <2>1. CASE entities[p] = Null
      <3>1. PICK row \in Rows, info \in Infos :
              entities' = [entities EXCEPT ![p] = Entity(row, info)]
        BY <2>1 DEF PlayerLogin
      <3>2. Entity(row, info) \in Entities
        BY Registers, RepliesAssumption
      <3> QED
        BY <3>1, <3>2 DEF IInv
    <2>2. CASE entities[p] # Null
      BY <2>2 DEF PlayerLogin, IInv
    <2> QED
      BY <2>1, <2>2
  <1> DEFINE size == CtlMsgLoginRspSize([CtlMsgLoginRspDefault EXCEPT
                                           !.player = GetPlayerInfo(p, entities'[p])])
  <1>2. BroadCast("login", size, TRUE, 0)
    BY DEF PlayerLogin
  <1>3. size > BUFFER_SIZE
    BY <1>1, LoginTooLarge, RepliesAssumption
  <1> HIDE DEF size
  <1>4. last'.answers = "login" /\ last'.size = size
    BY <1>2 DEF BroadCast
  <1> QED
    BY <1>1, <1>3, <1>4 DEF IInv, ShortMessagesFit, LoginAnswerOverruns

\* The answer of an item request is an error code, the rest of the state stays typed.
LEMMA AddItemStep == ASSUME IInv, NEW p \in Pids, PlayerAddItem(p) PROVE IInv'
  <1>1. PICK code \in {0, 4} : BroadCast("add", ItemRspSize(p, code), TRUE, 0)
    BY DEF PlayerAddItem
  <1>2. \/ \E i \in Touched, item \in Items : entities' = [entities EXCEPT ![p].bag[i] = item]
        \/ entities' = entities
    BY DEF PlayerAddItem
  <1>3. entities[p] # Null
    BY DEF PlayerAddItem
  <1>4. entities' \in [Pids -> {Null} \cup Entities]
    <2>1. CASE entities' = entities
      BY <2>1 DEF IInv
    <2>2. CASE \E i \in Touched, item \in Items : entities' = [entities EXCEPT ![p].bag[i] = item]
      <3>1. PICK i \in Touched, item \in Items : entities' = [entities EXCEPT ![p].bag[i] = item]
        BY <2>2
      <3>2. item \in {Null} \cup Stacks
        BY RepliesAssumption
      <3> QED
        BY <1>3, <3>1, <3>2, BagChanges DEF IInv
    <2> QED
      BY <1>2, <2>1, <2>2
  <1>5. ItemRspSize(p, code) \in 0 .. BUFFER_SIZE
    BY ItemAnswersFit
  <1>6. ShortMessagesFit' /\ LoginAnswerOverruns'
    BY <1>1, <1>5, ShortBroadCast
  <1> QED
    BY <1>4, <1>6 DEF IInv

LEMMA RemoveItemStep == ASSUME IInv, NEW p \in Pids, PlayerRemoveItem(p) PROVE IInv'
  <1>1. PICK code \in {0, 3} : BroadCast("remove", ItemRspSize(p, code), TRUE, 0)
    BY DEF PlayerRemoveItem
  <1>2. \/ \E i \in Touched : entities' = [entities EXCEPT ![p].bag[i] = Null]
        \/ entities' = entities
    BY DEF PlayerRemoveItem
  <1>3. entities[p] # Null
    BY DEF PlayerRemoveItem
  <1>4. entities' \in [Pids -> {Null} \cup Entities]
    <2>1. CASE entities' = entities
      BY <2>1 DEF IInv
    <2>2. CASE \E i \in Touched : entities' = [entities EXCEPT ![p].bag[i] = Null]
      BY <1>3, <2>2, BagChanges DEF IInv
    <2> QED
      BY <1>2, <2>1, <2>2
  <1>5. ItemRspSize(p, code) \in 0 .. BUFFER_SIZE
    BY ItemAnswersFit
  <1>6. ShortMessagesFit' /\ LoginAnswerOverruns'
    BY <1>1, <1>5, ShortBroadCast
  <1> QED
    BY <1>4, <1>6 DEF IInv

\* A request sent on fits unless it has fields besides the declared ones.
LEMMA RegisterStep == ASSUME IInv, NEW p \in Pids, PlayerRegister(p) PROVE IInv'
  <1>1. entities' \in [Pids -> {Null} \cup Entities]
    <2> DEFINE row == [bag |-> Empty, equipment |-> Empty, currency |-> Empty]
    <2>1. PICK info \in Infos : entities' = [entities EXCEPT ![p] = Entity(row, info)]
      BY DEF PlayerRegister
    <2>2. Empty \in Containers
      BY DEF Empty, Containers
    <2>3. Entity(row, info) \in Entities
      BY <2>2, Registers, RepliesAssumption
    <2> QED
      BY <2>1, <2>3 DEF IInv
  <1>2. PICK v \in Ints, unknown \in Unknowns :
          BroadCast("register",
            MSG_PLAYER_REGISTER_Size([x |-> v, z |-> v, ry |-> v, speed |-> v,
              professsional |-> v, playerid |-> p, unknown |-> unknown]),
            unknown = <<>>, 0)
    BY DEF PlayerRegister
  <1>3. v \in Int /\ p \in Int
    BY WireAssumption, RepliesAssumption
  <1>4. ShortMessagesFit' /\ LoginAnswerOverruns'
    <2>1. CASE unknown = <<>>
      BY <1>2, <1>3, <2>1, RequestsFit, WithinBuffer, ShortBroadCast
    <2>2. CASE unknown # <<>>
      BY <1>2, <2>2, UndeclaredBroadCast
    <2> QED
      BY <2>1, <2>2
  <1> QED
    BY <1>1, <1>4 DEF IInv

LEMMA MoveStep == ASSUME IInv, PlayerMove PROVE IInv'
  <1>1. entities' = entities
    BY DEF PlayerMove
  <1>2. PICK v \in Ints, playerid \in Ints, unknown \in Unknowns :
          BroadCast("move",
            MSG_PLAYER_MOVE_Size([x |-> v, z |-> v, ry |-> v, playerid |-> playerid,
              state |-> v, unknown |-> unknown]),
            unknown = <<>>, 0)
    BY DEF PlayerMove
  <1>3. v \in Int /\ playerid \in Int
    BY WireAssumption
  <1>4. ShortMessagesFit' /\ LoginAnswerOverruns'
    <2>1. CASE unknown = <<>>
      BY <1>2, <1>3, <2>1, RequestsFit, WithinBuffer, ShortBroadCast
    <2>2. CASE unknown # <<>>
      BY <1>2, <2>2, UndeclaredBroadCast
    <2> QED
      BY <2>1, <2>2
  <1> QED
    BY <1>1, <1>4 DEF IInv

\* A list that is not too long fits.
LEMMA RankStep == ASSUME IInv, GetRankList PROVE IInv'
  <1>1. entities' = entities
    BY DEF GetRankList
  <1>2. PICK list \in RankLists :
          BroadCast("rank", RankRspSize(RankAnswer(list)), TRUE, list.members)
    BY DEF GetRankList, RankAnswer
  <1> DEFINE size == RankRspSize(RankAnswer(list))
  <1>3. ShortMessagesFit' /\ LoginAnswerOverruns'
    <2>1. CASE list.members <= SafeMembers
      <3>1. size \in 0 .. BUFFER_SIZE
        BY <2>1, RankFits
      <3> HIDE DEF size
      <3> QED
        BY <1>2, <3>1, ShortBroadCast DEF size
    <2>2. CASE ~(list.members <= SafeMembers)
      <3>1. list.members \in Nat /\ SafeMembers \in Int
        <4>1. BUFFER_SIZE \in Int
          BY SMT, SizesAssumption
        <4> QED
          BY <4>1, RepliesAssumption DEF SafeMembers
      <3>2. list.members > SafeMembers
        BY <2>2, <3>1
      <3> HIDE DEF size
      <3>3. last'.answers = "rank" /\ last'.members = list.members
        BY <1>2 DEF BroadCast, size
      <3>4. SafeMembers' = SafeMembers
        BY DEF SafeMembers
      <3> QED
        BY <3>2, <3>3, <3>4 DEF ShortMessagesFit, LoginAnswerOverruns
    <2> QED
      BY <2>1, <2>2
  <1> QED
    BY <1>1, <1>3 DEF IInv

LEMMA FailedStep == ASSUME IInv, ParseFailed PROVE IInv'
  <1>1. entities' = entities
    BY DEF ParseFailed
  <1>2. PICK size \in {AddItemRspSize([AddItemRspDefault EXCEPT !.errcode = 5]),
                       RemoveItemRspSize([RemoveItemRspDefault EXCEPT !.errcode = 5]),
                       CtlMsgLoginRspSize([CtlMsgLoginRspDefault EXCEPT !.errcode = 5]),
                       RankRspSize([RankRspDefault EXCEPT !.errcode = 5])} :
          BroadCast("failed", size, TRUE, 0)
    BY DEF ParseFailed
  <1>3. size \in 0 .. 66
    BY CodesFit, FailedRankFits
  <1>4. ShortMessagesFit' /\ LoginAnswerOverruns'
    BY <1>2, <1>3, WithinBuffer, ShortBroadCast
  <1> QED
    BY <1>1, <1>4 DEF IInv

LEMMA NextIInv == IInv /\ [Next]_vars => IInv'
  <1> SUFFICES ASSUME IInv, [Next]_vars PROVE IInv'
    OBVIOUS
  <1>1. CASE \E p \in Pids : PlayerLogin(p)
    BY <1>1, LoginStep
  <1>2. CASE \E p \in Pids : PlayerAddItem(p)
    BY <1>2, AddItemStep
  <1>3. CASE \E p \in Pids : PlayerRemoveItem(p)
    BY <1>3, RemoveItemStep
  <1>4. CASE \E p \in Pids : PlayerRegister(p)
    BY <1>4, RegisterStep
  <1>5. CASE PlayerMove
    BY <1>5, MoveStep
  <1>6. CASE GetRankList
    BY <1>6, RankStep
  <1>7. CASE ParseFailed
    BY <1>7, FailedStep
  <1>8. CASE UNCHANGED vars
    BY <1>8 DEF vars, IInv, ShortMessagesFit, LoginAnswerOverruns, SafeMembers
  <1> QED
    BY <1>1, <1>2, <1>3, <1>4, <1>5, <1>6, <1>7, <1>8 DEF Next

(* In every behaviour the containers hold stacks or nothing, and each       *)
(* broadcast is of one of the sizes the next two theorems state.            *)
THEOREM Inductive == Spec => []IInv
  BY InitIInv, NextIInv, PTL DEF Spec

(* SocketServer.cpp:189: whatever ids, counts and experience a message      *)
(* carries, it fits into s_buffer, unless it is the answer to a login, a    *)
(* rank list of more than SafeMembers players, or a request sent on with    *)
(* fields the server does not know.                                         *)
THEOREM ShortMessages == Spec => []ShortMessagesFit
  <1>1. IInv => ShortMessagesFit
    BY DEF IInv
  <1> QED
    BY <1>1, Inductive, PTL

(* BagSystem.cpp:74: the answer to a login is larger than s_buffer for      *)
(* every player, whatever the containers hold, as long as the buffer is     *)
(* shorter than 22 bytes for every slot of a container.                     *)
THEOREM LoginAnswers == Spec => []LoginAnswerOverruns
  <1>1. IInv => LoginAnswerOverruns
    BY DEF IInv
  <1> QED
    BY <1>1, Inductive, PTL

-----------------------------------------------------------------------------
(* ByteSizeLong is exact, for any object of any class.  Sums, one after the *)
(* other, come first.                                                      *)

\* A sum is one number.
LEMMA SumIsOne ==
  ASSUME NEW n \in Nat, NEW w, NEW v, \A k \in 1 .. n : w[k] = v[k],
         NEW x, SumsTo(x, n, w), NEW y, SumsTo(y, n, v)
  PROVE  x = y
  <1>1. PICK f : Runs(f, n, w) /\ x = f[n]
    BY DEF SumsTo
  <1>2. PICK g : Runs(g, n, v) /\ y = g[n]
    BY DEF SumsTo
  <1> DEFINE T == {k \in 0 .. n : f[k] = g[k]}
  <1>3. 0 \in T
    BY <1>1, <1>2 DEF Runs
  <1>4. ASSUME NEW k \in 0 .. n - 1, k \in T PROVE k + 1 \in T
    <2>1. /\ f[k + 1] = f[k] + w[k + 1] /\ g[k + 1] = g[k] + v[k + 1]
          /\ w[k + 1] = v[k + 1]
      BY <1>1, <1>2 DEF Runs
    <2> QED
      BY <1>4, <2>1
  <1>5. n \in T
    <2> HIDE DEF T
    <2> QED
      BY <1>3, <1>4, UpTo
  <1> QED
    BY <1>1, <1>2, <1>5

\* The sum over two sequences, one after the other, is that of their sums.
LEMMA SumsAdd ==
  ASSUME NEW m \in Nat, NEW n \in Nat, NEW u, NEW v, NEW w,
         \A k \in 1 .. m : w[k] = u[k], \A k \in 1 .. n : w[m + k] = v[k] /\ v[k] \in Nat,
         NEW x, SumsTo(x, m, u), NEW y, SumsTo(y, n, v)
  PROVE  SumsTo(x + y, m + n, w)
  <1>1. PICK f : Runs(f, m, u) /\ x = f[m]
    BY DEF SumsTo
  <1>2. PICK g : Runs(g, n, v) /\ y = g[n]
    BY DEF SumsTo
  <1> DEFINE h == [k \in 0 .. m + n |-> IF k <= m THEN f[k] ELSE f[m] + g[k - m]]
  <1>3. \A k \in 0 .. m : h[k] = f[k] /\ f[k] \in Nat
    BY <1>1 DEF Runs
  <1>4. \A k \in 0 .. n : h[m + k] = f[m] + g[k] /\ g[k] \in Nat
    <2> TAKE k \in 0 .. n
    <2>1. g[k] \in Nat /\ g[0] = 0 /\ f[m] \in Nat
      BY <1>1, <1>2 DEF Runs
    <2>2. m + k \in 0 .. m + n /\ (m + k <= m => k = 0) /\ (m + k) - m = k
      OBVIOUS
    <2>3. CASE k = 0
      BY <2>1, <2>2, <2>3
    <2>4. CASE k # 0
      BY <2>1, <2>2, <2>4
    <2> QED
      BY <2>3, <2>4
  <1>5. h = [k \in 0 .. m + n |-> h[k]]
    OBVIOUS
  <1> HIDE DEF h
  <1>6. ASSUME NEW k \in 0 .. m + n PROVE h[k] \in Nat
    <2>1. CASE k <= m
      BY <1>3, <2>1
    <2>2. CASE k > m
      <3>1. k - m \in 0 .. n /\ m + (k - m) = k /\ m \in 0 .. m
        BY <2>2
      <3> QED
        BY <1>3, <1>4, <3>1
    <2> QED
      BY <2>1, <2>2
  <1>7. ASSUME NEW k \in 1 .. m + n PROVE h[k] = h[k - 1] + w[k]
    <2>1. CASE k <= m
      <3>1. k \in 1 .. m /\ k - 1 \in 0 .. m /\ k \in 0 .. m
        BY <2>1
      <3>2. f[k] = f[k - 1] + u[k]
        BY <1>1, <3>1 DEF Runs
      <3> QED
        BY <1>3, <3>1, <3>2
    <2>2. CASE k > m
      <3> DEFINE j == k - m
      <3>1. /\ j \in 1 .. n /\ j - 1 \in 0 .. n /\ j \in 0 .. n /\ m + j = k
            /\ m + (j - 1) = k - 1
        BY <2>2
      <3> HIDE DEF j
      <3>2. g[j] = g[j - 1] + v[j]
        BY <1>2, <3>1 DEF Runs
      <3>3. h[k] = f[m] + g[j] /\ h[k - 1] = f[m] + g[j - 1] /\ w[k] = v[j]
        BY <1>4, <3>1
      <3>4. g[j] \in Nat /\ g[j - 1] \in Nat /\ f[m] \in Nat
        BY <1>3, <1>4, <3>1
      <3>5. v[j] \in Nat
        BY <3>1
      <3> QED
        BY <3>2, <3>3, <3>4, <3>5
    <2> QED
      BY <2>1, <2>2
  <1>8. Runs(h, m + n, w)
    <2>1. h[0] = 0
      BY <1>1, <1>3 DEF Runs
    <2> QED
      BY <1>5, <1>6, <1>7, <2>1 DEF Runs
  <1>9. x + y = h[m + n]
    BY <1>1, <1>2, <1>4
  <1> QED
    BY <1>8, <1>9 DEF SumsTo

-----------------------------------------------------------------------------
(* Bytes of fields. *)

\* Fields that hold no fields, and fields that may hold some of F.  Bytes counts
\* as deep as Deep4.
Flat == [num : Nat, int : Int] \cup [num : Nat, str : Strings] \cup [num : Nat, packed : Seq(Int)]
Nested(F) == Flat \cup [num : Nat, msg : Seq(F)]
Deep1 == Nested(Flat)
Deep2 == Nested(Deep1)
Deep3 == Nested(Deep2)
Deep4 == Nested(Deep3)

\* What each field takes.
Widths(s) == [k \in DOMAIN s |-> FieldBytes(s[k], 0)]
Widths1(s) == [k \in DOMAIN s |-> FieldBytes(s[k], FlatBytes(s[k].msg))]
Widths2(s) == [k \in DOMAIN s |-> FieldBytes(s[k], Bytes1(s[k].msg))]
Widths3(s) == [k \in DOMAIN s |-> FieldBytes(s[k], Bytes2(s[k].msg))]
Widths4(s) == [k \in DOMAIN s |-> FieldBytes(s[k], Bytes3(s[k].msg))]

LEMMA BytesAreSums ==
  ASSUME NEW s
  PROVE  /\ FlatBytes(s) = Sum(Widths(s)) /\ Bytes1(s) = Sum(Widths1(s))
         /\ Bytes2(s) = Sum(Widths2(s)) /\ Bytes3(s) = Sum(Widths3(s))
         /\ Bytes(s) = Sum(Widths4(s))
  <1>1. FlatBytes(s) = Sum(Widths(s))
    BY DEF FlatBytes, SumOver, Widths
  <1>2. Bytes1(s) = Sum(Widths1(s))
    BY DEF Bytes1, SumOver, Widths1
  <1>3. Bytes2(s) = Sum(Widths2(s))
    BY DEF Bytes2, SumOver, Widths2
  <1>4. Bytes3(s) = Sum(Widths3(s))
    BY DEF Bytes3, SumOver, Widths3
  <1>5. Bytes(s) = Sum(Widths4(s))
    BY DEF Bytes, SumOver, Widths4
  <1> QED
    BY <1>1, <1>2, <1>3, <1>4, <1>5

LEMMA SumIsNat ==
  ASSUME NEW n \in Nat, NEW w \in [1 .. n -> Nat]
  PROVE  Sum(w) \in Nat
  <1>1. SumsTo(Sum(w), n, w)
    BY SumSums
  <1> QED
    BY <1>1 DEF SumsTo, Runs

\* Numbers in a packed field.
LEMMA PackedSum ==
  ASSUME NEW vs \in Seq(Int)
  PROVE  SumOver(NumberBytes, vs) \in Nat /\ SumOver(NumberBytes, vs) = SumOver(Int32Size, vs)
         /\ (vs # <<>> => SumOver(NumberBytes, vs) > 0)
  <1> DEFINE w == [k \in DOMAIN vs |-> Int32Size(vs[k])]
  <1>1. \A v \in Int : NumberBytes(v) = Int32Size(v) /\ Int32Size(v) \in 1 .. 10
    BY NumberSizes DEF NumberBytes, Int32Size
  <1>2. SumOver(Int32Size, vs) = Sum(w)
    BY DEF SumOver
  <1>3. SumOver(NumberBytes, vs) = Sum(w)
    <2>1. w = [k \in DOMAIN vs |-> NumberBytes(vs[k])]
      BY <1>1
    <2> QED
      BY <2>1 DEF SumOver
  <1>4. \A k \in 1 .. Len(vs) : w[k] \in Nat /\ w[k] >= 1
    BY <1>1
  <1>5. w \in [1 .. Len(vs) -> Nat] /\ Len(vs) \in Nat /\ (vs # <<>> => Len(vs) > 0)
    <2>1. DOMAIN vs = 1 .. Len(vs) /\ Len(vs) \in Nat /\ (vs # <<>> => Len(vs) > 0)
      OBVIOUS
    <2>2. w = [k \in DOMAIN vs |-> w[k]]
      OBVIOUS
    <2> HIDE DEF w
    <2> QED
      BY <1>4, <2>1, <2>2
  <1> HIDE DEF w
  <1>6. Sum(w) \in Nat /\ Sum(w) >= 1 * Len(vs)
    BY <1>4, <1>5, SumSums, SumAtLeast
  <1> QED
    BY <1>2, <1>3, <1>5, <1>6

LEMMA FlatField ==
  ASSUME NEW t \in Flat, NEW x, NEW y
  PROVE  FieldBytes(t, x) \in Nat /\ FieldBytes(t, x) = FieldBytes(t, y)
  <1>1. CASE t \in [num : Nat, int : Int]
    <2>1. /\ FieldBytes(t, x) = 1 + NumberBytes(t.int)
          /\ FieldBytes(t, y) = 1 + NumberBytes(t.int)
      BY <1>1 DEF FieldBytes
    <2>2. NumberBytes(t.int) \in Nat
      BY <1>1, NumberSizes DEF NumberBytes, Int32Size
    <2> QED
      BY <2>1, <2>2
  <1>2. CASE t \in [num : Nat, str : Strings]
    <2>1. /\ FieldBytes(t, x) = 1 + LengthDelimitedSize(StrLen[t.str])
          /\ FieldBytes(t, y) = 1 + LengthDelimitedSize(StrLen[t.str])
      BY <1>2 DEF FieldBytes
    <2>2. StrLen[t.str] \in Nat
      BY <1>2, WireAssumption
    <2> QED
      BY <2>1, <2>2, NumberSizes DEF LengthDelimitedSize
  <1>3. CASE t \in [num : Nat, packed : Seq(Int)]
    <2>1. /\ FieldBytes(t, x) = 1 + LengthDelimitedSize(SumOver(NumberBytes, t.packed))
          /\ FieldBytes(t, y) = 1 + LengthDelimitedSize(SumOver(NumberBytes, t.packed))
      BY <1>3 DEF FieldBytes
    <2>2. SumOver(NumberBytes, t.packed) \in Nat
      BY <1>3, PackedSum
    <2> QED
      BY <2>1, <2>2, NumberSizes DEF LengthDelimitedSize
  <1> QED
    BY <1>1, <1>2, <1>3 DEF Flat

LEMMA NestedField ==
  ASSUME NEW F, NEW t \in [num : Nat, msg : Seq(F)], NEW x \in Nat
  PROVE  FieldBytes(t, x) = 1 + LengthDelimitedSize(x) /\ FieldBytes(t, x) \in Nat
  BY NumberSizes DEF FieldBytes, LengthDelimitedSize

\* However deep the fields of a sequence go, every count that goes so deep agrees.
LEMMA FlatCounts ==
  ASSUME NEW s \in Seq(Flat)
  PROVE  /\ Bytes1(s) = FlatBytes(s) /\ Bytes2(s) = FlatBytes(s)
         /\ Bytes3(s) = FlatBytes(s) /\ Bytes(s) = FlatBytes(s)
         /\ FlatBytes(s) \in Nat
  <1>1. DOMAIN s = 1 .. Len(s) /\ Len(s) \in Nat /\ \A k \in DOMAIN s : s[k] \in Flat
    OBVIOUS
  <1>2. \A k \in DOMAIN s : \A x : /\ FieldBytes(s[k], x) = FieldBytes(s[k], 0)
                                   /\ FieldBytes(s[k], 0) \in Nat
    BY <1>1, FlatField
  <1>3. Widths1(s) = Widths(s) /\ Widths2(s) = Widths(s) /\ Widths3(s) = Widths(s)
        /\ Widths4(s) = Widths(s)
    BY <1>2 DEF Widths, Widths1, Widths2, Widths3, Widths4
  <1>4. Widths(s) \in [1 .. Len(s) -> Nat]
    BY <1>1, <1>2 DEF Widths
  <1>5. Sum(Widths(s)) \in Nat
    BY <1>1, <1>4, SumIsNat
  <1> QED
    BY <1>3, <1>5, BytesAreSums

LEMMA Counts1 ==
  ASSUME NEW s \in Seq(Deep1)
  PROVE  Bytes2(s) = Bytes1(s) /\ Bytes3(s) = Bytes1(s) /\ Bytes(s) = Bytes1(s) /\ Bytes1(s) \in Nat
  <1>1. DOMAIN s = 1 .. Len(s) /\ Len(s) \in Nat
    OBVIOUS
  <1>2. ASSUME NEW k \in DOMAIN s
        PROVE  FieldBytes(s[k], FlatBytes(s[k].msg)) \in Nat
               /\ FieldBytes(s[k], Bytes1(s[k].msg)) = FieldBytes(s[k], FlatBytes(s[k].msg))
               /\ FieldBytes(s[k], Bytes2(s[k].msg)) = FieldBytes(s[k], FlatBytes(s[k].msg))
               /\ FieldBytes(s[k], Bytes3(s[k].msg)) = FieldBytes(s[k], FlatBytes(s[k].msg))
    <2>1. s[k] \in Flat \/ s[k] \in [num : Nat, msg : Seq(Flat)]
      BY <1>1 DEF Deep1, Nested
    <2>2. CASE s[k] \in Flat
      BY <2>2, FlatField
    <2>3. CASE s[k] \in [num : Nat, msg : Seq(Flat)]
      <3>1. s[k].msg \in Seq(Flat)
        BY <2>3
      <3>2. /\ Bytes1(s[k].msg) = FlatBytes(s[k].msg)
            /\ Bytes2(s[k].msg) = FlatBytes(s[k].msg)
            /\ Bytes3(s[k].msg) = FlatBytes(s[k].msg) /\ FlatBytes(s[k].msg) \in Nat
        BY <3>1, FlatCounts
      <3> QED
        BY <2>3, <3>2, NestedField
    <2> QED
      BY <2>1, <2>2, <2>3
  <1>3. Widths2(s) = Widths1(s) /\ Widths3(s) = Widths1(s) /\ Widths4(s) = Widths1(s)
    BY <1>2 DEF Widths1, Widths2, Widths3, Widths4
  <1>4. Widths1(s) \in [1 .. Len(s) -> Nat]
    BY <1>1, <1>2 DEF Widths1
  <1>5. Sum(Widths1(s)) \in Nat
    BY <1>1, <1>4, SumIsNat
  <1> QED
    BY <1>3, <1>5, BytesAreSums

LEMMA Counts2 ==
  ASSUME NEW s \in Seq(Deep2)
  PROVE  Bytes3(s) = Bytes2(s) /\ Bytes(s) = Bytes2(s) /\ Bytes2(s) \in Nat
  <1>1. DOMAIN s = 1 .. Len(s) /\ Len(s) \in Nat
    OBVIOUS
  <1>2. ASSUME NEW k \in DOMAIN s
        PROVE  FieldBytes(s[k], Bytes1(s[k].msg)) \in Nat
               /\ FieldBytes(s[k], Bytes2(s[k].msg)) = FieldBytes(s[k], Bytes1(s[k].msg))
               /\ FieldBytes(s[k], Bytes3(s[k].msg)) = FieldBytes(s[k], Bytes1(s[k].msg))
    <2>1. s[k] \in Flat \/ s[k] \in [num : Nat, msg : Seq(Deep1)]
      BY <1>1 DEF Deep2, Nested
    <2>2. CASE s[k] \in Flat
      BY <2>2, FlatField
    <2>3. CASE s[k] \in [num : Nat, msg : Seq(Deep1)]
      <3>1. s[k].msg \in Seq(Deep1)
        BY <2>3
      <3>2. /\ Bytes2(s[k].msg) = Bytes1(s[k].msg)
            /\ Bytes3(s[k].msg) = Bytes1(s[k].msg) /\ Bytes1(s[k].msg) \in Nat
        BY <3>1, Counts1
      <3> QED
        BY <2>3, <3>2, NestedField
    <2> QED
      BY <2>1, <2>2, <2>3
  <1>3. Widths3(s) = Widths2(s) /\ Widths4(s) = Widths2(s)
    BY <1>2 DEF Widths2, Widths3, Widths4
  <1>4. Widths2(s) \in [1 .. Len(s) -> Nat]
    BY <1>1, <1>2 DEF Widths2
  <1>5. Sum(Widths2(s)) \in Nat
    BY <1>1, <1>4, SumIsNat
  <1> QED
    BY <1>3, <1>5, BytesAreSums

LEMMA Counts3 ==
  ASSUME NEW s \in Seq(Deep3)
  PROVE  Bytes(s) = Bytes3(s) /\ Bytes3(s) \in Nat
  <1>1. DOMAIN s = 1 .. Len(s) /\ Len(s) \in Nat
    OBVIOUS
  <1>2. ASSUME NEW k \in DOMAIN s
        PROVE  FieldBytes(s[k], Bytes2(s[k].msg)) \in Nat
               /\ FieldBytes(s[k], Bytes3(s[k].msg)) = FieldBytes(s[k], Bytes2(s[k].msg))
    <2>1. s[k] \in Flat \/ s[k] \in [num : Nat, msg : Seq(Deep2)]
      BY <1>1 DEF Deep3, Nested
    <2>2. CASE s[k] \in Flat
      BY <2>2, FlatField
    <2>3. CASE s[k] \in [num : Nat, msg : Seq(Deep2)]
      <3>1. s[k].msg \in Seq(Deep2)
        BY <2>3
      <3>2. Bytes3(s[k].msg) = Bytes2(s[k].msg) /\ Bytes2(s[k].msg) \in Nat
        BY <3>1, Counts2
      <3> QED
        BY <2>3, <3>2, NestedField
    <2> QED
      BY <2>1, <2>2, <2>3
  <1>3. Widths4(s) = Widths3(s)
    BY <1>2 DEF Widths3, Widths4
  <1>4. Widths3(s) \in [1 .. Len(s) -> Nat]
    BY <1>1, <1>2 DEF Widths3
  <1>5. Sum(Widths3(s)) \in Nat
    BY <1>1, <1>4, SumIsNat
  <1> QED
    BY <1>3, <1>5, BytesAreSums

LEMMA Deeper ==
  /\ Flat \subseteq Deep1 /\ Deep1 \subseteq Deep2
  /\ Deep2 \subseteq Deep3 /\ Deep3 \subseteq Deep4
  <1>1. Flat \subseteq Deep1
    BY DEF Deep1, Nested
  <1>2. Deep1 \subseteq Deep2
    <2>1. Seq(Flat) \subseteq Seq(Deep1)
      BY <1>1
    <2> QED
      BY <2>1 DEF Deep1, Deep2, Nested
  <1>3. Deep2 \subseteq Deep3
    <2>1. Seq(Deep1) \subseteq Seq(Deep2)
      BY <1>2
    <2> QED
      BY <2>1 DEF Deep2, Deep3, Nested
  <1>4. Deep3 \subseteq Deep4
    <2>1. Seq(Deep2) \subseteq Seq(Deep3)
      BY <1>3
    <2> QED
      BY <2>1 DEF Deep3, Deep4, Nested
  <1> QED
    BY <1>1, <1>2, <1>3, <1>4

\* What a field takes, of those that go as deep as Bytes does.
Width(t) == FieldBytes(t, Bytes3(t.msg))

LEMMA WidthIsNat ==
  ASSUME NEW t \in Deep4
  PROVE  Width(t) \in Nat
  <1>1. CASE t \in Flat
    BY <1>1, FlatField DEF Width
  <1>2. CASE t \in [num : Nat, msg : Seq(Deep3)]
    <2>1. Bytes3(t.msg) \in Nat
      BY <1>2, Counts3
    <2> QED
      BY <1>2, <2>1, NestedField DEF Width
  <1> QED
    BY <1>1, <1>2 DEF Deep4, Nested

LEMMA BytesSum ==
  ASSUME NEW s \in Seq(Deep4)
  PROVE  /\ SumsTo(Bytes(s), Len(s), Widths4(s))
         /\ Bytes(s) \in Nat
         /\ \A k \in 1 .. Len(s) : Widths4(s)[k] = Width(s[k]) /\ Width(s[k]) \in Nat
  <1>1. DOMAIN s = 1 .. Len(s) /\ Len(s) \in Nat
    OBVIOUS
  <1>2. \A k \in 1 .. Len(s) : Widths4(s)[k] = Width(s[k]) /\ Width(s[k]) \in Nat
    BY <1>1, WidthIsNat DEF Widths4, Width
  <1>3. Widths4(s) \in [1 .. Len(s) -> Nat]
    <2>1. Widths4(s) = [k \in 1 .. Len(s) |-> Widths4(s)[k]]
      BY <1>1 DEF Widths4
    <2> QED
      BY <1>2, <2>1
  <1> QED
    BY <1>1, <1>2, <1>3, SumSums, SumIsNat, BytesAreSums

\* The bytes of some fields after others are those of both together.
LEMMA BytesAdd ==
  ASSUME NEW a \in Seq(Deep4), NEW b \in Seq(Deep4)
  PROVE  a \o b \in Seq(Deep4) /\ Bytes(a \o b) = Bytes(a) + Bytes(b)
  <1> DEFINE c == a \o b  m == Len(a)  n == Len(b)
  <1>1. /\ c \in Seq(Deep4) /\ m \in Nat /\ n \in Nat /\ Len(c) = m + n
        /\ \A k \in 1 .. m : c[k] = a[k] /\ k \in 1 .. Len(c)
        /\ \A k \in 1 .. n : c[m + k] = b[k] /\ m + k \in 1 .. Len(c)
    OBVIOUS
  <1> HIDE DEF c, m, n
  <1>2. \A k \in 1 .. m : Widths4(c)[k] = Widths4(a)[k]
    BY <1>1, BytesSum DEF m
  <1>3. \A k \in 1 .. n : Widths4(c)[m + k] = Widths4(b)[k] /\ Widths4(b)[k] \in Nat
    BY <1>1, BytesSum DEF n
  <1>4. SumsTo(Bytes(a), m, Widths4(a)) /\ SumsTo(Bytes(b), n, Widths4(b))
    BY BytesSum DEF m, n
  <1>5. SumsTo(Bytes(a) + Bytes(b), m + n, Widths4(c))
    BY <1>1, <1>2, <1>3, <1>4, SumsAdd
  <1>6. SumsTo(Bytes(c), m + n, Widths4(c))
    BY <1>1, BytesSum
  <1>7. Bytes(c) = Bytes(a) + Bytes(b)
    <2> DEFINE l == m + n  w == Widths4(c)
    <2>1. l \in Nat /\ SumsTo(Bytes(a) + Bytes(b), l, w) /\ SumsTo(Bytes(c), l, w)
      BY <1>1, <1>5, <1>6
    <2> HIDE DEF l, w
    <2> QED
      BY <2>1, SumIsOne
  <1> QED
    BY <1>1, <1>7 DEF c

\* A field alone.
LEMMA BytesOfOne ==
  ASSUME NEW t \in Deep4
  PROVE  Bytes(<<t>>) = Width(t)
  <1> DEFINE s == <<t>>
  <1>1. s \in Seq(Deep4) /\ Len(s) = 1 /\ s[1] = t /\ 1 \in 1 .. Len(s)
    OBVIOUS
  <1> HIDE DEF s
  <1>2. PICK f : Runs(f, 1, Widths4(s)) /\ Bytes(s) = f[1]
    BY <1>1, BytesSum DEF SumsTo
  <1>3. f[1] = f[0] + Widths4(s)[1] /\ f[0] = 0
    <2>1. 1 \in 1 .. 1 /\ 1 - 1 = 0
      OBVIOUS
    <2> QED
      BY <1>2, <2>1 DEF Runs
  <1>4. Widths4(s)[1] = Width(t) /\ Width(t) \in Nat
    BY <1>1, BytesSum
  <1> QED
    BY <1>2, <1>3, <1>4 DEF s

\* Nothing at all.
LEMMA BytesOfNone == Bytes(<<>>) = 0 /\ \A F : <<>> \in Seq(F)
  BY NothingUnknown DEF UnknownSize

\* What is written of a number, a truth value and a text takes its size.
LEMMA WrittenInt ==
  ASSUME NEW num \in Nat, NEW v \in Int
  PROVE  WriteInt(num, v) \in Seq(Flat) /\ Bytes(WriteInt(num, v)) = IntSize(v)
  <1>1. CASE v = 0
    BY <1>1, BytesOfNone DEF WriteInt, IntSize
  <1>2. CASE v # 0
    <2> DEFINE t == Varint(num, v)
    <2>1. t \in Flat /\ t \in Deep4
      BY Deeper DEF Varint, Flat
    <2>2. Width(t) = 1 + NumberBytes(v)
      BY DEF Width, FieldBytes, Varint
    <2>3. NumberBytes(v) = Int32Size(v)
      BY DEF NumberBytes, Int32Size
    <2>4. WriteInt(num, v) = <<t>> /\ IntSize(v) = 1 + Int32Size(v)
      BY <1>2 DEF WriteInt, IntSize
    <2> HIDE DEF t
    <2> QED
      BY <2>1, <2>2, <2>3, <2>4, BytesOfOne
  <1> QED
    BY <1>1, <1>2

LEMMA WrittenBool ==
  ASSUME NEW num \in Nat, NEW v \in {0, 1}
  PROVE  WriteInt(num, v) \in Seq(Flat) /\ Bytes(WriteInt(num, v)) = BoolSize(v)
  <1>1. IntSize(v) = BoolSize(v)
    BY DEF IntSize, BoolSize, Int32Size, VarintSize32
  <1>2. v \in Int
    OBVIOUS
  <1>3. WriteInt(num, v) \in Seq(Flat) /\ Bytes(WriteInt(num, v)) = IntSize(v)
    BY <1>2, WrittenInt
  <1> QED
    BY <1>1, <1>3

LEMMA WrittenText ==
  ASSUME NEW num \in Nat, NEW s \in Strings
  PROVE  WriteText(num, s) \in Seq(Flat) /\ Bytes(WriteText(num, s)) = TextSize(s)
  <1>1. CASE StrLen[s] = 0
    BY <1>1, BytesOfNone DEF WriteText, TextSize
  <1>2. CASE StrLen[s] # 0
    <2> DEFINE t == Text(num, s)
    <2>1. t \in Flat /\ t \in Deep4
      BY Deeper DEF Text, Flat
    <2>2. Width(t) = 1 + LengthDelimitedSize(StrLen[s])
      BY DEF Width, FieldBytes, Text
    <2>3. WriteText(num, s) = <<t>> /\ TextSize(s) = 1 + LengthDelimitedSize(StrLen[s])
      BY <1>2 DEF WriteText, TextSize, StringSize
    <2> HIDE DEF t
    <2> QED
      BY <2>1, <2>2, <2>3, BytesOfOne
  <1> QED
    BY <1>1, <1>2

\* A message in a field of another.
LEMMA WrittenMessage ==
  ASSUME NEW F, F \subseteq Deep3, NEW num \in Nat, NEW fields \in Seq(F)
  PROVE  /\ Embedded(num, fields) \in Nested(F) /\ Embedded(num, fields) \in Deep4
         /\ Width(Embedded(num, fields)) = 1 + LengthDelimitedSize(Bytes(fields))
         /\ Bytes(fields) \in Nat
  <1>1. fields \in Seq(Deep3)
    OBVIOUS
  <1>2. Bytes3(fields) = Bytes(fields) /\ Bytes(fields) \in Nat
    BY <1>1, Counts3
  <1> DEFINE t == Embedded(num, fields)
  <1>3. /\ t \in [num : Nat, msg : Seq(F)] /\ t \in [num : Nat, msg : Seq(Deep3)]
        /\ t.msg = fields
    BY <1>1 DEF Embedded
  <1> HIDE DEF t
  <1>4. Width(t) = 1 + LengthDelimitedSize(Bytes(fields))
    BY <1>2, <1>3, NestedField DEF Width
  <1> QED
    BY <1>2, <1>3, <1>4 DEF t, Nested, Deep4

\* A sum of widths that are one more each: a tag for every element.
LEMMA SumWithTags ==
  ASSUME NEW n \in Nat, NEW w, NEW v, \A k \in 1 .. n : w[k] = 1 + v[k] /\ v[k] \in Nat,
         NEW x, SumsTo(x, n, w), NEW y, SumsTo(y, n, v)
  PROVE  x = n + y
  <1>1. PICK f : Runs(f, n, w) /\ x = f[n]
    BY DEF SumsTo
  <1>2. PICK g : Runs(g, n, v) /\ y = g[n]
    BY DEF SumsTo
  <1> DEFINE T == {k \in 0 .. n : f[k] = k + g[k]}
  <1>3. 0 \in T
    BY <1>1, <1>2 DEF Runs
  <1>4. ASSUME NEW k \in 0 .. n - 1, k \in T PROVE k + 1 \in T
    <2>1. /\ f[k + 1] = f[k] + w[k + 1] /\ g[k + 1] = g[k] + v[k + 1]
          /\ w[k + 1] = 1 + v[k + 1]
          /\ v[k + 1] \in Nat /\ g[k] \in Nat
      BY <1>1, <1>2 DEF Runs
    <2> QED
      BY <1>4, <2>1
  <1>5. n \in T
    <2> HIDE DEF T
    <2>1. \A k \in 0 .. n : k \in T
      BY <1>3, <1>4, UpTo
    <2> QED
      BY <2>1
  <1> QED
    BY <1>1, <1>2, <1>5

\* Fields s whose widths are a tag and v.
LEMMA TaggedFields ==
  ASSUME NEW s \in Seq(Deep4), NEW v \in [1 .. Len(s) -> Nat],
         \A k \in 1 .. Len(s) : Width(s[k]) = 1 + v[k]
  PROVE  Bytes(s) = Len(s) + Sum(v)
  <1> DEFINE n == Len(s)
  <1>1. n \in Nat
    OBVIOUS
  <1>2. \A k \in 1 .. n : Widths4(s)[k] = 1 + v[k] /\ v[k] \in Nat
    BY BytesSum
  <1>3. SumsTo(Bytes(s), n, Widths4(s))
    BY BytesSum
  <1>4. SumsTo(Sum(v), n, v)
    BY <1>1, SumSums
  <1> HIDE DEF n
  <1>5. Bytes(s) = n + Sum(v)
    BY <1>1, <1>2, <1>3, <1>4, SumWithTags
  <1> QED
    BY <1>5 DEF n

LEMMA WrittenTexts ==
  ASSUME NEW num \in Nat, NEW texts \in Seq(Strings)
  PROVE  WriteTexts(num, texts) \in Seq(Flat) /\ Bytes(WriteTexts(num, texts)) = TextsSize(texts)
  <1> DEFINE s == WriteTexts(num, texts)
             v == [k \in DOMAIN texts |-> StringSize(texts[k])]
  <1>1. DOMAIN texts = 1 .. Len(texts) /\ Len(texts) \in Nat
    OBVIOUS
  <1>2. \A k \in 1 .. Len(texts) : texts[k] \in Strings /\ Text(num, texts[k]) \in Flat
    BY DEF Text, Flat
  <1>3. s = [k \in 1 .. Len(texts) |-> Text(num, texts[k])]
    BY <1>1 DEF WriteTexts
  <1>4. s \in Seq(Flat) /\ Len(s) = Len(texts)
    BY <1>1, <1>2, <1>3
  <1>5. s \in Seq(Deep4)
    BY <1>4, Deeper
  <1>6. ASSUME NEW k \in 1 .. Len(texts)
        PROVE  Width(s[k]) = 1 + v[k] /\ v[k] \in Nat
    <2>1. s[k] = Text(num, texts[k]) /\ v[k] = LengthDelimitedSize(StrLen[texts[k]])
      BY <1>1, <1>3 DEF StringSize
    <2>2. Width(Text(num, texts[k])) = 1 + LengthDelimitedSize(StrLen[texts[k]])
      BY DEF Width, FieldBytes, Text
    <2>3. StrLen[texts[k]] \in Nat
      BY <1>2, WireAssumption
    <2>4. LengthDelimitedSize(StrLen[texts[k]]) \in Nat
      BY <2>3, NumberSizes DEF LengthDelimitedSize
    <2> QED
      BY <2>1, <2>2, <2>4
  <1>7. TextsSize(texts) = Len(texts) + Sum(v)
    BY DEF TextsSize, SumOver
  <1>8. v = [k \in 1 .. Len(texts) |-> v[k]]
    BY <1>1
  <1> HIDE DEF s, v
  <1>9. v \in [1 .. Len(texts) -> Nat]
    BY <1>6, <1>8
  <1>10. Bytes(s) = Len(s) + Sum(v)
    BY <1>4, <1>5, <1>6, <1>9, TaggedFields
  <1> QED
    BY <1>4, <1>7, <1>10 DEF s

LEMMA WrittenPacked ==
  ASSUME NEW num \in Nat, NEW vs \in Seq(Int)
  PROVE  WritePacked(num, vs) \in Seq(Flat) /\ Bytes(WritePacked(num, vs)) = PackedSize(vs)
  <1> DEFINE size == SumOver(Int32Size, vs)
  <1>1. PackedSize(vs) = IF size = 0 THEN 0 ELSE 1 + Int32Size(size) + size
    BY DEF PackedSize
  <1>2. size \in Nat /\ SumOver(NumberBytes, vs) = size /\ (vs # <<>> => size > 0)
    BY PackedSum
  <1>3. CASE vs = <<>>
    <2>1. size = 0
      <3> DEFINE w == [k \in DOMAIN vs |-> Int32Size(vs[k])]
      <3>1. size = Sum(w) /\ w \in [1 .. 0 -> Nat]
        BY <1>3 DEF SumOver
      <3> HIDE DEF w, size
      <3>2. SumsTo(size, 0, w)
        BY <3>1, SumSums
      <3> QED
        BY <3>2 DEF SumsTo, Runs
    <2> QED
      BY <1>1, <1>3, <2>1, BytesOfNone DEF WritePacked
  <1>4. CASE vs # <<>>
    <2> DEFINE t == Packed(num, vs)
    <2>1. t \in Flat /\ t \in Deep4
      BY Deeper DEF Packed, Flat
    <2>2. Width(t) = 1 + LengthDelimitedSize(SumOver(NumberBytes, vs))
      BY DEF Width, FieldBytes, Packed
    <2>3. WritePacked(num, vs) = <<t>>
      BY <1>4 DEF WritePacked
    <2> HIDE DEF t, size
    <2>4. LengthDelimitedSize(size) = Int32Size(size) + size
      BY <1>2 DEF LengthDelimitedSize, Int32Size
    <2>5. Int32Size(size) \in Nat
      BY <1>2, NumberSizes
    <2> QED
      BY <1>1, <1>2, <1>4, <2>1, <2>2, <2>3, <2>4, <2>5, BytesOfOne
  <1> QED
    BY <1>3, <1>4

-----------------------------------------------------------------------------
(* The classes. *)

\* What may hold the fields of a class: all that Bytes counts, or less.
Depth(F) == Flat \subseteq F /\ F \subseteq Deep4

\* s is written, and takes n bytes.
Written(F, s, n) == s \in Seq(F) /\ Bytes(s) = n /\ n \in Nat

\* What is written of one field of a message, and of those it does not know.
LEMMA Parts ==
  ASSUME NEW F, Depth(F), NEW num \in Nat
  PROVE  /\ \A v \in Int : Written(F, WriteInt(num, v), IntSize(v))
         /\ \A v \in {0, 1} : Written(F, WriteInt(num, v), BoolSize(v))
         /\ \A s \in Strings : Written(F, WriteText(num, s), TextSize(s))
         /\ \A texts \in Seq(Strings) : Written(F, WriteTexts(num, texts), TextsSize(texts))
         /\ \A vs \in Seq(Int) : Written(F, WritePacked(num, vs), PackedSize(vs))
         /\ \A fields \in Seq(F) : Written(F, fields, UnknownSize(fields))
  <1>1. Seq(Flat) \subseteq Seq(F) /\ Seq(F) \subseteq Seq(Deep4)
    BY DEF Depth
  <1>2. \A s \in Seq(F) : Written(F, s, Bytes(s))
    BY <1>1, BytesSum DEF Written
  <1>3. \A v \in Int : Written(F, WriteInt(num, v), IntSize(v))
    BY <1>1, <1>2, WrittenInt
  <1>4. \A v \in {0, 1} : Written(F, WriteInt(num, v), BoolSize(v))
    BY <1>1, <1>2, WrittenBool
  <1>5. \A s \in Strings : Written(F, WriteText(num, s), TextSize(s))
    BY <1>1, <1>2, WrittenText
  <1>6. \A texts \in Seq(Strings) : Written(F, WriteTexts(num, texts), TextsSize(texts))
    BY <1>1, <1>2, WrittenTexts
  <1>7. \A vs \in Seq(Int) : Written(F, WritePacked(num, vs), PackedSize(vs))
    BY <1>1, <1>2, WrittenPacked
  <1> QED
    BY <1>2, <1>3, <1>4, <1>5, <1>6, <1>7 DEF UnknownSize

\* One part after the other.
LEMMA Joined ==
  ASSUME NEW F, Depth(F), NEW a, NEW b, NEW m, NEW n, Written(F, a, m), Written(F, b, n)
  PROVE  Written(F, a \o b, m + n)
  <1>1. a \in Seq(F) /\ b \in Seq(F) /\ a \in Seq(Deep4) /\ b \in Seq(Deep4)
    BY DEF Written, Depth
  <1>2. a \o b \in Seq(F) /\ Bytes(a \o b) = Bytes(a) + Bytes(b)
    BY <1>1, BytesAdd
  <1> QED
    BY <1>2 DEF Written

\* The numbers of a class, in the order of their fields.
Row1(a) == WriteInt(1, a)
Row2(a, b) == Row1(a) \o WriteInt(2, b)
Row3(a, b, c) == Row2(a, b) \o WriteInt(3, c)
Row4(a, b, c, d) == Row3(a, b, c) \o WriteInt(4, d)
Row5(a, b, c, d, e) == Row4(a, b, c, d) \o WriteInt(5, e)
Row6(a, b, c, d, e, f) == Row5(a, b, c, d, e) \o WriteInt(6, f)
Row7(a, b, c, d, e, f, g) == Row6(a, b, c, d, e, f) \o WriteInt(7, g)

LEMMA RowsWritten ==
  ASSUME NEW F, Depth(F), NEW a \in Int, NEW b \in Int, NEW c \in Int, NEW d \in Int,
         NEW e \in Int, NEW f \in Int, NEW g \in Int
  PROVE  /\ Written(F, Row1(a), IntSize(a))
         /\ Written(F, Row2(a, b), IntSize(a) + IntSize(b))
         /\ Written(F, Row3(a, b, c), IntSize(a) + IntSize(b) + IntSize(c))
         /\ Written(F, Row4(a, b, c, d), IntSize(a) + IntSize(b) + IntSize(c)
           + IntSize(d))
         /\ Written(F, Row5(a, b, c, d, e),
              IntSize(a) + IntSize(b) + IntSize(c) + IntSize(d) + IntSize(e))
         /\ Written(F, Row6(a, b, c, d, e, f),
              IntSize(a) + IntSize(b) + IntSize(c) + IntSize(d) + IntSize(e) + IntSize(f))
         /\ Written(F, Row7(a, b, c, d, e, f, g),
              IntSize(a) + IntSize(b) + IntSize(c) + IntSize(d) + IntSize(e) + IntSize(f)
              + IntSize(g))
  <1>1. Written(F, Row1(a), IntSize(a))
    BY Parts DEF Row1
  <1>2. Written(F, Row2(a, b), IntSize(a) + IntSize(b))
    BY <1>1, Parts, Joined DEF Row2
  <1>3. Written(F, Row3(a, b, c), IntSize(a) + IntSize(b) + IntSize(c))
    BY <1>2, Parts, Joined DEF Row3
  <1>4. Written(F, Row4(a, b, c, d), IntSize(a) + IntSize(b) + IntSize(c) + IntSize(d))
    BY <1>3, Parts, Joined DEF Row4
  <1>5. Written(F, Row5(a, b, c, d, e), IntSize(a) + IntSize(b) + IntSize(c)
          + IntSize(d) + IntSize(e))
    BY <1>4, Parts, Joined DEF Row5
  <1>6. Written(F, Row6(a, b, c, d, e, f), IntSize(a) + IntSize(b) + IntSize(c)
          + IntSize(d) + IntSize(e) + IntSize(f))
    BY <1>5, Parts, Joined DEF Row6
  <1>7. Written(F, Row7(a, b, c, d, e, f, g), IntSize(a) + IntSize(b) + IntSize(c)
          + IntSize(d) + IntSize(e) + IntSize(f) + IntSize(g))
    BY <1>6, Parts, Joined DEF Row7
  <1> QED
    BY <1>1, <1>2, <1>3, <1>4, <1>5, <1>6, <1>7

LEMMA SizesAreNat == (\A v \in Int : IntSize(v) \in Nat) /\ (\A s \in Strings : TextSize(s) \in Nat)
  <1>1. \A v \in Int : IntSize(v) \in Nat
    BY NumberSizes
  <1>2. \A s \in Strings : StrLen[s] \in Nat
    BY WireAssumption
  <1>3. \A n \in Nat : LengthDelimitedSize(n) \in Nat
    BY NumberSizes DEF LengthDelimitedSize
  <1> QED
    BY <1>1, <1>2, <1>3 DEF TextSize, StringSize

\* XOf(F): the objects of class X whose unknown fields are among F.
BagItemOf(F) ==
  [itemid : Int, typeid : Int, count : Int, overly : Int, binded : {0, 1},
   unknown : Seq(F)]

LEMMA BagItemExact ==
  ASSUME NEW F, Depth(F), NEW m \in BagItemOf(F)
  PROVE  Written(F, BagItemWrite(m), BagItemSize(m))
  <1> DEFINE row == Row5(m.itemid, m.typeid, m.count, m.overly, m.binded)
             size == IntSize(m.itemid) + IntSize(m.typeid) + IntSize(m.count)
                     + IntSize(m.overly) + IntSize(m.binded)
             rest == UnknownSize(m.unknown)
  <1>1. /\ m.itemid \in Int /\ m.typeid \in Int /\ m.count \in Int /\ m.overly \in Int
        /\ m.binded \in Int
        /\ m.unknown \in Seq(F)
    BY DEF BagItemOf
  <1>2. Written(F, row, size)
    BY <1>1, RowsWritten
  <1>3. Written(F, m.unknown, rest)
    BY <1>1, Parts
  <1>4. BagItemWrite(m) = row \o m.unknown
    BY DEF BagItemWrite, Row1, Row2, Row3, Row4, Row5
  <1>5. BoolSize(m.binded) = IntSize(m.binded)
    BY DEF BagItemOf, IntSize, BoolSize, Int32Size, VarintSize32
  <1>6. rest \in Nat
    BY <1>3 DEF Written
  <1>7. BagItemSize(m) = rest + size
    <2>1. BagItemSize(m) = rest + IntSize(m.itemid) + IntSize(m.typeid)
            + IntSize(m.count) + IntSize(m.overly) + BoolSize(m.binded)
      BY DEF BagItemSize
    <2>2. /\ IntSize(m.itemid) \in Nat /\ IntSize(m.typeid) \in Nat
          /\ IntSize(m.count) \in Nat /\ IntSize(m.overly) \in Nat
          /\ IntSize(m.binded) \in Nat
      BY <1>1, SizesAreNat
    <2> HIDE DEF rest
    <2> QED
      BY <1>5, <1>6, <2>1, <2>2
  <1> HIDE DEF row, size, rest
  <1>8. size \in Nat
    BY <1>2 DEF Written
  <1>9. size + rest = BagItemSize(m)
    BY <1>6, <1>7, <1>8
  <1> QED
    BY <1>2, <1>3, <1>4, <1>9, Joined

EquipItemOf(F) ==
  [itemid : Int, typeid : Int, count : Int, overly : Int, binded : {0, 1},
   attack : Int, durability : Int,
   unknown : Seq(F)]

LEMMA EquipItemExact ==
  ASSUME NEW F, Depth(F), NEW m \in EquipItemOf(F)
  PROVE  Written(F, EquipItemWrite(m), EquipItemSize(m))
  <1> DEFINE row == Row7(m.itemid, m.typeid, m.count, m.overly, m.binded, m.attack, m.durability)
             size == IntSize(m.itemid) + IntSize(m.typeid) + IntSize(m.count)
                     + IntSize(m.overly) + IntSize(m.binded) + IntSize(m.attack)
                     + IntSize(m.durability)
             rest == UnknownSize(m.unknown)
  <1>1. /\ m.itemid \in Int /\ m.typeid \in Int /\ m.count \in Int /\ m.overly \in Int
        /\ m.binded \in Int /\ m.attack \in Int /\ m.durability \in Int
        /\ m.unknown \in Seq(F)
    BY DEF EquipItemOf
  <1>2. Written(F, row, size)
    BY <1>1, RowsWritten
  <1>3. Written(F, m.unknown, rest)
    BY <1>1, Parts
  <1>4. EquipItemWrite(m) = row \o m.unknown
    BY DEF EquipItemWrite, Row1, Row2, Row3, Row4, Row5, Row6, Row7
  <1>5. BoolSize(m.binded) = IntSize(m.binded)
    BY DEF EquipItemOf, IntSize, BoolSize, Int32Size, VarintSize32
  <1>6. rest \in Nat
    BY <1>3 DEF Written
  <1>7. EquipItemSize(m) = rest + size
    <2>1. EquipItemSize(m) = rest + IntSize(m.itemid) + IntSize(m.typeid)
            + IntSize(m.count) + IntSize(m.overly) + BoolSize(m.binded)
            + IntSize(m.attack) + IntSize(m.durability)
      BY DEF EquipItemSize
    <2>2. /\ IntSize(m.itemid) \in Nat /\ IntSize(m.typeid) \in Nat
          /\ IntSize(m.count) \in Nat /\ IntSize(m.overly) \in Nat
          /\ IntSize(m.binded) \in Nat /\ IntSize(m.attack) \in Nat
          /\ IntSize(m.durability) \in Nat
      BY <1>1, SizesAreNat
    <2> HIDE DEF rest
    <2> QED
      BY <1>5, <1>6, <2>1, <2>2
  <1> HIDE DEF row, size, rest
  <1>8. size \in Nat
    BY <1>2 DEF Written
  <1>9. size + rest = EquipItemSize(m)
    BY <1>6, <1>7, <1>8
  <1> QED
    BY <1>2, <1>3, <1>4, <1>9, Joined

CurrencyItemOf(F) ==
  [itemid : Int, typeid : Int, count : Int, overly : Int,
   unknown : Seq(F)]

LEMMA CurrencyItemExact ==
  ASSUME NEW F, Depth(F), NEW m \in CurrencyItemOf(F)
  PROVE  Written(F, CurrencyItemWrite(m), CurrencyItemSize(m))
  <1> DEFINE row == Row4(m.itemid, m.typeid, m.count, m.overly)
             size == IntSize(m.itemid) + IntSize(m.typeid) + IntSize(m.count)
                     + IntSize(m.overly)
             rest == UnknownSize(m.unknown)
  <1>1. m.itemid \in Int /\ m.typeid \in Int /\ m.count \in Int /\ m.overly \in Int
        /\ m.unknown \in Seq(F)
    BY DEF CurrencyItemOf
  <1>2. Written(F, row, size)
    BY <1>1, RowsWritten
  <1>3. Written(F, m.unknown, rest)
    BY <1>1, Parts
  <1>4. CurrencyItemWrite(m) = row \o m.unknown
    BY DEF CurrencyItemWrite, Row1, Row2, Row3, Row4
  <1>6. rest \in Nat
    BY <1>3 DEF Written
  <1>7. CurrencyItemSize(m) = rest + size
    <2>1. CurrencyItemSize(m) = rest + IntSize(m.itemid) + IntSize(m.typeid)
            + IntSize(m.count) + IntSize(m.overly)
      BY DEF CurrencyItemSize
    <2>2. /\ IntSize(m.itemid) \in Nat /\ IntSize(m.typeid) \in Nat
          /\ IntSize(m.count) \in Nat /\ IntSize(m.overly) \in Nat
      BY <1>1, SizesAreNat
    <2> HIDE DEF rest
    <2> QED
      BY <1>6, <2>1, <2>2
  <1> HIDE DEF row, size, rest
  <1>8. size \in Nat
    BY <1>2 DEF Written
  <1>9. size + rest = CurrencyItemSize(m)
    BY <1>6, <1>7, <1>8
  <1> QED
    BY <1>2, <1>3, <1>4, <1>9, Joined

AddItemReqOf(F) ==
  [itemid : Int, count : Int,
   unknown : Seq(F)]

LEMMA AddItemReqExact ==
  ASSUME NEW F, Depth(F), NEW m \in AddItemReqOf(F)
  PROVE  Written(F, AddItemReqWrite(m), AddItemReqSize(m))
  <1> DEFINE row == Row2(m.itemid, m.count)
             size == IntSize(m.itemid) + IntSize(m.count)
             rest == UnknownSize(m.unknown)
  <1>1. m.itemid \in Int /\ m.count \in Int
        /\ m.unknown \in Seq(F)
    BY DEF AddItemReqOf
  <1>2. Written(F, row, size)
    BY <1>1, RowsWritten
  <1>3. Written(F, m.unknown, rest)
    BY <1>1, Parts
  <1>4. AddItemReqWrite(m) = row \o m.unknown
    BY DEF AddItemReqWrite, Row1, Row2
  <1>6. rest \in Nat
    BY <1>3 DEF Written
  <1>7. AddItemReqSize(m) = rest + size
    <2>1. AddItemReqSize(m) = rest + IntSize(m.itemid) + IntSize(m.count)
      BY DEF AddItemReqSize
    <2>2. IntSize(m.itemid) \in Nat /\ IntSize(m.count) \in Nat
      BY <1>1, SizesAreNat
    <2> HIDE DEF rest
    <2> QED
      BY <1>6, <2>1, <2>2
  <1> HIDE DEF row, size, rest
  <1>8. size \in Nat
    BY <1>2 DEF Written
  <1>9. size + rest = AddItemReqSize(m)
    BY <1>6, <1>7, <1>8
  <1> QED
    BY <1>2, <1>3, <1>4, <1>9, Joined

AddItemRspOf(F) ==
  [errcode : Int,
   unknown : Seq(F)]

LEMMA AddItemRspExact ==
  ASSUME NEW F, Depth(F), NEW m \in AddItemRspOf(F)
  PROVE  Written(F, AddItemRspWrite(m), AddItemRspSize(m))
  <1> DEFINE row == Row1(m.errcode)
             size == IntSize(m.errcode)
             rest == UnknownSize(m.unknown)
  <1>1. m.errcode \in Int
        /\ m.unknown \in Seq(F)
    BY DEF AddItemRspOf
  <1>2. Written(F, row, size)
    BY <1>1, RowsWritten
  <1>3. Written(F, m.unknown, rest)
    BY <1>1, Parts
  <1>4. AddItemRspWrite(m) = row \o m.unknown
    BY DEF AddItemRspWrite, Row1
  <1>6. rest \in Nat
    BY <1>3 DEF Written
  <1>7. AddItemRspSize(m) = rest + size
    <2>1. AddItemRspSize(m) = rest + IntSize(m.errcode)
      BY DEF AddItemRspSize
    <2>2. IntSize(m.errcode) \in Nat
      BY <1>1, SizesAreNat
    <2> HIDE DEF rest
    <2> QED
      BY <1>6, <2>1, <2>2
  <1> HIDE DEF row, size, rest
  <1>8. size \in Nat
    BY <1>2 DEF Written
  <1>9. size + rest = AddItemRspSize(m)
    BY <1>6, <1>7, <1>8
  <1> QED
    BY <1>2, <1>3, <1>4, <1>9, Joined

RemoveItemReqOf(F) ==
  [itemid : Int, count : Int, pos : Int,
   unknown : Seq(F)]

LEMMA RemoveItemReqExact ==
  ASSUME NEW F, Depth(F), NEW m \in RemoveItemReqOf(F)
  PROVE  Written(F, RemoveItemReqWrite(m), RemoveItemReqSize(m))
  <1> DEFINE row == Row3(m.itemid, m.count, m.pos)
             size == IntSize(m.itemid) + IntSize(m.count) + IntSize(m.pos)
             rest == UnknownSize(m.unknown)
  <1>1. m.itemid \in Int /\ m.count \in Int /\ m.pos \in Int
        /\ m.unknown \in Seq(F)
    BY DEF RemoveItemReqOf
  <1>2. Written(F, row, size)
    BY <1>1, RowsWritten
  <1>3. Written(F, m.unknown, rest)
    BY <1>1, Parts
  <1>4. RemoveItemReqWrite(m) = row \o m.unknown
    BY DEF RemoveItemReqWrite, Row1, Row2, Row3
  <1>6. rest \in Nat
    BY <1>3 DEF Written
  <1>7. RemoveItemReqSize(m) = rest + size
    <2>1. RemoveItemReqSize(m) = rest + IntSize(m.itemid) + IntSize(m.count)
            + IntSize(m.pos)
      BY DEF RemoveItemReqSize
    <2>2. /\ IntSize(m.itemid) \in Nat /\ IntSize(m.count) \in Nat
          /\ IntSize(m.pos) \in Nat
      BY <1>1, SizesAreNat
    <2> HIDE DEF rest
    <2> QED
      BY <1>6, <2>1, <2>2
  <1> HIDE DEF row, size, rest
  <1>8. size \in Nat
    BY <1>2 DEF Written
  <1>9. size + rest = RemoveItemReqSize(m)
    BY <1>6, <1>7, <1>8
  <1> QED
    BY <1>2, <1>3, <1>4, <1>9, Joined

RemoveItemRspOf(F) ==
  [errcode : Int,
   unknown : Seq(F)]

LEMMA RemoveItemRspExact ==
  ASSUME NEW F, Depth(F), NEW m \in RemoveItemRspOf(F)
  PROVE  Written(F, RemoveItemRspWrite(m), RemoveItemRspSize(m))
  <1> DEFINE row == Row1(m.errcode)
             size == IntSize(m.errcode)
             rest == UnknownSize(m.unknown)
  <1>1. m.errcode \in Int
        /\ m.unknown \in Seq(F)
    BY DEF RemoveItemRspOf
  <1>2. Written(F, row, size)
    BY <1>1, RowsWritten
  <1>3. Written(F, m.unknown, rest)
    BY <1>1, Parts
  <1>4. RemoveItemRspWrite(m) = row \o m.unknown
    BY DEF RemoveItemRspWrite, Row1
  <1>6. rest \in Nat
    BY <1>3 DEF Written
  <1>7. RemoveItemRspSize(m) = rest + size
    <2>1. RemoveItemRspSize(m) = rest + IntSize(m.errcode)
      BY DEF RemoveItemRspSize
    <2>2. IntSize(m.errcode) \in Nat
      BY <1>1, SizesAreNat
    <2> HIDE DEF rest
    <2> QED
      BY <1>6, <2>1, <2>2
  <1> HIDE DEF row, size, rest
  <1>8. size \in Nat
    BY <1>2 DEF Written
  <1>9. size + rest = RemoveItemRspSize(m)
    BY <1>6, <1>7, <1>8
  <1> QED
    BY <1>2, <1>3, <1>4, <1>9, Joined

RankReqOf(F) ==
  [start : Int, end : Int,
   unknown : Seq(F)]

LEMMA RankReqExact ==
  ASSUME NEW F, Depth(F), NEW m \in RankReqOf(F)
  PROVE  Written(F, RankReqWrite(m), RankReqSize(m))
  <1> DEFINE row == Row2(m.start, m.end)
             size == IntSize(m.start) + IntSize(m.end)
             rest == UnknownSize(m.unknown)
  <1>1. m.start \in Int /\ m.end \in Int
        /\ m.unknown \in Seq(F)
    BY DEF RankReqOf
  <1>2. Written(F, row, size)
    BY <1>1, RowsWritten
  <1>3. Written(F, m.unknown, rest)
    BY <1>1, Parts
  <1>4. RankReqWrite(m) = row \o m.unknown
    BY DEF RankReqWrite, Row1, Row2
  <1>6. rest \in Nat
    BY <1>3 DEF Written
  <1>7. RankReqSize(m) = rest + size
    <2>1. RankReqSize(m) = rest + IntSize(m.start) + IntSize(m.end)
      BY DEF RankReqSize
    <2>2. IntSize(m.start) \in Nat /\ IntSize(m.end) \in Nat
      BY <1>1, SizesAreNat
    <2> HIDE DEF rest
    <2> QED
      BY <1>6, <2>1, <2>2
  <1> HIDE DEF row, size, rest
  <1>8. size \in Nat
    BY <1>2 DEF Written
  <1>9. size + rest = RankReqSize(m)
    BY <1>6, <1>7, <1>8
  <1> QED
    BY <1>2, <1>3, <1>4, <1>9, Joined

MSG_PLAYER_MOVEOf(F) ==
  [x : Int, z : Int, ry : Int, playerid : Int, state : Int,
   unknown : Seq(F)]

LEMMA MSG_PLAYER_MOVEExact ==
  ASSUME NEW F, Depth(F), NEW m \in MSG_PLAYER_MOVEOf(F)
  PROVE  Written(F, MSG_PLAYER_MOVE_Write(m), MSG_PLAYER_MOVE_Size(m))
  <1> DEFINE row == Row5(m.x, m.z, m.ry, m.playerid, m.state)
             size == IntSize(m.x) + IntSize(m.z) + IntSize(m.ry) + IntSize(m.playerid)
                     + IntSize(m.state)
             rest == UnknownSize(m.unknown)
  <1>1. /\ m.x \in Int /\ m.z \in Int /\ m.ry \in Int /\ m.playerid \in Int
        /\ m.state \in Int
        /\ m.unknown \in Seq(F)
    BY DEF MSG_PLAYER_MOVEOf
  <1>2. Written(F, row, size)
    BY <1>1, RowsWritten
  <1>3. Written(F, m.unknown, rest)
    BY <1>1, Parts
  <1>4. MSG_PLAYER_MOVE_Write(m) = row \o m.unknown
    BY DEF MSG_PLAYER_MOVE_Write, Row1, Row2, Row3, Row4, Row5
  <1>6. rest \in Nat
    BY <1>3 DEF Written
  <1>7. MSG_PLAYER_MOVE_Size(m) = rest + size
    <2>1. MSG_PLAYER_MOVE_Size(m) = rest + IntSize(m.x) + IntSize(m.z) + IntSize(m.ry)
            + IntSize(m.playerid) + IntSize(m.state)
      BY DEF MSG_PLAYER_MOVE_Size
    <2>2. /\ IntSize(m.x) \in Nat /\ IntSize(m.z) \in Nat /\ IntSize(m.ry) \in Nat
          /\ IntSize(m.playerid) \in Nat /\ IntSize(m.state) \in Nat
      BY <1>1, SizesAreNat
    <2> HIDE DEF rest
    <2> QED
      BY <1>6, <2>1, <2>2
  <1> HIDE DEF row, size, rest
  <1>8. size \in Nat
    BY <1>2 DEF Written
  <1>9. size + rest = MSG_PLAYER_MOVE_Size(m)
    BY <1>6, <1>7, <1>8
  <1> QED
    BY <1>2, <1>3, <1>4, <1>9, Joined

MSG_PLAYER_REGISTEROf(F) ==
  [x : Int, z : Int, ry : Int, speed : Int, professsional : Int, playerid : Int,
   unknown : Seq(F)]

LEMMA MSG_PLAYER_REGISTERExact ==
  ASSUME NEW F, Depth(F), NEW m \in MSG_PLAYER_REGISTEROf(F)
  PROVE  Written(F, MSG_PLAYER_REGISTER_Write(m), MSG_PLAYER_REGISTER_Size(m))
  <1> DEFINE row == Row6(m.x, m.z, m.ry, m.speed, m.professsional, m.playerid)
             size == IntSize(m.x) + IntSize(m.z) + IntSize(m.ry) + IntSize(m.speed)
                     + IntSize(m.professsional) + IntSize(m.playerid)
             rest == UnknownSize(m.unknown)
  <1>1. /\ m.x \in Int /\ m.z \in Int /\ m.ry \in Int /\ m.speed \in Int
        /\ m.professsional \in Int /\ m.playerid \in Int
        /\ m.unknown \in Seq(F)
    BY DEF MSG_PLAYER_REGISTEROf
  <1>2. Written(F, row, size)
    BY <1>1, RowsWritten
  <1>3. Written(F, m.unknown, rest)
    BY <1>1, Parts
  <1>4. MSG_PLAYER_REGISTER_Write(m) = row \o m.unknown
    BY DEF MSG_PLAYER_REGISTER_Write, Row1, Row2, Row3, Row4, Row5, Row6
  <1>6. rest \in Nat
    BY <1>3 DEF Written
  <1>7. MSG_PLAYER_REGISTER_Size(m) = rest + size
    <2>1. MSG_PLAYER_REGISTER_Size(m) = rest + IntSize(m.x) + IntSize(m.z)
            + IntSize(m.ry) + IntSize(m.speed) + IntSize(m.professsional)
            + IntSize(m.playerid)
      BY DEF MSG_PLAYER_REGISTER_Size
    <2>2. /\ IntSize(m.x) \in Nat /\ IntSize(m.z) \in Nat /\ IntSize(m.ry) \in Nat
          /\ IntSize(m.speed) \in Nat /\ IntSize(m.professsional) \in Nat
          /\ IntSize(m.playerid) \in Nat
      BY <1>1, SizesAreNat
    <2> HIDE DEF rest
    <2> QED
      BY <1>6, <2>1, <2>2
  <1> HIDE DEF row, size, rest
  <1>8. size \in Nat
    BY <1>2 DEF Written
  <1>9. size + rest = MSG_PLAYER_REGISTER_Size(m)
    BY <1>6, <1>7, <1>8
  <1> QED
    BY <1>2, <1>3, <1>4, <1>9, Joined


CtlMsgLoginReqOf(F) == [name : Strings, password : Strings, unknown : Seq(F)]

LEMMA CtlMsgLoginReqExact ==
  ASSUME NEW F, Depth(F), NEW m \in CtlMsgLoginReqOf(F)
  PROVE  Written(F, CtlMsgLoginReqWrite(m), CtlMsgLoginReqSize(m))
  <1> DEFINE name == TextSize(m.name)
             password == TextSize(m.password)
             rest == UnknownSize(m.unknown)
  <1>1. m.name \in Strings /\ m.password \in Strings /\ m.unknown \in Seq(F)
    BY DEF CtlMsgLoginReqOf
  <1>2. /\ Written(F, WriteText(1, m.name), name)
        /\ Written(F, WriteText(2, m.password), password)
        /\ Written(F, m.unknown, rest)
    BY <1>1, Parts
  <1>3. CtlMsgLoginReqSize(m) = rest + name + password
    BY DEF CtlMsgLoginReqSize
  <1> HIDE DEF name, password, rest
  <1>4. Written(F, CtlMsgLoginReqWrite(m), name + password + rest)
    <2>1. Written(F, WriteText(1, m.name) \o WriteText(2, m.password), name + password)
      BY <1>2, Joined
    <2> QED
      BY <1>2, <2>1, Joined DEF CtlMsgLoginReqWrite
  <1>5. name \in Nat /\ password \in Nat /\ rest \in Nat
    BY <1>2 DEF Written
  <1>6. name + password + rest = CtlMsgLoginReqSize(m)
    BY <1>3, <1>5
  <1> QED
    BY <1>4, <1>6

CtlMsgSearchReqOf(F) == [id : Int, name : Strings, unknown : Seq(F)]

LEMMA CtlMsgSearchReqExact ==
  ASSUME NEW F, Depth(F), NEW m \in CtlMsgSearchReqOf(F)
  PROVE  Written(F, CtlMsgSearchReqWrite(m), CtlMsgSearchReqSize(m))
  <1> DEFINE id == IntSize(m.id)
             name == TextSize(m.name)
             rest == UnknownSize(m.unknown)
  <1>1. m.id \in Int /\ m.name \in Strings /\ m.unknown \in Seq(F)
    BY DEF CtlMsgSearchReqOf
  <1>2. /\ Written(F, WriteInt(1, m.id), id)
        /\ Written(F, WriteText(2, m.name), name)
        /\ Written(F, m.unknown, rest)
    BY <1>1, Parts
  <1>3. CtlMsgSearchReqSize(m) = rest + name + id
    BY DEF CtlMsgSearchReqSize
  <1> HIDE DEF id, name, rest
  <1>4. Written(F, CtlMsgSearchReqWrite(m), id + name + rest)
    <2>1. Written(F, WriteInt(1, m.id) \o WriteText(2, m.name), id + name)
      BY <1>2, Joined
    <2> QED
      BY <1>2, <2>1, Joined DEF CtlMsgSearchReqWrite
  <1>5. id \in Nat /\ name \in Nat /\ rest \in Nat
    BY <1>2 DEF Written
  <1>6. id + name + rest = CtlMsgSearchReqSize(m)
    BY <1>3, <1>5
  <1> QED
    BY <1>4, <1>6

MsgTestOf(F) == [id : Int, uid : Int, msg : Strings, unknown : Seq(F)]

LEMMA MsgTestExact ==
  ASSUME NEW F, Depth(F), NEW m \in MsgTestOf(F)
  PROVE  Written(F, MsgTestWrite(m), MsgTestSize(m))
  <1> DEFINE id == IntSize(m.id)
             uid == IntSize(m.uid)
             text == TextSize(m.msg)
             rest == UnknownSize(m.unknown)
  <1>1. m.id \in Int /\ m.uid \in Int /\ m.msg \in Strings /\ m.unknown \in Seq(F)
    BY DEF MsgTestOf
  <1>2. /\ Written(F, WriteInt(1, m.id), id)
        /\ Written(F, WriteInt(2, m.uid), uid)
        /\ Written(F, WriteText(3, m.msg), text)
        /\ Written(F, m.unknown, rest)
    BY <1>1, Parts
  <1>3. MsgTestSize(m) = rest + text + id + uid
    BY DEF MsgTestSize
  <1> HIDE DEF id, uid, text, rest
  <1>4. Written(F, MsgTestWrite(m), id + uid + text + rest)
    <2>1. Written(F, WriteInt(1, m.id) \o WriteInt(2, m.uid), id + uid)
      BY <1>2, Joined
    <2>2. Written(F, WriteInt(1, m.id) \o WriteInt(2, m.uid) \o WriteText(3, m.msg), id + uid + text)
      BY <1>2, <2>1, Joined
    <2> QED
      BY <1>2, <2>2, Joined DEF MsgTestWrite
  <1>5. id \in Nat /\ uid \in Nat /\ text \in Nat /\ rest \in Nat
    BY <1>2 DEF Written
  <1>6. id + uid + text + rest = MsgTestSize(m)
    BY <1>3, <1>5
  <1> QED
    BY <1>4, <1>6

RankRspOf(F) == [errcode : Int, name : Seq(Strings), exp : Seq(Int), unknown : Seq(F)]

LEMMA RankRspExact ==
  ASSUME NEW F, Depth(F), NEW m \in RankRspOf(F)
  PROVE  Written(F, RankRspWrite(m), RankRspSize(m))
  <1> DEFINE code == IntSize(m.errcode)
             names == TextsSize(m.name)
             exps == PackedSize(m.exp)
             rest == UnknownSize(m.unknown)
  <1>1. /\ m.errcode \in Int /\ m.name \in Seq(Strings) /\ m.exp \in Seq(Int)
        /\ m.unknown \in Seq(F)
    BY DEF RankRspOf
  <1>2. /\ Written(F, WriteInt(1, m.errcode), code)
        /\ Written(F, WriteTexts(2, m.name), names)
        /\ Written(F, WritePacked(3, m.exp), exps)
        /\ Written(F, m.unknown, rest)
    BY <1>1, Parts
  <1>3. RankRspSize(m) = rest + names + exps + code
    BY DEF RankRspSize
  <1> HIDE DEF code, names, exps, rest
  <1>4. Written(F, RankRspWrite(m), code + names + exps + rest)
    <2>1. Written(F, WriteInt(1, m.errcode) \o WriteTexts(2, m.name), code + names)
      BY <1>2, Joined
    <2>2. Written(F, WriteInt(1, m.errcode) \o WriteTexts(2, m.name) \o WritePacked(3, m.exp),
                  code + names + exps)
      BY <1>2, <2>1, Joined
    <2> QED
      BY <1>2, <2>2, Joined DEF RankRspWrite
  <1>5. code \in Nat /\ names \in Nat /\ exps \in Nat /\ rest \in Nat
    BY <1>2 DEF Written
  <1>6. code + names + exps + rest = RankRspSize(m)
    BY <1>3, <1>5
  <1> QED
    BY <1>4, <1>6

-----------------------------------------------------------------------------
(* Messages within messages. *)

\* Fields of a class that may hold some of F, which Bytes counts yet.
LEMMA OneDeeper ==
  ASSUME NEW F, Flat \subseteq F, F \subseteq Deep3
  PROVE  Depth(F) /\ Depth(Nested(F))
  <1>1. F \subseteq Deep4
    BY Deeper
  <1>2. Nested(F) \subseteq Deep4
    <2>1. Seq(F) \subseteq Seq(Deep3)
      OBVIOUS
    <2> QED
      BY <2>1 DEF Nested, Deep4
  <1> QED
    BY <1>1, <1>2 DEF Depth, Nested

\* A sub-message that is there.
LEMMA SubMessage ==
  ASSUME NEW F, F \subseteq Deep3, NEW num \in Nat, NEW s, NEW n, Written(F, s, n)
  PROVE  Written(Nested(F), <<Embedded(num, s)>>, 1 + LengthDelimitedSize(n))
  <1> DEFINE t == Embedded(num, s)
  <1>1. t \in Nested(F) /\ t \in Deep4 /\ Width(t) = 1 + LengthDelimitedSize(n)
    BY WrittenMessage DEF Written
  <1>2. LengthDelimitedSize(n) \in Nat
    BY NumberSizes DEF Written, LengthDelimitedSize
  <1> HIDE DEF t
  <1>3. Bytes(<<t>>) = 1 + LengthDelimitedSize(n) /\ <<t>> \in Seq(Nested(F))
    BY <1>1, BytesOfOne
  <1> QED
    BY <1>2, <1>3 DEF Written, t

\* A sequence of messages, each written to w[k], which takes v[k] bytes.
Embeddeds(num, n, w) == [k \in 1 .. n |-> Embedded(num, w[k])]
Delimited(n, v) == [k \in 1 .. n |-> LengthDelimitedSize(v[k])]

LEMMA SubMessages ==
  ASSUME NEW F, F \subseteq Deep3, NEW num \in Nat, NEW n \in Nat, NEW w, NEW v,
         \A k \in 1 .. n : Written(F, w[k], v[k])
  PROVE  Written(Nested(F), Embeddeds(num, n, w), n + Sum(Delimited(n, v)))
  <1> DEFINE s == Embeddeds(num, n, w)
             u == Delimited(n, v)
  <1>1. ASSUME NEW k \in 1 .. n
        PROVE  /\ s[k] \in Nested(F) /\ s[k] \in Deep4
               /\ Width(s[k]) = 1 + u[k] /\ u[k] \in Nat
    <2>1. /\ Written(F, w[k], v[k]) /\ s[k] = Embedded(num, w[k])
          /\ u[k] = LengthDelimitedSize(v[k])
      BY DEF Embeddeds, Delimited
    <2>2. LengthDelimitedSize(v[k]) \in Nat
      <3>1. v[k] \in Nat
        BY <2>1 DEF Written
      <3> HIDE DEF s, u
      <3> QED
        BY <3>1, NumberSizes DEF LengthDelimitedSize
    <2>3. /\ Embedded(num, w[k]) \in Nested(F) /\ Embedded(num, w[k]) \in Deep4
          /\ Width(Embedded(num, w[k])) = 1 + LengthDelimitedSize(v[k])
      BY <2>1, WrittenMessage DEF Written
    <2> HIDE DEF s, u
    <2> QED
      BY <2>1, <2>2, <2>3
  <1>2. s = [k \in 1 .. n |-> s[k]] /\ u = [k \in 1 .. n |-> u[k]]
    BY DEF Embeddeds, Delimited
  <1> HIDE DEF s, u
  <1>3. s \in Seq(Nested(F)) /\ s \in Seq(Deep4) /\ Len(s) = n
    <2> DEFINE G == Nested(F)
    <2>1. \A k \in 1 .. n : s[k] \in G /\ s[k] \in Deep4
      BY <1>1
    <2> HIDE DEF G
    <2>2. s \in [1 .. n -> G] /\ s \in [1 .. n -> Deep4]
      BY <1>2, <2>1
    <2>3. s \in Seq(G) /\ s \in Seq(Deep4) /\ Len(s) = n
      BY <2>2
    <2> QED
      BY <2>3 DEF G
  <1>4. u \in [1 .. n -> Nat]
    BY <1>1, <1>2
  <1>5. Bytes(s) = n + Sum(u)
    BY <1>1, <1>3, <1>4, TaggedFields
  <1>6. Sum(u) \in Nat
    BY <1>4, SumIsNat
  <1>7. Written(Nested(F), s, n + Sum(u))
    BY <1>3, <1>5, <1>6 DEF Written
  <1> QED
    BY <1>7 DEF s, u


BagInfoOf(F) ==
  [bag : Seq(BagItemOf(F)), equipment : Seq(EquipItemOf(F)),
   currency : Seq(CurrencyItemOf(F)), unknown : Seq(Nested(F))]

LEMMA BagInfoExact ==
  ASSUME NEW F, Flat \subseteq F, F \subseteq Deep3, NEW m \in BagInfoOf(F)
  PROVE  Written(Nested(F), BagInfoWrite(m), BagInfoSize(m))
  <1> DEFINE bag == MessagesSize(m.bag, BagItemSize)
             equipment == MessagesSize(m.equipment, EquipItemSize)
             currency == MessagesSize(m.currency, CurrencyItemSize)
             rest == UnknownSize(m.unknown)
             B == WriteMessages(1, m.bag, BagItemWrite)
             E == WriteMessages(2, m.equipment, EquipItemWrite)
             C == WriteMessages(3, m.currency, CurrencyItemWrite)
  <1>1. /\ m.bag \in Seq(BagItemOf(F)) /\ m.equipment \in Seq(EquipItemOf(F))
        /\ m.currency \in Seq(CurrencyItemOf(F)) /\ m.unknown \in Seq(Nested(F))
    BY DEF BagInfoOf
  <1>2. Depth(F) /\ Depth(Nested(F))
    BY OneDeeper
  <1>3. Written(Nested(F), B, bag)
    <2> DEFINE n == Len(m.bag)
               w == [k \in 1 .. n |-> BagItemWrite(m.bag[k])]
               v == [k \in 1 .. n |-> BagItemSize(m.bag[k])]
    <2>1. n \in Nat /\ DOMAIN m.bag = 1 .. n
      BY <1>1
    <2>2. \A k \in 1 .. n : Written(F, w[k], v[k])
      BY <1>1, <1>2, BagItemExact
    <2>3. B = Embeddeds(1, n, w)
      BY <2>1 DEF WriteMessages, Embeddeds
    <2>4. bag = n + Sum(Delimited(n, v))
      <3>1. bag = n + Sum([k \in DOMAIN m.bag |-> LengthDelimitedSize(BagItemSize(m.bag[k]))])
        BY DEF MessagesSize, SumOver
      <3>2. [k \in DOMAIN m.bag |-> LengthDelimitedSize(BagItemSize(m.bag[k]))]
              = Delimited(n, v)
        BY <2>1 DEF Delimited
      <3> QED
        BY <3>1, <3>2
    <2> HIDE DEF n, w, v, B, bag
    <2>5. Written(Nested(F), Embeddeds(1, n, w), n + Sum(Delimited(n, v)))
      BY <2>1, <2>2, SubMessages
    <2> QED
      BY <2>3, <2>4, <2>5
  <1>4. Written(Nested(F), E, equipment)
    <2> DEFINE n == Len(m.equipment)
               w == [k \in 1 .. n |-> EquipItemWrite(m.equipment[k])]
               v == [k \in 1 .. n |-> EquipItemSize(m.equipment[k])]
    <2>1. n \in Nat /\ DOMAIN m.equipment = 1 .. n
      BY <1>1
    <2>2. \A k \in 1 .. n : Written(F, w[k], v[k])
      BY <1>1, <1>2, EquipItemExact
    <2>3. E = Embeddeds(2, n, w)
      BY <2>1 DEF WriteMessages, Embeddeds
    <2>4. equipment = n + Sum(Delimited(n, v))
      <3>1. equipment = n + Sum([k \in DOMAIN m.equipment
                                   |-> LengthDelimitedSize(EquipItemSize(m.equipment[k]))])
        BY DEF MessagesSize, SumOver
      <3>2. [k \in DOMAIN m.equipment |-> LengthDelimitedSize(EquipItemSize(m.equipment[k]))]
              = Delimited(n, v)
        BY <2>1 DEF Delimited
      <3> QED
        BY <3>1, <3>2
    <2> HIDE DEF n, w, v, E, equipment
    <2>5. Written(Nested(F), Embeddeds(2, n, w), n + Sum(Delimited(n, v)))
      BY <2>1, <2>2, SubMessages
    <2> QED
      BY <2>3, <2>4, <2>5
  <1>5. Written(Nested(F), C, currency)
    <2> DEFINE n == Len(m.currency)
               w == [k \in 1 .. n |-> CurrencyItemWrite(m.currency[k])]
               v == [k \in 1 .. n |-> CurrencyItemSize(m.currency[k])]
    <2>1. n \in Nat /\ DOMAIN m.currency = 1 .. n
      BY <1>1
    <2>2. \A k \in 1 .. n : Written(F, w[k], v[k])
      BY <1>1, <1>2, CurrencyItemExact
    <2>3. C = Embeddeds(3, n, w)
      BY <2>1 DEF WriteMessages, Embeddeds
    <2>4. currency = n + Sum(Delimited(n, v))
      <3>1. currency = n + Sum([k \in DOMAIN m.currency
                                  |-> LengthDelimitedSize(CurrencyItemSize(m.currency[k]))])
        BY DEF MessagesSize, SumOver
      <3>2. [k \in DOMAIN m.currency |-> LengthDelimitedSize(CurrencyItemSize(m.currency[k]))]
              = Delimited(n, v)
        BY <2>1 DEF Delimited
      <3> QED
        BY <3>1, <3>2
    <2> HIDE DEF n, w, v, C, currency
    <2>5. Written(Nested(F), Embeddeds(3, n, w), n + Sum(Delimited(n, v)))
      BY <2>1, <2>2, SubMessages
    <2> QED
      BY <2>3, <2>4, <2>5
  <1>6. Written(Nested(F), m.unknown, rest)
    BY <1>1, <1>2, Parts
  <1>7. BagInfoSize(m) = rest + bag + equipment + currency
    BY DEF BagInfoSize
  <1>8. BagInfoWrite(m) = B \o E \o C \o m.unknown
    BY DEF BagInfoWrite
  <1> HIDE DEF bag, equipment, currency, rest, B, E, C
  <1>9. Written(Nested(F), B \o E \o C \o m.unknown, bag + equipment + currency + rest)
    <2>1. Written(Nested(F), B \o E, bag + equipment)
      BY <1>2, <1>3, <1>4, Joined
    <2>2. Written(Nested(F), B \o E \o C, bag + equipment + currency)
      BY <1>2, <1>5, <2>1, Joined
    <2> QED
      BY <1>2, <1>6, <2>2, Joined
  <1>10. bag \in Nat /\ equipment \in Nat /\ currency \in Nat /\ rest \in Nat
    BY <1>3, <1>4, <1>5, <1>6 DEF Written
  <1>11. bag + equipment + currency + rest = BagInfoSize(m)
    BY <1>7, <1>10
  <1> QED
    BY <1>8, <1>9, <1>11

PlayersOf(F) ==
  [id : Int, name : Strings, rank : Int, exp : Int, bags : {Null} \cup BagInfoOf(F),
   unknown : Seq(Nested(Nested(F)))]

LEMMA PlayersExact ==
  ASSUME NEW F, Flat \subseteq F, F \subseteq Deep2, NEW m \in PlayersOf(F)
  PROVE  Written(Nested(Nested(F)), PlayersWrite(m), PlayersSize(m))
  <1> DEFINE G == Nested(F)
             H == Nested(Nested(F))
             id == IntSize(m.id)
             name == TextSize(m.name)
             rank == IntSize(m.rank)
             exp == IntSize(m.exp)
             bags == MessageSize(m.bags, BagInfoSize)
             rest == UnknownSize(m.unknown)
             B == WriteMessage(5, m.bags, BagInfoWrite)
  <1>1. /\ m.id \in Int /\ m.name \in Strings /\ m.rank \in Int /\ m.exp \in Int
        /\ m.bags \in {Null} \cup BagInfoOf(F) /\ m.unknown \in Seq(H)
    BY DEF PlayersOf
  <1>2. F \subseteq Deep3 /\ Flat \subseteq G /\ G \subseteq Deep3
    <2>1. F \subseteq Deep3
      BY Deeper
    <2>2. Nested(F) \subseteq Deep3
      <3>1. Seq(F) \subseteq Seq(Deep2)
        OBVIOUS
      <3> QED
        BY <3>1 DEF Nested, Deep3
    <2> QED
      BY <2>1, <2>2 DEF Nested
  <1>3. Depth(H)
    <2> HIDE DEF G
    <2>1. Depth(Nested(G))
      BY <1>2, OneDeeper
    <2> QED
      BY <2>1 DEF G
  <1>4. Written(H, B, bags)
    <2>1. CASE m.bags = Null
      <3>1. B = <<>> /\ bags = 0
        BY <2>1 DEF WriteMessage, MessageSize
      <3> HIDE DEF B, bags, H
      <3> QED
        BY <3>1, BytesOfNone DEF Written
    <2>2. CASE m.bags # Null
      <3> DEFINE s == BagInfoWrite(m.bags)
                 n == BagInfoSize(m.bags)
      <3>1. Written(G, s, n)
        BY <1>1, <1>2, <2>2, BagInfoExact
      <3>2. B = <<Embedded(5, s)>> /\ bags = 1 + LengthDelimitedSize(n)
        BY <2>2 DEF WriteMessage, MessageSize
      <3> HIDE DEF s, n, B, bags, G
      <3>3. Written(Nested(G), <<Embedded(5, s)>>, 1 + LengthDelimitedSize(n))
        BY <1>2, <3>1, SubMessage
      <3>4. Written(Nested(G), B, bags)
        BY <3>2, <3>3
      <3> QED
        BY <3>4 DEF G
    <2> QED
      BY <2>1, <2>2
  <1>5. /\ Written(H, WriteInt(1, m.id), id)
        /\ Written(H, WriteText(2, m.name), name)
        /\ Written(H, WriteInt(3, m.rank), rank)
        /\ Written(H, WriteInt(4, m.exp), exp)
        /\ Written(H, m.unknown, rest)
    <2> HIDE DEF H
    <2> QED
      BY <1>1, <1>3, Parts
  <1>6. PlayersSize(m) = rest + name + bags + id + rank + exp
    BY DEF PlayersSize
  <1>7. PlayersWrite(m) = WriteInt(1, m.id) \o WriteText(2, m.name) \o WriteInt(3, m.rank)
                          \o WriteInt(4, m.exp) \o B \o m.unknown
    BY DEF PlayersWrite
  <1> DEFINE I == WriteInt(1, m.id)
             N == WriteText(2, m.name)
             R == WriteInt(3, m.rank)
             X == WriteInt(4, m.exp)
             U == m.unknown
  <1>8. /\ Written(H, I, id) /\ Written(H, N, name) /\ Written(H, R, rank)
        /\ Written(H, X, exp) /\ Written(H, B, bags) /\ Written(H, U, rest)
        /\ PlayersWrite(m) = I \o N \o R \o X \o B \o U
    BY <1>4, <1>5, <1>7
  <1> HIDE DEF H, id, name, rank, exp, bags, rest, B, I, N, R, X, U
  <1>9. Written(H, I \o N \o R \o X \o B \o U, id + name + rank + exp + bags + rest)
    <2>1. Written(H, I \o N, id + name)
      BY <1>3, <1>8, Joined
    <2>2. Written(H, I \o N \o R, id + name + rank)
      BY <1>3, <1>8, <2>1, Joined
    <2>3. Written(H, I \o N \o R \o X, id + name + rank + exp)
      BY <1>3, <1>8, <2>2, Joined
    <2>4. Written(H, I \o N \o R \o X \o B, id + name + rank + exp + bags)
      BY <1>3, <1>8, <2>3, Joined
    <2> QED
      BY <1>3, <1>8, <2>4, Joined
  <1>10. /\ id \in Nat /\ name \in Nat /\ rank \in Nat /\ exp \in Nat /\ bags \in Nat
         /\ rest \in Nat
    BY <1>8 DEF Written
  <1>11. id + name + rank + exp + bags + rest = PlayersSize(m)
    BY <1>6, <1>10
  <1>12. Written(H, PlayersWrite(m), PlayersSize(m))
    BY <1>8, <1>9, <1>11
  <1> QED
    BY <1>12 DEF H


\* The answers to a login and to a search have the same fields.
AnswerOf(F) ==
  [errcode : Int, player : {Null} \cup PlayersOf(F),
   unknown : Seq(Nested(Nested(Nested(F))))]

LEMMA CtlMsgLoginRspExact ==
  ASSUME NEW F, Flat \subseteq F, F \subseteq Deep1, NEW m \in AnswerOf(F)
  PROVE  Written(Nested(Nested(Nested(F))), CtlMsgLoginRspWrite(m), CtlMsgLoginRspSize(m))
  <1> DEFINE G == Nested(Nested(F))
             H == Nested(Nested(Nested(F)))
             code == IntSize(m.errcode)
             player == MessageSize(m.player, PlayersSize)
             rest == UnknownSize(m.unknown)
             I == WriteInt(1, m.errcode)
             P == WriteMessage(2, m.player, PlayersWrite)
             U == m.unknown
  <1>1. m.errcode \in Int /\ m.player \in {Null} \cup PlayersOf(F) /\ U \in Seq(H)
    BY DEF AnswerOf
  <1>2. F \subseteq Deep2 /\ Flat \subseteq G /\ G \subseteq Deep3
    <2>1. Nested(F) \subseteq Deep2
      <3>1. Seq(F) \subseteq Seq(Deep1)
        OBVIOUS
      <3> QED
        BY <3>1 DEF Nested, Deep2
    <2>2. Nested(Nested(F)) \subseteq Deep3
      <3> DEFINE E == Nested(F)
      <3>1. Seq(E) \subseteq Seq(Deep2)
        BY <2>1
      <3> HIDE DEF E
      <3>2. Nested(E) \subseteq Deep3
        BY <3>1 DEF Nested, Deep3
      <3> QED
        BY <3>2 DEF E
    <2>3. F \subseteq Deep2
      BY Deeper
    <2>4. Flat \subseteq G
      BY DEF Nested
    <2> QED
      BY <2>2, <2>3, <2>4
  <1>3. Depth(H)
    <2> HIDE DEF G
    <2>1. Depth(Nested(G))
      BY <1>2, OneDeeper
    <2> QED
      BY <2>1 DEF G
  <1>4. Written(H, P, player)
    <2>1. CASE m.player = Null
      <3>1. P = <<>> /\ player = 0
        BY <2>1 DEF WriteMessage, MessageSize
      <3> HIDE DEF P, player, H
      <3> QED
        BY <3>1, BytesOfNone DEF Written
    <2>2. CASE m.player # Null
      <3> DEFINE s == PlayersWrite(m.player)
                 n == PlayersSize(m.player)
      <3>1. Written(G, s, n)
        BY <1>1, <1>2, <2>2, PlayersExact
      <3>2. P = <<Embedded(2, s)>> /\ player = 1 + LengthDelimitedSize(n)
        BY <2>2 DEF WriteMessage, MessageSize
      <3> HIDE DEF s, n, P, player, G
      <3>3. Written(Nested(G), <<Embedded(2, s)>>, 1 + LengthDelimitedSize(n))
        BY <1>2, <3>1, SubMessage
      <3>4. Written(Nested(G), P, player)
        BY <3>2, <3>3
      <3> QED
        BY <3>4 DEF G
    <2> QED
      BY <2>1, <2>2
  <1>5. Written(H, I, code) /\ Written(H, U, rest)
    <2> HIDE DEF H
    <2> QED
      BY <1>1, <1>3, Parts
  <1>6. CtlMsgLoginRspSize(m) = rest + player + code
    BY DEF CtlMsgLoginRspSize
  <1>7. CtlMsgLoginRspWrite(m) = I \o P \o U
    BY DEF CtlMsgLoginRspWrite
  <1> HIDE DEF H, code, player, rest, I, P, U
  <1>8. Written(H, I \o P \o U, code + player + rest)
    <2>1. Written(H, I \o P, code + player)
      BY <1>3, <1>4, <1>5, Joined
    <2> QED
      BY <1>3, <1>5, <2>1, Joined
  <1>9. code \in Nat /\ player \in Nat /\ rest \in Nat
    BY <1>4, <1>5 DEF Written
  <1>10. code + player + rest = CtlMsgLoginRspSize(m)
    BY <1>6, <1>9
  <1>11. Written(H, CtlMsgLoginRspWrite(m), CtlMsgLoginRspSize(m))
    BY <1>7, <1>8, <1>10
  <1> QED
    BY <1>11 DEF H

LEMMA CtlMsgSearchRspExact ==
  ASSUME NEW F, Flat \subseteq F, F \subseteq Deep1, NEW m \in AnswerOf(F)
  PROVE  Written(Nested(Nested(Nested(F))), CtlMsgSearchRspWrite(m), CtlMsgSearchRspSize(m))
  <1>1. CtlMsgSearchRspWrite(m) = CtlMsgLoginRspWrite(m)
    BY DEF CtlMsgSearchRspWrite, CtlMsgLoginRspWrite
  <1>2. CtlMsgSearchRspSize(m) = CtlMsgLoginRspSize(m)
    BY DEF CtlMsgSearchRspSize, CtlMsgLoginRspSize
  <1> QED
    BY <1>1, <1>2, CtlMsgLoginRspExact

(* Whatever an object holds, ByteSizeLong is the number of bytes that       *)
(* SerializeToArray writes: numbers of either sign, texts and lists of any  *)
(* length, items in bags in a player in an answer, and fields kept from a   *)
(* newer version, as far down as Bytes counts.                              *)
THEOREM SizesAreExact ==
  /\ \A m \in BagItemOf(Deep1) : BagItemSize(m) = Bytes(BagItemWrite(m))
  /\ \A m \in EquipItemOf(Deep1) : EquipItemSize(m) = Bytes(EquipItemWrite(m))
  /\ \A m \in CurrencyItemOf(Deep1) : CurrencyItemSize(m) = Bytes(CurrencyItemWrite(m))
  /\ \A m \in BagInfoOf(Deep1) : BagInfoSize(m) = Bytes(BagInfoWrite(m))
  /\ \A m \in PlayersOf(Deep1) : PlayersSize(m) = Bytes(PlayersWrite(m))
  /\ \A m \in AnswerOf(Deep1) :
       /\ CtlMsgLoginRspSize(m) = Bytes(CtlMsgLoginRspWrite(m))
       /\ CtlMsgSearchRspSize(m) = Bytes(CtlMsgSearchRspWrite(m))
  /\ \A m \in AddItemReqOf(Deep4) : AddItemReqSize(m) = Bytes(AddItemReqWrite(m))
  /\ \A m \in AddItemRspOf(Deep4) : AddItemRspSize(m) = Bytes(AddItemRspWrite(m))
  /\ \A m \in RemoveItemReqOf(Deep4) : RemoveItemReqSize(m) = Bytes(RemoveItemReqWrite(m))
  /\ \A m \in RemoveItemRspOf(Deep4) : RemoveItemRspSize(m) = Bytes(RemoveItemRspWrite(m))
  /\ \A m \in CtlMsgLoginReqOf(Deep4) : CtlMsgLoginReqSize(m) = Bytes(CtlMsgLoginReqWrite(m))
  /\ \A m \in CtlMsgSearchReqOf(Deep4) : CtlMsgSearchReqSize(m) = Bytes(CtlMsgSearchReqWrite(m))
  /\ \A m \in RankReqOf(Deep4) : RankReqSize(m) = Bytes(RankReqWrite(m))
  /\ \A m \in RankRspOf(Deep4) : RankRspSize(m) = Bytes(RankRspWrite(m))
  <1>1. /\ Depth(Deep1) /\ Depth(Deep4) /\ Flat \subseteq Deep1
        /\ Deep1 \subseteq Deep2 /\ Deep1 \subseteq Deep3
    BY Deeper DEF Depth
  <1>2. \A F, s, n : Written(F, s, n) => n = Bytes(s)
    BY DEF Written
  <1>3. \A m \in BagItemOf(Deep1) : BagItemSize(m) = Bytes(BagItemWrite(m))
    BY <1>1, <1>2, BagItemExact
  <1>4. \A m \in EquipItemOf(Deep1) : EquipItemSize(m) = Bytes(EquipItemWrite(m))
    BY <1>1, <1>2, EquipItemExact
  <1>5. \A m \in CurrencyItemOf(Deep1) : CurrencyItemSize(m) = Bytes(CurrencyItemWrite(m))
    BY <1>1, <1>2, CurrencyItemExact
  <1>6. \A m \in BagInfoOf(Deep1) : BagInfoSize(m) = Bytes(BagInfoWrite(m))
    BY <1>1, <1>2, BagInfoExact
  <1>7. \A m \in PlayersOf(Deep1) : PlayersSize(m) = Bytes(PlayersWrite(m))
    BY <1>1, <1>2, PlayersExact
  <1>8. \A m \in AnswerOf(Deep1) :
          /\ CtlMsgLoginRspSize(m) = Bytes(CtlMsgLoginRspWrite(m))
          /\ CtlMsgSearchRspSize(m) = Bytes(CtlMsgSearchRspWrite(m))
    BY <1>1, <1>2, CtlMsgLoginRspExact, CtlMsgSearchRspExact
  <1>9. \A m \in AddItemReqOf(Deep4) : AddItemReqSize(m) = Bytes(AddItemReqWrite(m))
    BY <1>1, <1>2, AddItemReqExact
  <1>10. \A m \in AddItemRspOf(Deep4) : AddItemRspSize(m) = Bytes(AddItemRspWrite(m))
    BY <1>1, <1>2, AddItemRspExact
  <1>11. \A m \in RemoveItemReqOf(Deep4) : RemoveItemReqSize(m) = Bytes(RemoveItemReqWrite(m))
    BY <1>1, <1>2, RemoveItemReqExact
  <1>12. \A m \in RemoveItemRspOf(Deep4) : RemoveItemRspSize(m) = Bytes(RemoveItemRspWrite(m))
    BY <1>1, <1>2, RemoveItemRspExact
  <1>13. \A m \in CtlMsgLoginReqOf(Deep4) : CtlMsgLoginReqSize(m) = Bytes(CtlMsgLoginReqWrite(m))
    BY <1>1, <1>2, CtlMsgLoginReqExact
  <1>14. \A m \in CtlMsgSearchReqOf(Deep4) : CtlMsgSearchReqSize(m) = Bytes(CtlMsgSearchReqWrite(m))
    BY <1>1, <1>2, CtlMsgSearchReqExact
  <1>15. \A m \in RankReqOf(Deep4) : RankReqSize(m) = Bytes(RankReqWrite(m))
    BY <1>1, <1>2, RankReqExact
  <1>16. \A m \in RankRspOf(Deep4) : RankRspSize(m) = Bytes(RankRspWrite(m))
    BY <1>1, <1>2, RankRspExact
  <1> QED
    BY <1>3, <1>4, <1>5, <1>6, <1>7, <1>8, <1>9, <1>10, <1>11, <1>12, <1>13, <1>14, <1>15, <1>16

(* The same of the messages that have a file each. *)
THEOREM PlainSizesAreExact ==
  /\ \A m \in MSG_PLAYER_MOVEOf(Deep4) : MSG_PLAYER_MOVE_Size(m) = Bytes(MSG_PLAYER_MOVE_Write(m))
  /\ \A m \in MSG_PLAYER_REGISTEROf(Deep4) :
       MSG_PLAYER_REGISTER_Size(m) = Bytes(MSG_PLAYER_REGISTER_Write(m))
  /\ \A m \in MsgTestOf(Deep4) : MsgTestSize(m) = Bytes(MsgTestWrite(m))
  <1>1. Depth(Deep4)
    BY Deeper DEF Depth
  <1> QED
    BY <1>1, MSG_PLAYER_MOVEExact, MSG_PLAYER_REGISTERExact, MsgTestExact DEF Written

=============================================================================
