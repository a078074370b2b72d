-------------------------- MODULE PublicFeed_proofs --------------------------
(***************************************************************************)
(* Proofs about the subscriber's page, which keeps a copy of what the      *)
(* server holds, and the feed it orders: types, that a save is refused     *)
(* only when the operator has changed the groups, that the page at rest    *)
(* shows the choice in force, that a feed during which nothing changed is  *)
(* exactly what the included groups hold, and that the URI and the         *)
(* outbound of a connect lead to the same server.                          *)
(*                                                                         *)
(* The page is about lists, told by the places that are kept of others, so *)
(* most of what is proved rests on two facts: a finite set whose elements  *)
(* have different places can be put in order, in one way only, and the     *)
(* first places of a list, if all are kept, stay where they are.  The two  *)
(* forms of a connect are compared key by key: what one conversion writes  *)
(* under a name the other finds there.                                     *)
(***************************************************************************)
EXTENDS PublicFeed, FiniteSetTheorems, SequenceTheorems, TLAPS

-----------------------------------------------------------------------------
(* Lists told by the places that are kept.                                 *)

(* Every set of natural numbers that is not empty has a least element;     *)
(* proofs by induction here are by the least counterexample.               *)
LEMMA Least ==
    ASSUME NEW T, T \subseteq Nat, T # {}
    PROVE  \E x \in T : \A y \in T : x <= y
  <1> DEFINE R == OpToRel(<, Nat)
  <1>1. IsWellFoundedOn(R, Nat)
    BY NatLessThanWellFounded
  <1>2. PICK x \in T : \A y \in T : <<y, x>> \notin R
    BY <1>1, WFMin, Zenon
  <1>3. \A y \in T : ~ (y < x)
    BY <1>2 DEF OpToRel
  <1> HIDE DEF R
  <1> QED
    BY <1>2, <1>3

LEMMA PlacesFinite ==
    ASSUME NEW n \in Nat
    PROVE  /\ IsFiniteSet(1 .. n) /\ Cardinality(1 .. n) = n
           /\ \A P \in SUBSET (1 .. n) : IsFiniteSet(P) /\ Cardinality(P) \in Nat
  <1>1. IsFiniteSet(1 .. n) /\ Cardinality(1 .. n) = n
    BY FS_Interval
  <1>2. ASSUME NEW P \in SUBSET (1 .. n)
        PROVE  IsFiniteSet(P) /\ Cardinality(P) \in Nat
    <2>1. IsFiniteSet(P)
      BY <1>1, FS_Subset
    <2> QED
      BY <2>1, FS_CardinalityType
  <1> QED
    BY <1>1, <1>2

(* What goes before each element makes an order.                           *)
Orders(S, ahead) ==
    /\ IsFiniteSet(S)
    /\ \A x \in S : ahead[x] \subseteq S /\ x \notin ahead[x]
    /\ \A x, y \in S : x # y => x \in ahead[y] \/ y \in ahead[x]
    /\ \A x, y \in S : y \in ahead[x] => ahead[y] \subseteq ahead[x]

(* Sorted lists every element once, each after those that go before it:    *)
(* no two have the same number of elements before them.                    *)
LEMMA SortedProperties ==
    ASSUME NEW S, NEW ahead, Orders(S, ahead)
    PROVE  LET s == Sorted(S, ahead) IN
           /\ Cardinality(S) \in Nat
           /\ s \in [1 .. Cardinality(S) -> S]
           /\ \A i, j \in DOMAIN s : i # j => s[i] # s[j]
           /\ \A x \in S : \E i \in DOMAIN s : s[i] = x
           /\ \A i, j \in DOMAIN s : i < j => s[i] \in ahead[s[j]]
  <1> DEFINE s == Sorted(S, ahead)
             n == Cardinality(S)
             r == [x \in S |-> Cardinality(ahead[x]) + 1]
  <1>1. IsFiniteSet(S) /\ n \in Nat
    BY FS_CardinalityType DEF Orders
  <1>2. ASSUME NEW x \in S
        PROVE  IsFiniteSet(ahead[x]) /\ Cardinality(ahead[x]) \in 0 .. n - 1
    <2>1. ahead[x] \in SUBSET (S \ {x})
      BY DEF Orders
    <2>2. IsFiniteSet(S \ {x}) /\ Cardinality(S \ {x}) = n - 1
      BY <1>1, FS_RemoveElement
    <2>3. IsFiniteSet(ahead[x]) /\ Cardinality(ahead[x]) <= Cardinality(S \ {x})
      BY <2>1, <2>2, FS_Subset
    <2>4. Cardinality(ahead[x]) \in Nat
      BY <2>3, FS_CardinalityType
    <2> QED
      BY <2>2, <2>3, <2>4, <1>1
  <1>3. ASSUME NEW x \in S, NEW y \in S, y \in ahead[x]
        PROVE  Cardinality(ahead[y]) < Cardinality(ahead[x])
    <2>1. ahead[y] \in SUBSET ahead[x] /\ ahead[y] # ahead[x]
      BY <1>3 DEF Orders
    <2>2. /\ Cardinality(ahead[y]) <= Cardinality(ahead[x])
          /\ Cardinality(ahead[x]) # Cardinality(ahead[y])
      BY <2>1, <1>2, FS_Subset
    <2> QED
      BY <2>2, <1>2
  <1>4. r \in Injection(S, 1 .. n)
    <2>1. r \in [S -> 1 .. n]
      BY <1>1, <1>2
    <2>2. ASSUME NEW x \in S, NEW y \in S, r[x] = r[y] PROVE x = y
      <3>1. Cardinality(ahead[x]) = Cardinality(ahead[y])
        BY <2>2, <1>2
      <3> QED
        BY <3>1, <1>2, <1>3 DEF Orders
    <2> HIDE DEF r
    <2> QED
      BY <2>1, <2>2 DEF Injection, IsInjective
  <1>5. r \in Surjection(S, 1 .. n)
    <2>1. IsFiniteSet(1 .. n) /\ Cardinality(1 .. n) = n
      BY <1>1, FS_Interval
    <2> HIDE DEF r
    <2> QED
      BY <2>1, <1>4, FS_Injection
  <1>6. ASSUME NEW i \in 1 .. n
        PROVE  s[i] \in S /\ Cardinality(ahead[s[i]]) = i - 1
    <2>1. \E x \in S : r[x] = i
      <3> HIDE DEF r
      <3> QED
        BY <1>5 DEF Surjection
    <2>2. \E x \in S : Cardinality(ahead[x]) = i - 1
      BY <2>1, <1>2
    <2>3. s[i] = CHOOSE x \in S : Cardinality(ahead[x]) = i - 1
      BY DEF Sorted
    <2> HIDE DEF s
    <2> QED
      BY <2>2, <2>3
  <1>7. s \in [1 .. n -> S]
    <2>1. s = [i \in 1 .. n |-> s[i]]
      BY DEF Sorted
    <2> HIDE DEF s
    <2> QED
      BY <2>1, <1>6
  <1> HIDE DEF s
  <1>8. DOMAIN s = 1 .. n
    BY <1>7
  <1>9. \A i, j \in 1 .. n : i # j => s[i] # s[j]
    BY <1>6, <1>1
  <1>10. ASSUME NEW x \in S PROVE \E i \in 1 .. n : s[i] = x
    <2>1. r[x] \in 1 .. n /\ r[x] - 1 = Cardinality(ahead[x])
      BY <1>2, <1>1
    <2>2. s[r[x]] \in S /\ Cardinality(ahead[s[r[x]]]) = Cardinality(ahead[x])
      BY <2>1, <1>6
    <2>3. r[s[r[x]]] = r[x]
      BY <2>2
    <2>4. s[r[x]] = x
      <3>1. \A y, z \in S : r[y] = r[z] => y = z
        <4> HIDE DEF r
        <4> QED
          BY <1>4 DEF Injection, IsInjective
      <3> HIDE DEF r
      <3> QED
        BY <2>2, <2>3, <3>1
    <2> QED
      BY <2>1, <2>4
  <1>11. ASSUME NEW i \in 1 .. n, NEW j \in 1 .. n, i < j
         PROVE  s[i] \in ahead[s[j]]
    <2>1. /\ s[i] \in S /\ s[j] \in S /\ s[i] # s[j]
          /\ Cardinality(ahead[s[i]]) < Cardinality(ahead[s[j]])
      BY <1>6, <1>9, <1>11, <1>1
    <2>2. s[j] \notin ahead[s[i]]
      BY <2>1, <1>2, <1>3
    <2> QED
      BY <2>1, <2>2 DEF Orders
  <1> QED
    BY <1>1, <1>7, <1>8, <1>9, <1>10, <1>11 DEF s

(* A list of the elements of S that keeps the order is that one.           *)
LEMMA SortedUnique ==
    ASSUME NEW S, NEW ahead, Orders(S, ahead), NEW m \in Nat, NEW t \in [1 .. m -> S],
           \A x \in S : \E i \in 1 .. m : t[i] = x,
           \A i, j \in 1 .. m : i < j => t[i] \in ahead[t[j]]
    PROVE  t = Sorted(S, ahead)
  <1> DEFINE s == Sorted(S, ahead)
             n == Cardinality(S)
  <1>1. /\ n \in Nat /\ s \in [1 .. n -> S]
        /\ \A x \in S : \E i \in 1 .. n : s[i] = x
        /\ \A i, j \in 1 .. n : i < j => s[i] \in ahead[s[j]]
    BY SortedProperties
  <1> HIDE DEF s
  <1>2. /\ \A x \in S : x \notin ahead[x]
        /\ \A x, y \in S : x \in ahead[y] => y \notin ahead[x]
    BY DEF Orders
  <1>3. \A i, j \in 1 .. m : i # j => t[i] # t[j]
    <2>1. \A i, j \in 1 .. m : i < j => t[i] # t[j]
      BY <1>2
    <2> QED
      BY <2>1
  <1>4. m = n
    <2>1. t \in Injection(1 .. m, S)
      BY <1>3 DEF Injection, IsInjective
    <2>2. t \in Surjection(1 .. m, S)
      BY DEF Surjection
    <2>3. IsFiniteSet(S) /\ IsFiniteSet(1 .. m) /\ Cardinality(1 .. m) = m
      BY FS_Interval DEF Orders
    <2> QED
      BY <2>1, <2>2, <2>3, FS_Surjection
  <1> DEFINE Bad == {i \in 1 .. n : t[i] # s[i]}
  <1>5. Bad = {}
    <2>1. SUFFICES ASSUME Bad # {} PROVE FALSE
      OBVIOUS
    <2>2. PICK i \in Bad : \A j \in Bad : i <= j
      <3>1. Bad \subseteq Nat
        OBVIOUS
      <3> HIDE DEF Bad
      <3> QED
        BY <2>1, <3>1, Least
    <2>3. i \in 1 .. n /\ t[i] # s[i] /\ \A j \in 1 .. n : j < i => t[j] = s[j]
      BY <2>2, <1>1
    <2>4. PICK k \in 1 .. n : s[k] = t[i]
      BY <2>3, <1>1, <1>4
    <2>5. PICK l \in 1 .. n : t[l] = s[i]
      BY <2>3, <1>1, <1>4
    <2>6. ~ (k < i)
      BY <2>3, <2>4, <1>3, <1>4
    <2>7. ~ (l < i)
      <3>1. ASSUME l < i PROVE FALSE
        <4>1. s[l] = s[i]
          BY <3>1, <2>3, <2>5
        <4>2. s[l] \in ahead[s[i]]
          BY <3>1, <2>3, <1>1
        <4> QED
          BY <4>1, <4>2, <2>3, <1>1, <1>2
      <3> QED
        BY <3>1
    <2>8. k > i /\ l > i
      BY <2>3, <2>4, <2>5, <2>6, <2>7, <1>1
    <2>9. s[i] \in ahead[s[k]] /\ t[i] \in ahead[t[l]]
      BY <2>3, <2>8, <1>1, <1>4
    <2> QED
      BY <2>3, <2>4, <2>5, <2>9, <1>1, <1>2
  <1>6. t = s
    BY <1>1, <1>4, <1>5
  <1> QED
    BY <1>6 DEF s

(* Elements with different places can be put in order.                     *)
Ranked(S, place) ==
    /\ IsFiniteSet(S)
    /\ \A x \in S : place[x] \in Nat
    /\ \A x, y \in S : place[x] = place[y] => x = y

Ascending(s, place) == \A i, j \in DOMAIN s : i < j => place[s[i]] < place[s[j]]

(* InOrder lists every element once.                                       *)
LEMMA Ordered ==
    ASSUME NEW S, NEW place, Ranked(S, place)
    PROVE  LET s == InOrder(S, place) IN
           /\ Cardinality(S) \in Nat
           /\ s \in [1 .. Cardinality(S) -> S]
           /\ \A i, j \in DOMAIN s : i # j => s[i] # s[j]
           /\ \A x \in S : \E i \in DOMAIN s : s[i] = x
           /\ Ascending(s, place)
  <1> DEFINE ahead == [x \in S |-> {y \in S : place[y] < place[x]}]
             s == Sorted(S, ahead)
  <1>1. Orders(S, ahead)
    BY DEF Ranked, Orders
  <1>2. \A x \in S : ahead[x] = {y \in S : place[y] < place[x]}
    OBVIOUS
  <1> HIDE DEF ahead
  <1>3. /\ Cardinality(S) \in Nat /\ s \in [1 .. Cardinality(S) -> S]
        /\ \A i, j \in DOMAIN s : i # j => s[i] # s[j]
        /\ \A x \in S : \E i \in DOMAIN s : s[i] = x
        /\ \A i, j \in DOMAIN s : i < j => s[i] \in ahead[s[j]]
    BY <1>1, SortedProperties
  <1> HIDE DEF s
  <1>4. Ascending(s, place)
    BY <1>2, <1>3 DEF Ascending
  <1>5. s = InOrder(S, place)
    BY DEF s, ahead, InOrder
  <1> QED
    BY <1>3, <1>4, <1>5

(* What Kept keeps is told by a list of places that ascends.               *)
KeptBy(s, places, at) ==
    /\ at \in [1 .. Cardinality(places) -> places]
    /\ Cardinality(places) \in Nat
    /\ \A i, j \in 1 .. Cardinality(places) : i < j => at[i] < at[j]
    /\ \A p \in places : \E i \in 1 .. Cardinality(places) : at[i] = p
    /\ Kept(s, places) = [k \in 1 .. Cardinality(places) |-> s[at[k]]]

LEMMA KeptPlaces ==
    ASSUME NEW E, NEW s \in Seq(E), NEW places \in SUBSET DOMAIN s
    PROVE  /\ \E at : KeptBy(s, places, at)
           /\ Kept(s, places) \in Seq(E)
           /\ Len(Kept(s, places)) = Cardinality(places)
  <1> DEFINE id == [i \in places |-> i]
             at == InOrder(places, id)
             n == Cardinality(places)
  <1>1. /\ Len(s) \in Nat /\ DOMAIN s = 1 .. Len(s) /\ s \in [1 .. Len(s) -> E]
        /\ places \subseteq 1 .. Len(s)
    BY LenProperties
  <1>2. IsFiniteSet(places)
    BY <1>1, PlacesFinite
  <1>3. Ranked(places, id)
    BY <1>1, <1>2 DEF Ranked
  <1>4. /\ n \in Nat /\ at \in [1 .. n -> places]
        /\ \A p \in places : \E i \in DOMAIN at : at[i] = p
        /\ Ascending(at, id)
    <2> HIDE DEF id
    <2> QED
      BY <1>3, Ordered
  <1>5. Kept(s, places) = [k \in DOMAIN at |-> s[at[k]]]
    BY DEF Kept
  <1> HIDE DEF at
  <1>6. \A i, j \in 1 .. n : i < j => at[i] < at[j]
    BY <1>4 DEF Ascending
  <1>7. KeptBy(s, places, at)
    BY <1>4, <1>5, <1>6 DEF KeptBy
  <1>8. Kept(s, places) \in [1 .. n -> E]
    BY <1>1, <1>4, <1>5
  <1>9. Kept(s, places) \in Seq(E)
    <2>1. \E m \in Nat : Kept(s, places) \in [1 .. m -> E]
      BY <1>4, <1>8
    <2> HIDE DEF n
    <2> QED
      BY <2>1, SeqDef
  <1> QED
    BY <1>4, <1>7, <1>8, <1>9, LenProperties

(* The places up to m, if all are kept, stay where they are.               *)
LEMMA KeptPrefix ==
    ASSUME NEW E, NEW s \in Seq(E), NEW places \in SUBSET DOMAIN s, NEW m \in Nat,
           1 .. m \subseteq places
    PROVE  /\ m <= Len(Kept(s, places))
           /\ \A k \in 1 .. m : Kept(s, places)[k] = s[k]
  <1> DEFINE n == Cardinality(places)
  <1>1. PICK at : KeptBy(s, places, at)
    BY KeptPlaces
  <1>2. Len(Kept(s, places)) = n /\ n \in Nat
    BY <1>1, KeptPlaces DEF KeptBy
  <1>3. /\ Len(s) \in Nat /\ DOMAIN s = 1 .. Len(s)
        /\ places \subseteq 1 .. Len(s)
    BY LenProperties
  <1>4. m <= n
    <2>1. IsFiniteSet(places)
      BY <1>3, PlacesFinite
    <2>2. Cardinality(1 .. m) <= n
      BY <2>1, FS_Subset
    <2>3. Cardinality(1 .. m) = m
      BY FS_Interval
    <2> QED
      BY <2>2, <2>3
  <1> DEFINE T == {k \in 1 .. m : at[k] # k}
  <1>5. T = {}
    <2>1. SUFFICES ASSUME T # {} PROVE FALSE
      OBVIOUS
    <2>2. PICK k \in T : \A j \in T : k <= j
      <3>1. T \subseteq Nat
        OBVIOUS
      <3> HIDE DEF T
      <3> QED
        BY <2>1, <3>1, Least
    <2>3. k \in 1 .. m /\ at[k] # k /\ k \in 1 .. n
      BY <2>2, <1>4, <1>2
    <2>4. \A j \in 1 .. m : j < k => at[j] = j
      BY <2>2, <2>3
    <2>5. at[k] \in Nat /\ at[k] >= 1
      BY <1>1, <1>3, <2>3 DEF KeptBy
    <2>6. at[k] >= k
      <3>1. CASE k = 1
        BY <2>5, <3>1
      <3>2. CASE k # 1
        <4>1. k - 1 \in 1 .. m /\ k - 1 < k /\ k - 1 \in 1 .. n
          BY <2>3, <3>2, <1>2
        <4>2. at[k - 1] = k - 1
          BY <4>1, <2>4
        <4>3. at[k - 1] < at[k]
          BY <4>1, <2>3, <1>1 DEF KeptBy
        <4> QED
          BY <4>2, <4>3, <2>3, <2>5
      <3> QED
        BY <3>1, <3>2
    <2>7. PICK i \in 1 .. n : at[i] = k
      BY <1>1, <2>3 DEF KeptBy
    <2>8. CASE i < k
      <3>1. i \in 1 .. m
        BY <2>3, <2>8, <2>7, <1>2
      <3> QED
        BY <3>1, <2>8, <2>4, <2>7
    <2>9. CASE i = k
      BY <2>9, <2>7, <2>3
    <2>10. CASE k < i
      <3>1. at[k] < at[i]
        BY <2>10, <2>3, <2>7, <1>1 DEF KeptBy
      <3> QED
        BY <3>1, <2>6, <2>7, <2>5, <2>3
    <2> QED
      BY <2>8, <2>9, <2>10, <2>3, <2>7, <1>2
  <1>6. \A k \in 1 .. m : at[k] = k /\ k \in 1 .. n
    BY <1>5, <1>4, <1>2
  <1> QED
    BY <1>1, <1>2, <1>4, <1>6 DEF KeptBy

(* Where exactly those are kept, nothing else is.                          *)
LEMMA KeptInitial ==
    ASSUME NEW E, NEW s \in Seq(E), NEW m \in Nat, m <= Len(s)
    PROVE  /\ Len(Kept(s, 1 .. m)) = m
           /\ \A k \in 1 .. m : Kept(s, 1 .. m)[k] = s[k]
  <1>1. 1 .. m \in SUBSET DOMAIN s
    BY LenProperties
  <1>2. Cardinality(1 .. m) = m
    BY FS_Interval
  <1> QED
    BY <1>1, <1>2, KeptPlaces, KeptPrefix

-----------------------------------------------------------------------------
(* Firsts and Those.                                                       *)
Free(s, key) == \A i, j \in DOMAIN s : key[s[i]] = key[s[j]] => i = j

FirstPlaces(s, key) == {i \in DOMAIN s : \A j \in 1 .. i - 1 : key[s[j]] # key[s[i]]}

LEMMA FirstsProperties ==
    ASSUME NEW E, NEW s \in Seq(E), NEW key
    PROVE  LET r == Firsts(s, key) IN
           /\ r \in Seq(E)
           /\ Free(r, key)
           /\ \A k \in DOMAIN r : \E i \in DOMAIN s : r[k] = s[i]
           /\ \A i \in DOMAIN s : \E k \in DOMAIN r : key[r[k]] = key[s[i]]
  <1> DEFINE I == FirstPlaces(s, key)
             r == Kept(s, I)
             n == Cardinality(I)
  <1>1. I \in SUBSET DOMAIN s /\ Firsts(s, key) = r
    BY DEF FirstPlaces, Firsts
  <1>2. /\ Len(s) \in Nat /\ DOMAIN s = 1 .. Len(s)
    BY LenProperties
  <1>3. PICK at : KeptBy(s, I, at)
    BY <1>1, KeptPlaces
  <1>4. r \in Seq(E) /\ Len(r) = n
    BY <1>1, KeptPlaces
  <1>5. DOMAIN r = 1 .. n /\ n \in Nat
    BY <1>3, <1>4, LenProperties DEF KeptBy
  <1>6. \A k \in 1 .. n : at[k] \in I /\ at[k] \in 1 .. Len(s) /\ r[k] = s[at[k]]
    <2> HIDE DEF I
    <2> QED
      BY <1>1, <1>2, <1>3 DEF KeptBy
  <1>7. Free(r, key)
    <2>1. \A i, j \in 1 .. n : i < j => key[r[i]] # key[r[j]]
      <3>1. SUFFICES ASSUME NEW i \in 1 .. n, NEW j \in 1 .. n, i < j
                     PROVE  key[r[i]] # key[r[j]]
        OBVIOUS
      <3>2. at[i] < at[j]
        BY <3>1, <1>3 DEF KeptBy
      <3>3. at[i] \in 1 .. at[j] - 1
        BY <3>2, <1>6, <1>2
      <3>4. at[j] \in I
        BY <1>6
      <3>5. key[s[at[i]]] # key[s[at[j]]]
        BY <3>3, <3>4 DEF FirstPlaces
      <3> QED
        BY <3>5, <1>6
    <2> HIDE DEF r
    <2> QED
      BY <2>1, <1>5 DEF Free
  <1>8. \A k \in DOMAIN r : \E i \in DOMAIN s : r[k] = s[i]
    BY <1>5, <1>6, <1>2
  <1>9. \A i \in DOMAIN s : \E k \in DOMAIN r : key[r[k]] = key[s[i]]
    <2>1. SUFFICES ASSUME NEW i \in DOMAIN s
                   PROVE  \E k \in DOMAIN r : key[r[k]] = key[s[i]]
      OBVIOUS
    <2> DEFINE T == {j \in DOMAIN s : key[s[j]] = key[s[i]]}
    <2>2. PICK j \in T : \A l \in T : j <= l
      <3>1. T \subseteq Nat /\ T # {}
        BY <1>2, <2>1
      <3> HIDE DEF T
      <3> QED
        BY <3>1, Least
    <2>3. j \in DOMAIN s /\ key[s[j]] = key[s[i]]
      BY <2>2
    <2>4. ASSUME NEW l \in 1 .. j - 1 PROVE key[s[l]] # key[s[j]]
      <3>1. l \in DOMAIN s /\ l < j
        BY <2>3, <2>4, <1>2
      <3> QED
        BY <3>1, <2>2, <2>3, <1>2
    <2>5. j \in I
      BY <2>3, <2>4 DEF FirstPlaces
    <2>6. PICK k \in 1 .. n : at[k] = j
      <3> HIDE DEF I
      <3> QED
        BY <1>3, <2>5 DEF KeptBy
    <2> QED
      BY <2>6, <1>5, <1>6, <2>3
  <1> QED
    BY <1>1, <1>4, <1>7, <1>8, <1>9

(* A list without repetitions stays in front of whatever is appended, and  *)
(* nothing is added if it has all the keys.                                *)
LEMMA FirstsOfConcat ==
    ASSUME NEW E, NEW a \in Seq(E), NEW b \in Seq(E), NEW key, Free(a, key)
    PROVE  /\ Len(a) <= Len(Firsts(a \o b, key))
           /\ \A k \in 1 .. Len(a) : Firsts(a \o b, key)[k] = a[k]
           /\ (\A i \in DOMAIN b : \E j \in DOMAIN a : key[a[j]] = key[b[i]])
                 => Firsts(a \o b, key) = a
  <1> DEFINE s == a \o b
             I == FirstPlaces(s, key)
  <1>1. /\ Len(a) \in Nat /\ DOMAIN a = 1 .. Len(a) /\ Len(b) \in Nat /\ DOMAIN b = 1 .. Len(b)
    BY LenProperties
  <1>2. /\ s \in Seq(E) /\ Len(s) = Len(a) + Len(b)
        /\ \A i \in 1 .. Len(a) + Len(b) : s[i] = IF i <= Len(a) THEN a[i] ELSE b[i - Len(a)]
    BY ConcatProperties
  <1> HIDE DEF s
  <1>3. DOMAIN s = 1 .. Len(a) + Len(b)
    BY <1>2, LenProperties
  <1>4. I \in SUBSET DOMAIN s /\ Firsts(s, key) = Kept(s, I)
    BY DEF FirstPlaces, Firsts
  <1>5. \A i \in 1 .. Len(a) : s[i] = a[i] /\ i \in DOMAIN s
    BY <1>1, <1>2, <1>3
  <1>6. 1 .. Len(a) \subseteq I
    <2>1. SUFFICES ASSUME NEW i \in 1 .. Len(a), NEW j \in 1 .. i - 1
                   PROVE  key[s[j]] # key[s[i]]
      BY <1>5 DEF FirstPlaces
    <2>2. j \in 1 .. Len(a) /\ j # i
      BY <1>1
    <2> QED
      BY <2>2, <1>5, <1>1 DEF Free
  <1>7. /\ Len(a) <= Len(Firsts(s, key))
        /\ \A k \in 1 .. Len(a) : Firsts(s, key)[k] = a[k]
    <2> HIDE DEF I
    <2>1. /\ Len(a) <= Len(Kept(s, I)) /\ \A k \in 1 .. Len(a) : Kept(s, I)[k] = s[k]
      BY <1>1, <1>2, <1>4, <1>6, KeptPrefix
    <2> QED
      BY <2>1, <1>4, <1>5
  <1>8. ASSUME \A i \in DOMAIN b : \E j \in DOMAIN a : key[a[j]] = key[b[i]]
        PROVE  Firsts(s, key) = a
    <2>1. I \subseteq 1 .. Len(a)
      <3>1. SUFFICES ASSUME NEW i \in I, ~ (i <= Len(a)) PROVE FALSE
        BY <1>3, <1>4, <1>1
      <3>2. i \in 1 .. Len(a) + Len(b) /\ i - Len(a) \in 1 .. Len(b)
        BY <3>1, <1>3, <1>4, <1>1
      <3>3. PICK j \in 1 .. Len(a) : key[a[j]] = key[b[i - Len(a)]]
        BY <3>2, <1>8, <1>1
      <3>4. key[s[j]] = key[s[i]] /\ j \in 1 .. i - 1
        BY <3>1, <3>2, <3>3, <1>2, <1>5, <1>1
      <3> QED
        BY <3>4 DEF FirstPlaces
    <2>2. I = 1 .. Len(a)
      BY <2>1, <1>6
    <2>3. /\ Len(Kept(s, 1 .. Len(a))) = Len(a)
          /\ \A k \in 1 .. Len(a) : Kept(s, 1 .. Len(a))[k] = s[k]
      BY <1>1, <1>2, KeptInitial
    <2> HIDE DEF I
    <2>4. Firsts(s, key) \in Seq(E)
      BY <1>2, <1>4, KeptPlaces
    <2>5. Len(Firsts(s, key)) = Len(a) /\ \A k \in 1 .. Len(a) : Firsts(s, key)[k] = a[k]
      BY <2>2, <2>3, <1>4, <1>5
    <2> QED
      BY <2>4, <2>5, SeqEqual
  <1> QED
    BY <1>7, <1>8 DEF s

LEMMA ThoseProperties ==
    ASSUME NEW E, NEW s \in Seq(E), NEW T
    PROVE  LET r == Those(s, T) IN
           /\ r \in Seq(E)
           /\ \A k \in DOMAIN r : r[k] \in T /\ \E i \in DOMAIN s : r[k] = s[i]
           /\ \A i \in DOMAIN s : s[i] \in T => \E k \in DOMAIN r : r[k] = s[i]
           /\ \A key : Free(s, key) => Free(r, key)
           /\ (\A i \in DOMAIN s : s[i] \in T) => r = s
           /\ \A i \in DOMAIN s :
                 s[i] \in T /\ (\A j \in 1 .. i - 1 : s[j] \notin T) => r # << >> /\ r[1] = s[i]
  <1> DEFINE I == {i \in DOMAIN s : s[i] \in T}
             r == Kept(s, I)
             n == Cardinality(I)
  <1>1. I \in SUBSET DOMAIN s /\ Those(s, T) = r
    BY DEF Those
  <1>2. /\ Len(s) \in Nat /\ DOMAIN s = 1 .. Len(s)
    BY LenProperties
  <1>3. PICK at : KeptBy(s, I, at)
    BY <1>1, KeptPlaces
  <1>4. r \in Seq(E) /\ Len(r) = n
    BY <1>1, KeptPlaces
  <1>5. DOMAIN r = 1 .. n /\ n \in Nat
    BY <1>3, <1>4, LenProperties DEF KeptBy
  <1>6. \A k \in 1 .. n : at[k] \in I /\ at[k] \in 1 .. Len(s) /\ r[k] = s[at[k]]
    <2> HIDE DEF I
    <2> QED
      BY <1>1, <1>2, <1>3 DEF KeptBy
  <1>7. \A i \in I : \E k \in 1 .. n : at[k] = i
    <2> HIDE DEF I
    <2> QED
      BY <1>3 DEF KeptBy
  <1>8. \A i, j \in 1 .. n : i < j => at[i] < at[j]
    BY <1>3 DEF KeptBy
  <1>9. \A k \in DOMAIN r : r[k] \in T /\ \E i \in DOMAIN s : r[k] = s[i]
    BY <1>5, <1>6, <1>2
  <1>10. ASSUME NEW i \in DOMAIN s, s[i] \in T PROVE \E k \in DOMAIN r : r[k] = s[i]
    <2>1. i \in I
      BY <1>10
    <2>2. PICK k \in 1 .. n : at[k] = i
      BY <2>1, <1>7
    <2>3. r[k] = s[i] /\ k \in DOMAIN r
      BY <2>2, <1>5, <1>6
    <2> QED
      BY <2>3
  <1>11. ASSUME NEW key, Free(s, key) PROVE Free(r, key)
    <2>1. SUFFICES ASSUME NEW i \in 1 .. n, NEW j \in 1 .. n, key[r[i]] = key[r[j]]
                   PROVE  i = j
      BY <1>5 DEF Free
    <2>2. at[i] = at[j]
      BY <2>1, <1>6, <1>11, <1>2 DEF Free
    <2> QED
      BY <2>2, <1>5, <1>6, <1>8
  <1>12. ASSUME \A i \in DOMAIN s : s[i] \in T PROVE r = s
    <2>1. I = 1 .. Len(s)
      BY <1>12, <1>2
    <2> HIDE DEF I
    <2>2. Len(r) = Len(s) /\ \A k \in 1 .. Len(s) : r[k] = s[k]
      BY <2>1, <1>2, KeptInitial
    <2> HIDE DEF r
    <2> QED
      BY <2>2, <1>4, SeqEqual
  <1>13. ASSUME NEW i \in DOMAIN s, s[i] \in T, \A j \in 1 .. i - 1 : s[j] \notin T
         PROVE  r # << >> /\ r[1] = s[i]
    <2>1. PICK k \in 1 .. n : at[k] = i
      BY <1>7, <1>13
    <2>2. 1 \in 1 .. n
      BY <2>1, <1>5
    <2>3. k = 1
      <3>1. SUFFICES ASSUME 1 < k PROVE FALSE
        BY <2>1, <1>5
      <3>2. at[1] < i
        BY <3>1, <2>1, <2>2, <1>8
      <3>3. at[1] \in 1 .. i - 1 /\ s[at[1]] \in T
        BY <3>2, <2>2, <1>6, <1>2, <1>13
      <3> QED
        BY <3>3, <1>13
    <2>4. Len(r) # 0
      BY <2>2, <1>4, <1>5
    <2> HIDE DEF r
    <2> QED
      BY <2>1, <2>2, <2>3, <2>4, <1>6, EmptySeq DEF r
  <1> QED
    BY <1>1, <1>4, <1>9, <1>10, <1>11, <1>12, <1>13

(* Lists without repetitions of the same elements have the same length.    *)
LEMMA SameLength ==
    ASSUME NEW E, NEW a \in Seq(E), NEW b \in Seq(E),
           \A i, j \in DOMAIN a : a[i] = a[j] => i = j,
           \A i, j \in DOMAIN b : b[i] = b[j] => i = j,
           \A i \in DOMAIN a : \E j \in DOMAIN b : a[i] = b[j],
           \A j \in DOMAIN b : \E i \in DOMAIN a : a[i] = b[j]
    PROVE  Len(a) = Len(b)
  <1> DEFINE S == {a[i] : i \in DOMAIN a}
  <1>1. /\ Len(a) \in Nat /\ DOMAIN a = 1 .. Len(a) /\ Len(b) \in Nat /\ DOMAIN b = 1 .. Len(b)
        /\ a \in [1 .. Len(a) -> E] /\ b \in [1 .. Len(b) -> E]
    BY LenProperties
  <1>2. a \in [1 .. Len(a) -> S] /\ b \in [1 .. Len(b) -> S]
    BY <1>1
  <1>3. \A x \in S : \E i \in DOMAIN a : a[i] = x
    OBVIOUS
  <1>4. \A x \in S : \E i \in DOMAIN b : b[i] = x
    OBVIOUS
  <1> HIDE DEF S
  <1>5. a \in Bijection(1 .. Len(a), S)
    BY <1>1, <1>2, <1>3 DEF Bijection, Injection, Surjection, IsInjective
  <1>6. b \in Bijection(1 .. Len(b), S)
    BY <1>1, <1>2, <1>4 DEF Bijection, Injection, Surjection, IsInjective
  <1>7. Cardinality(S) = Len(a)
    BY <1>1, <1>5, FS_CountingElements DEF ExistsBijection
  <1>8. Cardinality(S) = Len(b)
    BY <1>1, <1>6, FS_CountingElements DEF ExistsBijection
  <1> QED
    BY <1>7, <1>8

-----------------------------------------------------------------------------
(* The lists of groups.                                                    *)
Users == [groups: Seq(Names), prefs: Seq(Entry)]

LEMMA Members ==
    ASSUME NEW g \in Seq(Names)
    PROVE  LET ns == OrderedUnique(g) IN
           /\ ns \in Seq(Names)
           /\ \A i, j \in DOMAIN ns : Key[ns[i]] = Key[ns[j]] => i = j
           /\ \A i \in DOMAIN ns : \E j \in DOMAIN g : ns[i] = g[j]
  BY FirstsProperties DEF OrderedUnique, Free

LEMMA NamesOfType ==
    ASSUME NEW es \in Seq(Entry)
    PROVE  /\ NamesOf(es) \in Seq(Names)
           /\ Len(NamesOf(es)) = Len(es)
           /\ DOMAIN NamesOf(es) = DOMAIN es
           /\ \A i \in DOMAIN es : es[i] \in Entry /\ NamesOf(es)[i] = es[i].name
           /\ Free(es, EntryKey) <=> IsFree(NamesOf(es))
  <1>1. /\ Len(es) \in Nat /\ DOMAIN es = 1 .. Len(es) /\ es \in [1 .. Len(es) -> Entry]
    BY LenProperties
  <1>2. NamesOf(es) \in [1 .. Len(es) -> Names]
    BY <1>1 DEF NamesOf, Entry
  <1>3. NamesOf(es) \in Seq(Names)
    BY <1>1, <1>2, SeqDef
  <1>4. DOMAIN NamesOf(es) = DOMAIN es /\ Len(NamesOf(es)) = Len(es)
    BY <1>1, <1>2, <1>3, LenProperties
  <1>5. \A i \in DOMAIN es : es[i] \in Entry /\ NamesOf(es)[i] = es[i].name
    BY <1>1 DEF NamesOf
  <1>6. \A i \in DOMAIN es : EntryKey[es[i]] = Key[NamesOf(es)[i]]
    BY <1>5 DEF EntryKey
  <1>7. Free(es, EntryKey) <=> IsFree(NamesOf(es))
    BY <1>4, <1>6 DEF Free, IsFree
  <1> QED
    BY <1>3, <1>4, <1>5, <1>7

(* The list names every group of the user once, and nothing else.          *)
EachOnce(list, g) ==
    LET members == OrderedUnique(g) IN
    /\ Len(list) = Len(members)
    /\ \A i \in DOMAIN list : list[i].name \in Range(members)
    /\ IsFree(NamesOf(list))
    /\ Range(members) \subseteq Range(NamesOf(list))

(* Whatever was stored, the choice in force names every group once.        *)
LEMMA EffectiveNames ==
    ASSUME NEW u \in Users
    PROVE  Effective(u) \in Seq(Entry) /\ EachOnce(Effective(u), u.groups)
  <1> DEFINE members == OrderedUnique(u.groups)
             T == {e \in Entry : e.name \in Range(members)}
             chosen == Those(u.prefs, T)
             all == [i \in DOMAIN members |-> [name |-> members[i], include |-> TRUE]]
             es == Firsts(chosen \o all, EntryKey)
  <1>1. u.groups \in Seq(Names) /\ u.prefs \in Seq(Entry)
    BY DEF Users
  <1>2. Effective(u) = es
    BY DEF Effective
  <1>3. /\ members \in Seq(Names)
        /\ \A i, j \in DOMAIN members : Key[members[i]] = Key[members[j]] => i = j
        /\ Len(members) \in Nat /\ DOMAIN members = 1 .. Len(members)
        /\ members \in [1 .. Len(members) -> Names]
    BY <1>1, Members, LenProperties
  <1> HIDE DEF members
  <1>4. /\ chosen \in Seq(Entry)
        /\ \A k \in DOMAIN chosen : chosen[k].name \in Range(members)
    <2>1. \A k \in DOMAIN chosen : chosen[k] \in T
      BY <1>1, ThoseProperties
    <2> QED
      BY <2>1, <1>1, ThoseProperties
  <1>5. /\ all \in [1 .. Len(members) -> Entry]
        /\ \A k \in 1 .. Len(members) : all[k].name = members[k]
    BY <1>3 DEF Entry
  <1>6. all \in Seq(Entry)
    BY <1>3, <1>5, SeqDef
  <1>7. Len(all) = Len(members) /\ DOMAIN all = 1 .. Len(members)
    BY <1>5, <1>6, LenProperties
  <1> HIDE DEF chosen, all
  <1>8. /\ chosen \o all \in Seq(Entry)
        /\ Len(chosen) \in Nat /\ DOMAIN chosen = 1 .. Len(chosen)
        /\ DOMAIN (chosen \o all) = 1 .. Len(chosen) + Len(members)
        /\ \A i \in 1 .. Len(chosen) + Len(members) :
              (chosen \o all)[i] = IF i <= Len(chosen) THEN chosen[i] ELSE all[i - Len(chosen)]
    <2>1. /\ chosen \o all \in Seq(Entry) /\ Len(chosen \o all) = Len(chosen) + Len(all)
          /\ \A i \in 1 .. Len(chosen) + Len(all) :
                (chosen \o all)[i] = IF i <= Len(chosen) THEN chosen[i] ELSE all[i - Len(chosen)]
      BY <1>4, <1>6, ConcatProperties
    <2>2. Len(chosen) \in Nat /\ DOMAIN chosen = 1 .. Len(chosen)
      BY <1>4, LenProperties
    <2>3. DOMAIN (chosen \o all) = 1 .. Len(chosen) + Len(all)
      BY <2>1, LenProperties
    <2> QED
      BY <2>1, <2>2, <2>3, <1>7
  <1>9. \A i \in DOMAIN (chosen \o all) : (chosen \o all)[i].name \in Range(members)
    <2>1. SUFFICES ASSUME NEW i \in 1 .. Len(chosen) + Len(members)
                   PROVE  (chosen \o all)[i].name \in Range(members)
      BY <1>8
    <2>2. CASE i <= Len(chosen)
      <3>1. i \in DOMAIN chosen /\ (chosen \o all)[i] = chosen[i]
        BY <2>2, <1>8
      <3> QED
        BY <3>1, <1>4
    <2>3. CASE ~ (i <= Len(chosen))
      <3>1. i - Len(chosen) \in 1 .. Len(members) /\ (chosen \o all)[i] = all[i - Len(chosen)]
        BY <2>3, <1>8, <1>3
      <3>2. (chosen \o all)[i].name = members[i - Len(chosen)]
        BY <3>1, <1>5
      <3> QED
        BY <3>1, <3>2, <1>3 DEF Range
    <2> QED
      BY <2>2, <2>3
  <1>10. /\ es \in Seq(Entry)
         /\ Free(es, EntryKey)
         /\ \A k \in DOMAIN es : \E i \in DOMAIN (chosen \o all) : es[k] = (chosen \o all)[i]
         /\ \A i \in DOMAIN (chosen \o all) :
               \E k \in DOMAIN es : EntryKey[es[k]] = EntryKey[(chosen \o all)[i]]
    <2>1. PICK key, cat : key = EntryKey /\ cat = chosen \o all
      OBVIOUS
    <2>2. cat \in Seq(Entry) /\ es = Firsts(cat, key)
      BY <1>8, <2>1
    <2>3. /\ Firsts(cat, key) \in Seq(Entry)
          /\ Free(Firsts(cat, key), key)
          /\ \A k \in DOMAIN Firsts(cat, key) : \E i \in DOMAIN cat : Firsts(cat, key)[k] = cat[i]
          /\ \A i \in DOMAIN cat : \E k \in DOMAIN Firsts(cat, key) :
                key[Firsts(cat, key)[k]] = key[cat[i]]
      BY <2>2, FirstsProperties
    <2> HIDE DEF es
    <2> QED
      BY <2>1, <2>2, <2>3
  <1> HIDE DEF es
  <1>11. /\ NamesOf(es) \in Seq(Names) /\ Len(NamesOf(es)) = Len(es)
         /\ DOMAIN NamesOf(es) = DOMAIN es
         /\ \A i \in DOMAIN es : es[i] \in Entry /\ NamesOf(es)[i] = es[i].name
         /\ IsFree(NamesOf(es))
    BY <1>10, NamesOfType
  <1>12. \A k \in DOMAIN es : es[k].name \in Range(members)
    BY <1>9, <1>10
  <1>13. \A j \in DOMAIN members : \E k \in DOMAIN es : es[k].name = members[j]
    <2>1. SUFFICES ASSUME NEW j \in 1 .. Len(members)
                   PROVE  \E k \in DOMAIN es : es[k].name = members[j]
      BY <1>3
    <2> DEFINE i == Len(chosen) + j
    <2>2. /\ i \in 1 .. Len(chosen) + Len(members) /\ ~ (i <= Len(chosen)) /\ i - Len(chosen) = j
      BY <1>3, <1>8
    <2>3. (chosen \o all)[i] = all[j] /\ i \in DOMAIN (chosen \o all)
      BY <2>2, <1>8
    <2>4. PICK k \in DOMAIN es : EntryKey[es[k]] = EntryKey[all[j]]
      BY <2>3, <1>10
    <2>5. all[j] \in Entry /\ EntryKey[all[j]] = Key[members[j]]
      BY <1>5 DEF EntryKey
    <2>6. EntryKey[es[k]] = Key[es[k].name]
      BY <1>11 DEF EntryKey
    <2>7. PICK l \in DOMAIN members : es[k].name = members[l]
      BY <1>12 DEF Range
    <2>8. l = j
      BY <2>4, <2>5, <2>6, <2>7, <1>3
    <2> QED
      BY <2>7, <2>8
  <1>14. Range(members) \subseteq Range(NamesOf(es))
    BY <1>11, <1>13 DEF Range
  <1>15. Len(es) = Len(members)
    <2>1. \A i, j \in DOMAIN NamesOf(es) : NamesOf(es)[i] = NamesOf(es)[j] => i = j
      BY <1>11 DEF IsFree
    <2>2. \A i, j \in DOMAIN members : members[i] = members[j] => i = j
      BY <1>3
    <2>3. \A i \in DOMAIN NamesOf(es) : \E j \in DOMAIN members : NamesOf(es)[i] = members[j]
      BY <1>11, <1>12 DEF Range
    <2>4. \A j \in DOMAIN members : \E i \in DOMAIN NamesOf(es) : NamesOf(es)[i] = members[j]
      BY <1>11, <1>13
    <2> QED
      BY <2>1, <2>2, <2>3, <2>4, <1>3, <1>11, SameLength
  <1>16. EachOnce(es, u.groups)
    BY <1>11, <1>12, <1>14, <1>15 DEF EachOnce, members
  <1> QED
    BY <1>2, <1>10, <1>16

(* A stored list that names every group once is the choice in force.       *)
LEMMA StoredInForce ==
    ASSUME NEW u \in Users, EachOnce(u.prefs, u.groups)
    PROVE  Effective(u) = u.prefs
  <1> DEFINE members == OrderedUnique(u.groups)
             T == {e \in Entry : e.name \in Range(members)}
             chosen == Those(u.prefs, T)
             all == [i \in DOMAIN members |-> [name |-> members[i], include |-> TRUE]]
  <1>1. u.groups \in Seq(Names) /\ u.prefs \in Seq(Entry)
    BY DEF Users
  <1>2. Effective(u) = Firsts(chosen \o all, EntryKey)
    BY DEF Effective
  <1>3. /\ members \in Seq(Names) /\ Len(members) \in Nat /\ DOMAIN members = 1 .. Len(members)
        /\ members \in [1 .. Len(members) -> Names]
    BY <1>1, Members, LenProperties
  <1>4. /\ \A i \in DOMAIN u.prefs : u.prefs[i].name \in Range(members)
        /\ IsFree(NamesOf(u.prefs))
        /\ Range(members) \subseteq Range(NamesOf(u.prefs))
    BY DEF EachOnce
  <1>5. /\ \A i \in DOMAIN u.prefs : u.prefs[i] \in Entry /\ NamesOf(u.prefs)[i] = u.prefs[i].name
        /\ DOMAIN NamesOf(u.prefs) = DOMAIN u.prefs
        /\ Free(u.prefs, EntryKey)
    BY <1>1, <1>4, NamesOfType
  <1> HIDE DEF members
  <1>6. chosen = u.prefs
    <2>1. \A i \in DOMAIN u.prefs : u.prefs[i] \in T
      BY <1>4, <1>5
    <2> HIDE DEF T
    <2> QED
      BY <2>1, <1>1, ThoseProperties
  <1>7. all \in [1 .. Len(members) -> Entry] /\ \A k \in 1 .. Len(members) : all[k].name = members[k]
    BY <1>3 DEF Entry
  <1>8. all \in Seq(Entry)
    BY <1>3, <1>7, SeqDef
  <1>9. DOMAIN all = 1 .. Len(members)
    BY <1>7
  <1> HIDE DEF all
  <1>10. \A i \in DOMAIN all : \E j \in DOMAIN u.prefs : EntryKey[u.prefs[j]] = EntryKey[all[i]]
    <2>1. SUFFICES ASSUME NEW i \in 1 .. Len(members)
                   PROVE  \E j \in DOMAIN u.prefs : EntryKey[u.prefs[j]] = EntryKey[all[i]]
      BY <1>9
    <2>2. members[i] \in Range(NamesOf(u.prefs))
      BY <1>3, <1>4 DEF Range
    <2>3. PICK j \in DOMAIN u.prefs : u.prefs[j].name = members[i]
      BY <2>2, <1>5 DEF Range
    <2>4. EntryKey[u.prefs[j]] = Key[members[i]] /\ EntryKey[all[i]] = Key[members[i]]
      BY <2>3, <1>5, <1>7 DEF EntryKey
    <2> QED
      BY <2>4
  <1>11. Firsts(u.prefs \o all, EntryKey) = u.prefs
    <2>1. PICK key : key = EntryKey
      OBVIOUS
    <2>2. Firsts(u.prefs \o all, key) = u.prefs
      BY <1>1, <1>5, <1>8, <1>10, <2>1, FirstsOfConcat
    <2> QED
      BY <2>1, <2>2
  <1> QED
    BY <1>2, <1>6, <1>11

(* Dragging a group and changing a flag keep the names.                    *)
Shift(k, i, j) ==
    IF k = j THEN i
    ELSE LET m == IF k < j THEN k ELSE k - 1 IN IF m < i THEN m ELSE m + 1

LEMMA MovedList ==
    ASSUME NEW E, NEW s \in Seq(E), NEW i \in DOMAIN s, NEW j \in DOMAIN s
    PROVE  LET t == InsertAt(RemoveAt(s, i), j, s[i]) IN
           /\ t \in Seq(E) /\ Len(t) = Len(s)
           /\ \A k \in DOMAIN s : Shift(k, i, j) \in DOMAIN s /\ t[k] = s[Shift(k, i, j)]
  <1> DEFINE r == RemoveAt(s, i)
             t == InsertAt(r, j, s[i])
             n == Len(s)
  <1>1. n \in Nat /\ DOMAIN s = 1 .. n /\ s \in [1 .. n -> E] /\ i \in 1 .. n /\ j \in 1 .. n
    BY LenProperties
  <1>2. /\ SubSeq(s, 1, i - 1) \in Seq(E) /\ Len(SubSeq(s, 1, i - 1)) = i - 1
        /\ \A k \in 1 .. i - 1 : SubSeq(s, 1, i - 1)[k] = s[k]
    <2>1. \A k \in 1 .. i - 1 : s[k] \in E
      BY <1>1
    <2> QED
      BY <2>1, <1>1, SubSeqProperties
  <1>3. /\ SubSeq(s, i + 1, n) \in Seq(E) /\ Len(SubSeq(s, i + 1, n)) = n - i
        /\ \A k \in 1 .. n - i : SubSeq(s, i + 1, n)[k] = s[k + i]
    <2>1. \A k \in i + 1 .. n : s[k] \in E
      BY <1>1
    <2>2. /\ SubSeq(s, i + 1, n) \in Seq(E)
          /\ Len(SubSeq(s, i + 1, n)) = IF i + 1 <= n THEN n - (i + 1) + 1 ELSE 0
          /\ \A k \in 1 .. n - (i + 1) + 1 : SubSeq(s, i + 1, n)[k] = s[i + 1 + k - 1]
      BY <2>1, <1>1, SubSeqProperties
    <2> QED
      BY <2>2, <1>1
  <1>4. /\ r \in Seq(E) /\ Len(r) = n - 1
        /\ \A k \in 1 .. n - 1 : r[k] = IF k < i THEN s[k] ELSE s[k + 1]
    <2>1. /\ r \in Seq(E) /\ Len(r) = i - 1 + (n - i)
          /\ \A k \in 1 .. i - 1 + (n - i) :
                r[k] = IF k <= i - 1 THEN SubSeq(s, 1, i - 1)[k] ELSE SubSeq(s, i + 1, n)[k - (i - 1)]
      BY <1>2, <1>3, ConcatProperties, SMTT(20) DEF RemoveAt
    <2>2. ASSUME NEW k \in 1 .. n - 1
          PROVE  r[k] = IF k < i THEN s[k] ELSE s[k + 1]
      <3>1. CASE k < i
        <4>1. k \in 1 .. i - 1 /\ k \in 1 .. i - 1 + (n - i) /\ k <= i - 1
          BY <3>1, <1>1
        <4> QED
          BY <4>1, <3>1, <2>1, <1>2
      <3>2. CASE ~ (k < i)
        <4>1. /\ k - (i - 1) \in 1 .. n - i /\ k \in 1 .. i - 1 + (n - i) /\ ~ (k <= i - 1)
              /\ k - (i - 1) + i = k + 1
          BY <3>2, <1>1
        <4>2. r[k] = SubSeq(s, i + 1, n)[k - (i - 1)]
          BY <4>1, <2>1
        <4>3. SubSeq(s, i + 1, n)[k - (i - 1)] = s[k - (i - 1) + i]
          BY <4>1, <1>3
        <4> QED
          BY <4>1, <4>2, <4>3, <3>2
      <3> QED
        BY <3>1, <3>2
    <2> QED
      BY <2>1, <2>2, <1>1
  <1> HIDE DEF r
  <1>5. /\ SubSeq(r, 1, j - 1) \in Seq(E) /\ Len(SubSeq(r, 1, j - 1)) = j - 1
        /\ \A k \in 1 .. j - 1 : SubSeq(r, 1, j - 1)[k] = r[k]
    <2>1. \A k \in 1 .. j - 1 : r[k] \in E
      BY <1>1, <1>4
    <2> QED
      BY <2>1, <1>1, SubSeqProperties
  <1>6. /\ SubSeq(r, j, n - 1) \in Seq(E) /\ Len(SubSeq(r, j, n - 1)) = n - j
        /\ \A k \in 1 .. n - j : SubSeq(r, j, n - 1)[k] = r[j + k - 1]
    <2>1. \A k \in j .. n - 1 : r[k] \in E
      BY <1>1, <1>4
    <2>2. /\ SubSeq(r, j, n - 1) \in Seq(E)
          /\ Len(SubSeq(r, j, n - 1)) = IF j <= n - 1 THEN n - 1 - j + 1 ELSE 0
          /\ \A k \in 1 .. n - 1 - j + 1 : SubSeq(r, j, n - 1)[k] = r[j + k - 1]
      BY <2>1, <1>1, SubSeqProperties
    <2> QED
      BY <2>2, <1>1
  <1>7. s[i] \in E
    BY <1>1
  <1> DEFINE h == SubSeq(r, 1, j - 1) \o <<s[i]>>
  <1>8. /\ h \in Seq(E) /\ Len(h) = j /\ h[j] = s[i]
        /\ \A k \in 1 .. j - 1 : h[k] = r[k]
    <2>1. PICK q : q = SubSeq(r, 1, j - 1)
      OBVIOUS
    <2>2. q \in Seq(E) /\ Len(q) = j - 1 /\ \A k \in 1 .. j - 1 : q[k] = r[k]
      BY <2>1, <1>5
    <2>3. h = Append(q, s[i])
      BY <2>1, <2>2, <1>7, AppendIsConcat
    <2>4. /\ Append(q, s[i]) \in Seq(E) /\ Len(Append(q, s[i])) = Len(q) + 1
          /\ \A k \in 1 .. Len(q) : Append(q, s[i])[k] = q[k]
          /\ Append(q, s[i])[Len(q) + 1] = s[i]
      BY <2>2, <1>7, AppendProperties
    <2> HIDE DEF h
    <2> QED
      BY <2>2, <2>3, <2>4, <1>1
  <1> HIDE DEF h
  <1>9. t = h \o SubSeq(r, j, n - 1)
    BY <1>4 DEF InsertAt, h
  <1>10. /\ t \in Seq(E) /\ Len(t) = n
         /\ \A k \in 1 .. n : t[k] = IF k <= j THEN h[k] ELSE SubSeq(r, j, n - 1)[k - j]
    <2>1. PICK q : q = SubSeq(r, j, n - 1)
      OBVIOUS
    <2>2. q \in Seq(E) /\ Len(q) = n - j
      BY <2>1, <1>6
    <2>3. /\ h \o q \in Seq(E) /\ Len(h \o q) = Len(h) + Len(q)
          /\ \A k \in 1 .. Len(h) + Len(q) : (h \o q)[k] = IF k <= Len(h) THEN h[k] ELSE q[k - Len(h)]
      BY <2>2, <1>8, ConcatProperties
    <2>4. t = h \o q
      BY <2>1, <1>9
    <2>5. Len(h) + Len(q) = n
      BY <2>2, <1>1, <1>8
    <2> HIDE DEF t
    <2>6. t \in Seq(E) /\ Len(t) = n
      BY <2>3, <2>4, <2>5
    <2>7. \A k \in 1 .. n : t[k] = IF k <= j THEN h[k] ELSE q[k - j]
      BY <2>3, <2>4, <2>5, <1>8
    <2> QED
      BY <2>1, <2>6, <2>7
  <1> HIDE DEF t
  <1>11. ASSUME NEW k \in 1 .. n
         PROVE  Shift(k, i, j) \in 1 .. n /\ t[k] = s[Shift(k, i, j)]
    <2>1. Shift(k, i, j) \in 1 .. n
      BY <1>1 DEF Shift
    <2>2. CASE k = j
      BY <2>2, <2>1, <1>8, <1>10, <1>1 DEF Shift
    <2>3. CASE k < j
      <3>1. k \in 1 .. j - 1 /\ k \in 1 .. n - 1 /\ k <= j /\ k # j
        BY <2>3, <1>1
      <3>2. t[k] = r[k]
        BY <3>1, <1>8, <1>10
      <3>3. r[k] = IF k < i THEN s[k] ELSE s[k + 1]
        BY <3>1, <1>4
      <3> QED
        BY <3>1, <3>2, <3>3, <2>1, <2>3 DEF Shift
    <2>4. CASE j < k
      <3>1. k - j \in 1 .. n - j /\ k - 1 \in 1 .. n - 1 /\ ~ (k <= j) /\ j + (k - j) - 1 = k - 1
        BY <2>4, <1>1
      <3>2. t[k] = SubSeq(r, j, n - 1)[k - j]
        BY <3>1, <1>10
      <3>3. SubSeq(r, j, n - 1)[k - j] = r[j + (k - j) - 1]
        BY <3>1, <1>6
      <3>4. t[k] = r[k - 1]
        BY <3>1, <3>2, <3>3
      <3>5. r[k - 1] = IF k - 1 < i THEN s[k - 1] ELSE s[(k - 1) + 1]
        BY <3>1, <1>4
      <3>6. Shift(k, i, j) = IF k - 1 < i THEN k - 1 ELSE (k - 1) + 1
        BY <2>4, <1>1 DEF Shift
      <3> QED
        BY <3>4, <3>5, <3>6, <2>1
    <2> QED
      BY <2>2, <2>3, <2>4, <1>1
  <1> QED
    BY <1>1, <1>10, <1>11 DEF t, r

(* A list with the same names, in another order, names every group once.   *)
LEMMA Rearranged ==
    ASSUME NEW g, NEW a \in Seq(Entry), NEW b \in Seq(Entry), Len(a) = Len(b),
           EachOnce(a, g), NEW f,
           \A k \in DOMAIN a : f[k] \in DOMAIN a /\ b[k].name = a[f[k]].name,
           \A k, l \in DOMAIN a : f[k] = f[l] => k = l,
           \A l \in DOMAIN a : \E k \in DOMAIN a : f[k] = l
    PROVE  EachOnce(b, g)
  <1>1. DOMAIN a = DOMAIN b
    BY LenProperties
  <1>2. /\ DOMAIN NamesOf(a) = DOMAIN a /\ \A i \in DOMAIN a : NamesOf(a)[i] = a[i].name
        /\ DOMAIN NamesOf(b) = DOMAIN a /\ \A i \in DOMAIN a : NamesOf(b)[i] = b[i].name
    BY <1>1, NamesOfType
  <1> DEFINE members == OrderedUnique(g)
  <1>3. /\ Len(a) = Len(members)
        /\ \A i \in DOMAIN a : a[i].name \in Range(members)
        /\ IsFree(NamesOf(a))
        /\ Range(members) \subseteq Range(NamesOf(a))
    BY DEF EachOnce
  <1> HIDE DEF members
  <1>4. \A i \in DOMAIN b : b[i].name \in Range(members)
    BY <1>1, <1>3
  <1>5. \A k \in DOMAIN a : f[k] \in DOMAIN a /\ NamesOf(b)[k] = NamesOf(a)[f[k]]
    <2>1. TAKE k \in DOMAIN a
    <2>2. f[k] \in DOMAIN a /\ b[k].name = a[f[k]].name
      OBVIOUS
    <2>3. NamesOf(b)[k] = b[k].name
      BY <1>2, Zenon
    <2>4. NamesOf(a)[f[k]] = a[f[k]].name
      BY <1>2, <2>2, Zenon
    <2> QED
      BY <2>2, <2>3, <2>4, Zenon
  <1>6. IsFree(NamesOf(b))
    <2>1. SUFFICES ASSUME NEW k \in DOMAIN a, NEW l \in DOMAIN a,
                          Key[NamesOf(b)[k]] = Key[NamesOf(b)[l]]
                   PROVE  k = l
      BY <1>2 DEF IsFree
    <2>2. Key[NamesOf(a)[f[k]]] = Key[NamesOf(a)[f[l]]]
      BY <2>1, <1>5
    <2>3. f[k] = f[l]
      BY <2>2, <1>2, <1>3, <1>5 DEF IsFree
    <2> QED
      BY <2>3
  <1>7. Range(NamesOf(a)) \subseteq Range(NamesOf(b))
    <2>1. ASSUME NEW l \in DOMAIN a PROVE NamesOf(a)[l] \in Range(NamesOf(b))
      <3>1. PICK k \in DOMAIN a : f[k] = l
        OBVIOUS
      <3>2. NamesOf(a)[l] = NamesOf(b)[k]
        BY <3>1, <1>5
      <3> QED
        BY <3>2, <1>2 DEF Range
    <2> QED
      BY <2>1, <1>2 DEF Range
  <1>8. EachOnce(b, g)
    BY <1>3, <1>4, <1>6, <1>7 DEF EachOnce, members
  <1> QED
    BY <1>8

LEMMA MovedNames ==
    ASSUME NEW g, NEW a \in Seq(Entry), EachOnce(a, g), NEW i \in DOMAIN a, NEW j \in DOMAIN a
    PROVE  LET b == InsertAt(RemoveAt(a, i), j, a[i]) IN b \in Seq(Entry) /\ EachOnce(b, g)
  <1> DEFINE b == InsertAt(RemoveAt(a, i), j, a[i])
             f == [k \in DOMAIN a |-> Shift(k, i, j)]
  <1>1. Len(a) \in Nat /\ DOMAIN a = 1 .. Len(a)
    BY LenProperties
  <1>2. /\ b \in Seq(Entry) /\ Len(b) = Len(a)
        /\ \A k \in DOMAIN a : f[k] \in DOMAIN a /\ b[k] = a[f[k]]
    BY MovedList
  <1>3. \A k, l \in DOMAIN a : f[k] = f[l] => k = l
    <2>1. \A k, l \in 1 .. Len(a) : Shift(k, i, j) = Shift(l, i, j) => k = l
      BY <1>1 DEF Shift
    <2> QED
      BY <2>1, <1>1
  <1>4. ASSUME NEW l \in DOMAIN a PROVE \E k \in DOMAIN a : f[k] = l
    <2> DEFINE m == IF l < i THEN l ELSE l - 1
               k == IF l = i THEN j ELSE IF m < j THEN m ELSE m + 1
    <2>1. k \in 1 .. Len(a) /\ Shift(k, i, j) = l
      BY <1>1 DEF Shift
    <2> QED
      BY <2>1, <1>1
  <1> HIDE DEF b, f
  <1>5. \A k \in DOMAIN a : f[k] \in DOMAIN a /\ b[k].name = a[f[k]].name
    BY <1>2
  <1>6. EachOnce(b, g)
    BY <1>2, <1>3, <1>4, <1>5, Rearranged
  <1> QED
    BY <1>2, <1>6 DEF b

LEMMA ToggledNames ==
    ASSUME NEW g, NEW a \in Seq(Entry), EachOnce(a, g), NEW i \in DOMAIN a
    PROVE  LET b == [a EXCEPT ![i].include = ~ @] IN b \in Seq(Entry) /\ EachOnce(b, g)
  <1> DEFINE b == [a EXCEPT ![i].include = ~ @]
             f == [k \in DOMAIN a |-> k]
  <1>1. Len(a) \in Nat /\ DOMAIN a = 1 .. Len(a) /\ a \in [1 .. Len(a) -> Entry]
    BY LenProperties
  <1>2. /\ b \in [1 .. Len(a) -> Entry]
        /\ \A k \in DOMAIN a : f[k] \in DOMAIN a /\ b[k].name = a[f[k]].name
    BY <1>1 DEF Entry
  <1>3. b \in Seq(Entry)
    <2> HIDE DEF b
    <2> QED
      BY <1>1, <1>2, SeqDef
  <1>4. Len(b) = Len(a)
    BY <1>1, <1>2, <1>3, LenProperties
  <1>5. /\ \A k, l \in DOMAIN a : f[k] = f[l] => k = l
        /\ \A l \in DOMAIN a : \E k \in DOMAIN a : f[k] = l
    OBVIOUS
  <1> HIDE DEF b, f
  <1>6. EachOnce(b, g)
    BY <1>2, <1>3, <1>4, <1>5, Rearranged
  <1> QED
    BY <1>3, <1>6 DEF b

(* The included groups, in the order of the choice.                        *)
LEMMA IncludedNames ==
    ASSUME NEW u \in Users
    PROVE  LET ns == IncludedOf(Effective(u)) IN
           /\ ns \in Seq(Names)
           /\ \A i, j \in DOMAIN ns : Key[ns[i]] = Key[ns[j]] => i = j
           /\ Range(ns) \subseteq Range(NamesOf(Effective(u)))
  <1> DEFINE es == Effective(u)
             T == {e \in Entry : e.include}
             chosen == Those(es, T)
             ns == NamesOf(chosen)
  <1>1. ns = IncludedOf(Effective(u))
    BY DEF IncludedOf
  <1>2. es \in Seq(Entry) /\ IsFree(NamesOf(es))
    BY EffectiveNames DEF EachOnce
  <1>3. /\ Free(es, EntryKey) /\ DOMAIN NamesOf(es) = DOMAIN es
        /\ \A i \in DOMAIN es : NamesOf(es)[i] = es[i].name
    BY <1>2, NamesOfType
  <1> HIDE DEF es, T
  <1>4. /\ chosen \in Seq(Entry)
        /\ \A k \in DOMAIN chosen : \E i \in DOMAIN es : chosen[k] = es[i]
    BY <1>2, ThoseProperties
  <1>5. Free(chosen, EntryKey)
    <2>1. PICK key : key = EntryKey
      OBVIOUS
    <2>2. Free(chosen, key)
      BY <1>2, <1>3, <2>1, ThoseProperties
    <2> QED
      BY <2>1, <2>2
  <1> HIDE DEF chosen
  <1>6. /\ ns \in Seq(Names) /\ DOMAIN ns = DOMAIN chosen /\ IsFree(ns)
        /\ \A i \in DOMAIN chosen : ns[i] = chosen[i].name
    BY <1>4, <1>5, NamesOfType
  <1> HIDE DEF ns
  <1>7. \A i, j \in DOMAIN ns : Key[ns[i]] = Key[ns[j]] => i = j
    BY <1>6 DEF IsFree
  <1>8. Range(ns) \subseteq Range(NamesOf(es))
    <2>1. SUFFICES ASSUME NEW k \in DOMAIN ns PROVE \E i \in DOMAIN NamesOf(es) : ns[k] = NamesOf(es)[i]
      BY DEF Range
    <2> QED
      BY <1>3, <1>4, <1>6
  <1> QED
    BY <1>1, <1>6, <1>7, <1>8 DEF es, ns

-----------------------------------------------------------------------------
(* Types.  A list on the page, and with it every list a save of this page  *)
(* carries, names every group the user had when the page was loaded once;  *)
(* that is what keeps the names of the list free of repetitions whatever   *)
(* is dragged and ticked.                                                  *)
RowOK(r) ==
    r \in [active: BOOLEAN, tags: SUBSET Names, mode: {r.mode}, raw: {r.raw}, json: {r.json},
           mixed: {r.mixed}]

PageType ==
    [local: Seq(Entry), timer: BOOLEAN, saving: BOOLEAN, error: {"none", "refused", "failed"},
     members: Seq(Names)]

PageOK == page \in PageType /\ EachOnce(page.local, page.members)

SavesOK ==
    /\ saves \in [DOMAIN saves -> Save] /\ DOMAIN saves \subseteq Slots
    /\ \A x \in DOMAIN saves :
          /\ saves[x].list # << >>
          /\ saves[x].own => EachOnce(saves[x].list, page.members)

ConnOK == DOMAIN conn = Conns /\ \A c \in Conns : RowOK(conn[c])

CallOK ==
    \/ call = NoCall
    \/ /\ call = [pc |-> call.pc, format |-> call.format, user |-> call.user, todo |-> call.todo,
                  seen |-> call.seen, reach |-> call.reach, items |-> call.items,
                  meta |-> call.meta]
       /\ call.pc \in {"meta", "reach", "batch"}
       /\ call.format \in Formats
       /\ call.user \in Users
       /\ call.todo \in Seq(Names)

TypeInv ==
    /\ user \in Users
    /\ DOMAIN rows \subseteq Names
    /\ ConnOK
    /\ PageOK
    /\ SavesOK
    /\ CallOK
    /\ feed.format \in Formats \cup {"none"}
    /\ steady \in BOOLEAN /\ settled \in BOOLEAN

LEMMA LoadedOK ==
    ASSUME NEW u \in Users
    PROVE  Loaded(u) \in PageType /\ EachOnce(Loaded(u).local, Loaded(u).members)
  BY EffectiveNames DEF Users, Loaded, PageType

LEMMA InitType == Init => TypeInv
  <1> SUFFICES ASSUME Init PROVE TypeInv
    OBVIOUS
  <1>1. PICK s \in Scenarios :
           /\ user = s.user /\ rows = s.rows
           /\ conn = [c \in Conns |-> Created(s.source[c], s.tags[c])]
           /\ page = Loaded(s.user) /\ saves = << >> /\ call = NoCall /\ feed = NoFeed
           /\ steady = TRUE /\ settled = TRUE
    BY DEF Init
  <1>2. user \in Users /\ DOMAIN rows \subseteq Names /\ \A c \in Conns : s.tags[c] \subseteq Names
    BY <1>1, FeedAssumption DEF Users
  <1>3. PageOK
    BY <1>1, <1>2, LoadedOK DEF PageOK
  <1>4. ConnOK
    BY <1>1, <1>2 DEF ConnOK, RowOK, Created
  <1>5. SavesOK
    BY <1>1 DEF SavesOK
  <1>6. CallOK /\ feed.format = "none"
    BY <1>1 DEF CallOK, NoFeed
  <1> QED
    BY <1>1, <1>2, <1>3, <1>4, <1>5, <1>6 DEF TypeInv

(* The request reads and writes what is its own only.                      *)
LEMMA CallType ==
    ASSUME TypeInv,
           (\E f \in Formats : FeedStart(f)) \/ FeedMeta \/ FeedReach \/ FeedBatch \/ FeedSend
    PROVE  TypeInv'
  <1>1. UNCHANGED <<user, rows, conn, page, saves, settled>> /\ steady' \in BOOLEAN
    BY DEF TypeInv, FeedStart, FeedMeta, FeedReach, FeedBatch, FeedSend
  <1>2. ConnOK' /\ PageOK' /\ SavesOK'
    BY <1>1 DEF TypeInv, ConnOK, PageOK, SavesOK
  <1>3. CallOK' /\ feed'.format \in Formats \cup {"none"}
    <2>1. ASSUME NEW f \in Formats, FeedStart(f) PROVE CallOK' /\ feed'.format = "none"
      <3>1. << >> \in Seq(Names)
        OBVIOUS
      <3> QED
        BY <2>1, <3>1 DEF TypeInv, FeedStart, CallOK, NoFeed
    <2>2. CASE FeedMeta
      <3> DEFINE todo == IF call.format = "refused" THEN << >> ELSE IncludedOf(Effective(call.user))
      <3>1. call # NoCall /\ call.user \in Users
        BY <2>2 DEF TypeInv, CallOK, FeedMeta, NoCall
      <3>2. todo \in Seq(Names)
        BY <3>1, IncludedNames
      <3>3. PICK meta : call' = [call EXCEPT
                   !.pc = IF @ = "meta" /\ call.format = "json" THEN "reach" ELSE "batch",
                   !.todo = todo, !.meta = meta]
        BY <2>2 DEF FeedMeta
      <3> HIDE DEF todo
      <3>4. CallOK'
        BY <3>1, <3>2, <3>3 DEF TypeInv, CallOK
      <3> QED
        BY <2>2, <3>4 DEF TypeInv, FeedMeta
    <2>3. CASE FeedReach
      <3>1. call # NoCall
        BY <2>3 DEF FeedReach, NoCall
      <3>2. PICK reach : call' = [call EXCEPT !.pc = "batch", !.reach = reach]
        BY <2>3 DEF FeedReach
      <3>3. CallOK'
        BY <3>1, <3>2 DEF TypeInv, CallOK
      <3> QED
        BY <2>3, <3>3 DEF TypeInv, FeedReach
    <2>4. CASE FeedBatch
      <3>1. call # NoCall /\ call.todo # << >>
        BY <2>4 DEF FeedBatch, NoCall
      <3>2. call.todo \in Seq(Names) /\ Tail(call.todo) \in Seq(Names)
        BY <3>1, HeadTailProperties DEF TypeInv, CallOK
      <3>3. PICK seen, items : call' = [call EXCEPT !.todo = Tail(@), !.seen = seen, !.items = items]
        BY <2>4 DEF FeedBatch
      <3>4. CallOK'
        BY <3>1, <3>2, <3>3 DEF TypeInv, CallOK
      <3> QED
        BY <2>4, <3>4 DEF TypeInv, FeedBatch
    <2>5. CASE FeedSend
      <3>1. call # NoCall
        BY <2>5 DEF FeedSend, NoCall
      <3> QED
        BY <2>5, <3>1 DEF TypeInv, FeedSend, CallOK
    <2> QED
      BY <2>1, <2>2, <2>3, <2>4, <2>5
  <1> QED
    BY <1>1, <1>2, <1>3 DEF TypeInv

LEMMA PageEdited ==
    ASSUME TypeInv, NEW local, Edit(local), local \in Seq(Entry), EachOnce(local, page.members)
    PROVE  TypeInv'
  <1>1. /\ page' = [page EXCEPT !.local = local, !.timer = TRUE]
        /\ UNCHANGED <<user, rows, conn, saves, call, feed, steady, settled>>
    BY DEF Edit
  <1>2. PageOK' /\ page'.members = page.members
    BY <1>1 DEF TypeInv, PageOK, PageType
  <1>3. SavesOK'
    BY <1>1, <1>2 DEF TypeInv, SavesOK
  <1> QED
    BY <1>1, <1>2, <1>3 DEF TypeInv, ConnOK, CallOK

LEMMA EditType ==
    ASSUME TypeInv,
           \/ \E i, j \in DOMAIN page.local : Moved(i, j)
           \/ \E i \in DOMAIN page.local : Toggled(i)
    PROVE  TypeInv'
  <1>1. page.local \in Seq(Entry) /\ EachOnce(page.local, page.members)
    BY DEF TypeInv, PageOK, PageType
  <1>2. ASSUME NEW i \in DOMAIN page.local, NEW j \in DOMAIN page.local, Moved(i, j)
        PROVE  TypeInv'
    <2> DEFINE local == InsertAt(RemoveAt(page.local, i), j, page.local[i])
    <2>1. local \in Seq(Entry) /\ EachOnce(local, page.members) /\ Edit(local)
      BY <1>1, <1>2, MovedNames DEF Moved
    <2> HIDE DEF local
    <2> QED
      BY <2>1, PageEdited
  <1>3. ASSUME NEW i \in DOMAIN page.local, Toggled(i) PROVE TypeInv'
    <2> DEFINE local == [page.local EXCEPT ![i].include = ~ @]
    <2>1. local \in Seq(Entry) /\ EachOnce(local, page.members) /\ Edit(local)
      BY <1>1, <1>3, ToggledNames DEF Toggled
    <2> HIDE DEF local
    <2> QED
      BY <2>1, PageEdited
  <1> QED
    BY <1>2, <1>3

LEMMA PersistType ==
    ASSUME TypeInv, NEW x \in Slots, Persist(x)
    PROVE  TypeInv'
  <1>1. UNCHANGED <<user, rows, conn, call, feed, steady>> /\ settled' \in BOOLEAN
    BY DEF TypeInv, Persist
  <1>2. PageOK' /\ page'.members = page.members /\ page.local \in Seq(Entry)
    BY DEF TypeInv, Persist, PageOK, PageType
  <1>3. SavesOK'
    <2>1. CASE page.local = << >>
      BY <2>1, <1>2 DEF TypeInv, Persist, SavesOK
    <2>2. CASE page.local # << >>
      <3>1. saves' = [y \in DOMAIN saves \cup {x} |->
               IF y = x THEN [pc |-> "sent", list |-> page.local, own |-> TRUE] ELSE saves[y]]
        BY <2>2 DEF Persist
      <3>2. [pc |-> "sent", list |-> page.local, own |-> TRUE] \in Save
        BY <1>2 DEF Save
      <3>3. DOMAIN saves' = DOMAIN saves \cup {x} /\ saves' \in [DOMAIN saves' -> Save]
        BY <3>1, <3>2 DEF TypeInv, SavesOK
      <3>4. \A y \in DOMAIN saves' : /\ saves'[y].list # << >>
                                     /\ saves'[y].own => EachOnce(saves'[y].list, page.members)
        BY <2>2, <3>1 DEF TypeInv, SavesOK, PageOK
      <3> QED
        BY <3>3, <3>4, <1>2 DEF TypeInv, SavesOK
    <2> QED
      BY <2>1, <2>2
  <1> QED
    BY <1>1, <1>2, <1>3 DEF TypeInv, ConnOK, CallOK

LEMMA FinishedType ==
    ASSUME TypeInv, NEW x \in DOMAIN saves, NEW error \in {"none", "refused", "failed"},
           Finished(x, error)
    PROVE  PageOK' /\ SavesOK' /\ page'.members = page.members
  <1>1. PageOK' /\ page'.members = page.members
    BY DEF TypeInv, Finished, PageOK, PageType
  <1>2. saves' = [y \in DOMAIN saves \ {x} |-> saves[y]]
    BY DEF Finished, Restrict
  <1>3. SavesOK'
    BY <1>1, <1>2 DEF TypeInv, SavesOK
  <1> QED
    BY <1>1, <1>3

LEMMA SaveType ==
    ASSUME TypeInv, NEW x \in DOMAIN saves,
           SaveCheck(x) \/ SaveWrite(x) \/ SaveAnswer(x) \/ SaveLost(x)
    PROVE  TypeInv'
  <1>1. UNCHANGED <<rows, conn, call, feed, settled>> /\ steady' \in BOOLEAN
    BY DEF TypeInv, SaveCheck, SaveWrite, SaveAnswer, SaveLost
  <1>2. saves[x] \in Save
    BY DEF TypeInv, SavesOK
  <1>3. ASSUME NEW pc \in {"write", "answer"}, saves' = [saves EXCEPT ![x].pc = pc],
               UNCHANGED page
        PROVE  PageOK' /\ SavesOK'
    <2>1. saves' \in [DOMAIN saves -> Save] /\ DOMAIN saves' = DOMAIN saves
      BY <1>2, <1>3 DEF TypeInv, SavesOK, Save
    <2>2. \A y \in DOMAIN saves : saves'[y].list = saves[y].list /\ saves'[y].own = saves[y].own
      BY <1>2, <1>3 DEF TypeInv, SavesOK, Save
    <2> QED
      BY <2>1, <2>2, <1>3 DEF TypeInv, SavesOK, PageOK
  <1>4. user' \in Users
    BY <1>2 DEF TypeInv, Users, Save, SaveCheck, SaveWrite, SaveAnswer, SaveLost
  <1>5. PageOK' /\ SavesOK'
    <2>1. CASE SaveCheck(x)
      BY <2>1, <1>3, FinishedType DEF SaveCheck
    <2>2. CASE SaveWrite(x)
      BY <2>2, <1>3 DEF SaveWrite
    <2>3. CASE SaveAnswer(x)
      BY <2>3, FinishedType DEF SaveAnswer
    <2>4. CASE SaveLost(x)
      BY <2>4, FinishedType DEF SaveLost
    <2> QED
      BY <2>1, <2>2, <2>3, <2>4
  <1> QED
    BY <1>1, <1>4, <1>5 DEF TypeInv, ConnOK, CallOK

LEMMA LoadType ==
    ASSUME TypeInv, Load
    PROVE  TypeInv'
  <1>1. /\ UNCHANGED <<user, rows, conn, call, feed, steady>> /\ settled' \in BOOLEAN
        /\ page' = Loaded(user)
        /\ saves' = [x \in DOMAIN saves |-> [saves[x] EXCEPT !.own = FALSE]]
    BY DEF Load
  <1>2. PageOK'
    BY <1>1, LoadedOK DEF TypeInv, PageOK
  <1>3. saves' \in [DOMAIN saves -> Save] /\ DOMAIN saves' = DOMAIN saves
    BY <1>1 DEF TypeInv, SavesOK, Save
  <1>4. \A x \in DOMAIN saves : saves'[x].list # << >> /\ saves'[x].own = FALSE
    BY <1>1 DEF TypeInv, SavesOK, Save
  <1>5. SavesOK'
    BY <1>3, <1>4 DEF TypeInv, SavesOK
  <1> QED
    BY <1>1, <1>2, <1>5 DEF TypeInv, ConnOK, CallOK

(* What may be changed in a row without harm to its type.                  *)
LEMMA RowChanged ==
    ASSUME NEW q, RowOK(q), NEW active \in BOOLEAN, NEW tags \in SUBSET Names,
           NEW mode, NEW raw, NEW json, NEW mixed
    PROVE  /\ RowOK([q EXCEPT !.tags = tags])
           /\ RowOK([q EXCEPT !.active = active])
           /\ RowOK([q EXCEPT !.json = json, !.mixed = mixed])
           /\ RowOK([q EXCEPT !.mode = mode, !.raw = raw, !.json = json, !.mixed = mixed])
  <1>1. PICK a, b, c, d, e, f :
           /\ a \in BOOLEAN /\ b \in SUBSET Names
           /\ q = [active |-> a, tags |-> b, mode |-> c, raw |-> d, json |-> e, mixed |-> f]
    BY DEF RowOK
  <1>2. \A r, x1, x2, x3, x4, x5, x6 :
           /\ r = [active |-> x1, tags |-> x2, mode |-> x3, raw |-> x4, json |-> x5, mixed |-> x6]
           /\ x1 \in BOOLEAN /\ x2 \in SUBSET Names
           => RowOK(r)
    BY DEF RowOK
  <1>3. RowOK([q EXCEPT !.tags = tags])
    <2>1. [q EXCEPT !.tags = tags] =
             [active |-> a, tags |-> tags, mode |-> c, raw |-> d, json |-> e, mixed |-> f]
      BY <1>1
    <2> QED
      BY <1>1, <1>2, <2>1
  <1>4. RowOK([q EXCEPT !.active = active])
    <2>1. [q EXCEPT !.active = active] =
             [active |-> active, tags |-> b, mode |-> c, raw |-> d, json |-> e, mixed |-> f]
      BY <1>1
    <2> QED
      BY <1>1, <1>2, <2>1
  <1>5. RowOK([q EXCEPT !.json = json, !.mixed = mixed])
    <2>1. PICK r : r = [q EXCEPT !.json = json, !.mixed = mixed]
      OBVIOUS
    <2>2. r \in [active: {a}, tags: {b}, mode: {c}, raw: {d}, json: {json}, mixed: {mixed}]
      BY <1>1, <2>1
    <2>3. RowOK(r)
      BY <1>1, <2>2 DEF RowOK
    <2> QED
      BY <2>1, <2>3
  <1>6. RowOK([q EXCEPT !.mode = mode, !.raw = raw, !.json = json, !.mixed = mixed])
    <2>1. PICK r : r = [q EXCEPT !.mode = mode, !.raw = raw, !.json = json, !.mixed = mixed]
      OBVIOUS
    <2>2. r \in [active: {a}, tags: {b}, mode: {mode}, raw: {raw}, json: {json}, mixed: {mixed}]
      BY <1>1, <2>1
    <2>3. RowOK(r)
      BY <1>1, <2>2 DEF RowOK
    <2> QED
      BY <2>1, <2>3
  <1> QED
    BY <1>3, <1>4, <1>5, <1>6

LEMMA ChangeType ==
    ASSUME TypeInv, NEW c \in Conns, NEW r, NEW what, Change(c, r, what), RowOK(r)
    PROVE  TypeInv'
  <1>1. /\ conn' = [conn EXCEPT ![c] = r] /\ steady' = FALSE
        /\ UNCHANGED <<user, rows, page, saves, call, feed, settled>>
    BY DEF Change
  <1>2. ConnOK'
    BY <1>1 DEF TypeInv, ConnOK
  <1> QED
    BY <1>1, <1>2 DEF TypeInv, PageOK, SavesOK, CallOK

LEMMA OperatorType ==
    ASSUME TypeInv,
           \/ \E g \in Memberships : SetGroups(g)
           \/ \E c \in Conns, tags \in SUBSET Names : Retag(c, tags)
           \/ \E c \in Conns : Toggle(c)
           \/ \E c \in Conns, s \in Sources : Synchronise(c, s)
           \/ \E c \in Conns, kind \in {"object", "array"} : UpdateRawJson(c, kind)
    PROVE  TypeInv'
  <1>1. \A c \in Conns : RowOK(conn[c])
    BY DEF TypeInv, ConnOK
  <1>2. ASSUME NEW g \in Memberships, SetGroups(g) PROVE TypeInv'
    <2>1. g \in Seq(Names)
      BY FeedAssumption
    <2>2. user' \in Users
      BY <1>2, <2>1 DEF SetGroups, TypeInv, Users
    <2> QED
      BY <1>2, <2>2 DEF SetGroups, TypeInv, ConnOK, PageOK, SavesOK, CallOK
  <1>3. ASSUME NEW c \in Conns, NEW tags \in SUBSET Names, Retag(c, tags) PROVE TypeInv'
    <2>1. PICK r : r = [conn[c] EXCEPT !.tags = tags] /\ Change(c, r, "moves")
      BY <1>3 DEF Retag
    <2>2. RowOK(r)
      BY <1>1, <2>1, RowChanged
    <2> QED
      BY <2>1, <2>2, ChangeType
  <1>4. ASSUME NEW c \in Conns, Toggle(c) PROVE TypeInv'
    <2>1. PICK r : r = [conn[c] EXCEPT !.active = ~ @] /\ Change(c, r, "moves")
      BY <1>4 DEF Toggle
    <2>2. (~ conn[c].active) \in BOOLEAN
      OBVIOUS
    <2>3. RowOK(r)
      BY <1>1, <2>1, <2>2, RowChanged
    <2> QED
      BY <2>1, <2>3, ChangeType
  <1>5. ASSUME NEW c \in Conns, NEW s \in Sources, Synchronise(c, s) PROVE TypeInv'
    <2>1. PICK r : r = Renewed(conn[c], s) /\ Change(c, r, "entries")
      BY <1>5 DEF Synchronise
    <2>2. PICK mode, raw, json, mixed :
             r = [conn[c] EXCEPT !.mode = mode, !.raw = raw, !.json = json, !.mixed = mixed]
      BY <2>1 DEF Renewed
    <2>3. RowOK(r)
      BY <1>1, <2>2, RowChanged
    <2> QED
      BY <2>1, <2>3, ChangeType
  <1>6. ASSUME NEW c \in Conns, NEW kind \in {"object", "array"}, UpdateRawJson(c, kind)
        PROVE  TypeInv'
    <2>1. PICK r : /\ r = [conn[c] EXCEPT !.json = [kind |-> kind], !.mixed = TRUE]
                   /\ Change(c, r, "entries")
      BY <1>6 DEF UpdateRawJson
    <2>2. RowOK(r)
      BY <1>1, <2>1, RowChanged
    <2> QED
      BY <2>1, <2>2, ChangeType
  <1> QED
    BY <1>2, <1>3, <1>4, <1>5, <1>6

LEMMA StepType == TypeInv /\ [Next]_vars => TypeInv'
  <1> SUFFICES ASSUME TypeInv, [Next]_vars PROVE TypeInv'
    OBVIOUS
  <1>1. CASE UNCHANGED vars
    BY <1>1 DEF TypeInv, ConnOK, PageOK, SavesOK, CallOK, vars
  <1>2. CASE Next
    BY <1>2, CallType, EditType, PersistType, SaveType, LoadType, OperatorType DEF Next
  <1> QED
    BY <1>1, <1>2

LEMMA Typed == Spec => []TypeInv
  BY InitType, StepType, PTL DEF Spec

(* The types hold for every set of groups, connects and scenarios, and the *)
(* list on the page never names two groups that agree but for case.        *)
THEOREM TypeCorrect == Spec => []TypeOK
  <1>1. TypeInv => TypeOK
    BY DEF TypeInv, TypeOK, Users, ConnOK, RowOK, PageOK, PageType, EachOnce, SavesOK, CallOK, NoCall
  <1> QED
    BY <1>1, Typed, PTL

-----------------------------------------------------------------------------
(* Saves.                                                                  *)
LEMMA OwnAccepted ==
    ASSUME TypeInv, NEW x \in DOMAIN saves, saves[x].own, user.groups = page.members
    PROVE  Acceptable(saves[x].list, user)
  <1>1. /\ saves[x].list # << >> /\ saves[x].list \in Seq(Entry)
        /\ EachOnce(saves[x].list, user.groups)
    BY DEF TypeInv, SavesOK, Save
  <1>2. OrderedUnique(user.groups) # << >>
    <2>1. Len(saves[x].list) # 0
      BY <1>1, EmptySeq
    <2>2. OrderedUnique(user.groups) = << >> => Len(OrderedUnique(user.groups)) = 0
      OBVIOUS
    <2> QED
      BY <1>1, <2>1, <2>2 DEF EachOnce
  <1> QED
    BY <1>1, <1>2 DEF EachOnce, Acceptable

LEMMA StepRefused ==
    ASSUME TypeInv, [Next]_vars, page'.error = "refused", page.error # "refused"
    PROVE  user.groups # page.members
  <1>1. PICK x \in DOMAIN saves : SaveCheck(x) \/ SaveWrite(x) \/ SaveAnswer(x) \/ SaveLost(x)
    <2>1. page # page'
      OBVIOUS
    <2>2. ~ ((\E f \in Formats : FeedStart(f)) \/ FeedMeta \/ FeedReach \/ FeedBatch \/ FeedSend)
      BY <2>1 DEF FeedStart, FeedMeta, FeedReach, FeedBatch, FeedSend
    <2>3. \A local : ~ Edit(local)
      BY DEF Edit, TypeInv, PageOK, PageType
    <2>4. \A y \in Slots : ~ Persist(y)
      BY DEF Persist, TypeInv, PageOK, PageType
    <2>5. ~ Load
      BY DEF Load, Loaded
    <2>6. \A g : ~ SetGroups(g)
      BY <2>1 DEF SetGroups
    <2>7. \A c, r, what : ~ Change(c, r, what)
      BY <2>1 DEF Change
    <2>8. Next
      BY <2>1 DEF vars
    <2> QED
      BY <2>2, <2>3, <2>4, <2>5, <2>6, <2>7, <2>8
         DEF Next, Moved, Toggled, Retag, Toggle, Synchronise, UpdateRawJson
  <1>2. SaveCheck(x) /\ Finished(x, "refused") /\ ~ Acceptable(saves[x].list, user)
    BY <1>1 DEF TypeInv, PageOK, PageType, SaveCheck, SaveWrite, SaveAnswer, SaveLost, Finished
  <1>3. saves[x].own
    BY <1>2 DEF Finished
  <1> QED
    BY <1>2, <1>3, OwnAccepted

(* Whatever choice is stored, of whatever earlier membership, the list the *)
(* page gets can be sent back, in any order and with any boxes ticked: a   *)
(* save of the page is refused only after the operator changed the groups. *)
THEOREM RefusedOnlyIfStaleCorrect == Spec => RefusedOnlyIfStale
  <1>1. TypeInv /\ [Next]_vars
           => [page'.error = "refused" /\ page.error # "refused" => user.groups # page.members]_vars
    BY StepRefused
  <1> QED
    BY <1>1, Typed, PTL DEF Spec, RefusedOnlyIfStale

(* While settled, there is at most one save, of this page, and unless the  *)
(* list has been edited since it has the list on the page; once it has     *)
(* written, its list is in force.                                          *)
SettledInv ==
    settled =>
        /\ page.members = user.groups
        /\ \A x, y \in DOMAIN saves : x = y
        /\ \A x \in DOMAIN saves :
              /\ saves[x].own /\ page.error = "none"
              /\ ~ page.timer => saves[x].list = page.local
              /\ saves[x].pc = "answer" => saves[x].list = Effective(user)
        /\ DOMAIN saves = {} /\ ~ page.timer /\ page.error = "none"
              => page.local = Effective(user)

LEMMA InitSettled == Init => SettledInv
  BY DEF Init, SettledInv, Loaded

LEMMA SettledEdit ==
    ASSUME TypeInv, SettledInv, NEW local, Edit(local)
    PROVE  SettledInv'
  BY DEF TypeInv, PageOK, PageType, SettledInv, Edit

LEMMA SettledPersist ==
    ASSUME TypeInv, SettledInv, NEW x \in Slots, Persist(x)
    PROVE  SettledInv'
  <1>1. user' = user
    BY DEF Persist
  <1>2. CASE page.local = << >>
    <2>1. /\ page' = [page EXCEPT !.timer = FALSE] /\ UNCHANGED <<saves, settled>>
      BY <1>2 DEF Persist
    <2>2. /\ page'.local = << >> /\ page'.members = page.members /\ page'.error = page.error
      BY <1>2, <2>1 DEF TypeInv, PageOK, PageType
    <2>3. SUFFICES ASSUME settled PROVE SettledInv'
      BY <2>1 DEF SettledInv
    <2>4. Len(OrderedUnique(user.groups)) = 0
      BY <1>2, <2>3 DEF TypeInv, PageOK, EachOnce, SettledInv
    <2>5. Effective(user) = << >>
      <3>1. Effective(user) \in Seq(Entry) /\ Len(Effective(user)) = 0
        BY <2>4, EffectiveNames DEF TypeInv, EachOnce
      <3> QED
        BY <3>1, EmptySeq
    <2>6. DOMAIN saves = {}
      <3>1. SUFFICES ASSUME NEW y \in DOMAIN saves PROVE FALSE
        OBVIOUS
      <3>2. /\ saves[y].list \in Seq(Entry) /\ saves[y].list # << >>
            /\ EachOnce(saves[y].list, user.groups)
        BY <2>3, <3>1 DEF TypeInv, SavesOK, Save, SettledInv
      <3>3. Len(saves[y].list) = 0
        BY <2>4, <3>2 DEF EachOnce
      <3> QED
        BY <3>2, <3>3, EmptySeq
    <2> QED
      BY <1>1, <2>1, <2>2, <2>3, <2>5, <2>6 DEF SettledInv
  <1>3. CASE page.local # << >>
    <2>1. /\ x \notin DOMAIN saves
          /\ saves' = [y \in DOMAIN saves \cup {x} |->
                IF y = x THEN [pc |-> "sent", list |-> page.local, own |-> TRUE] ELSE saves[y]]
          /\ page' = [page EXCEPT !.timer = FALSE, !.saving = TRUE, !.error = "none"]
          /\ settled' = (settled /\ DOMAIN saves = {})
      BY <1>3 DEF Persist
    <2>2. /\ page'.local = page.local /\ page'.error = "none" /\ page'.members = page.members
      BY <2>1 DEF TypeInv, PageOK, PageType
    <2>3. SUFFICES ASSUME settled, DOMAIN saves = {} PROVE SettledInv'
      BY <2>1 DEF SettledInv
    <2>4. /\ DOMAIN saves' = {x} /\ saves'[x].pc = "sent" /\ saves'[x].own
          /\ saves'[x].list = page.local
      BY <2>1, <2>3
    <2> QED
      BY <1>1, <2>2, <2>3, <2>4 DEF SettledInv
  <1> QED
    BY <1>2, <1>3

LEMMA SettledFinished ==
    ASSUME TypeInv, SettledInv, NEW x \in DOMAIN saves, NEW error \in {"none", "refused", "failed"},
           Finished(x, error), saves[x].pc = "answer" \/ error # "none",
           UNCHANGED <<user, settled>>
    PROVE  SettledInv'
  <1>1. SUFFICES ASSUME settled PROVE SettledInv'
    BY DEF SettledInv
  <1>2. DOMAIN saves' = {} /\ saves[x].own /\ page.error = "none" /\ page.members = user.groups
    BY <1>1 DEF SettledInv, Finished, Restrict
  <1>3. page' = [page EXCEPT !.saving = FALSE, !.error = IF error = "none" THEN @ ELSE error]
    BY <1>2 DEF Finished
  <1>4. /\ page'.error = error /\ page'.local = page.local /\ page'.members = page.members
        /\ page'.timer = page.timer
    BY <1>2, <1>3 DEF TypeInv, PageOK, PageType
  <1>5. error = "none" /\ ~ page.timer => page.local = Effective(user)
    BY <1>1 DEF SettledInv
  <1> QED
    BY <1>1, <1>2, <1>4, <1>5 DEF SettledInv

LEMMA SettledSave ==
    ASSUME TypeInv, SettledInv, NEW x \in DOMAIN saves,
           SaveCheck(x) \/ SaveWrite(x) \/ SaveAnswer(x) \/ SaveLost(x)
    PROVE  SettledInv'
  <1>1. saves[x] \in Save
    BY DEF TypeInv, SavesOK
  <1>2. ASSUME NEW pc \in {"write", "answer"}, saves' = [saves EXCEPT ![x].pc = pc]
        PROVE  /\ DOMAIN saves' = DOMAIN saves /\ saves'[x].pc = pc
               /\ \A y \in DOMAIN saves : /\ saves'[y].own = saves[y].own
                                          /\ saves'[y].list = saves[y].list
                                          /\ y # x => saves'[y] = saves[y]
    BY <1>1, <1>2 DEF TypeInv, SavesOK, Save
  <1>3. CASE SaveCheck(x)
    <2>1. UNCHANGED <<user, settled>>
      BY <1>3 DEF SaveCheck
    <2>2. CASE Acceptable(saves[x].list, user)
      <3>1. saves' = [saves EXCEPT ![x].pc = "write"] /\ UNCHANGED page
        BY <1>3, <2>2 DEF SaveCheck
      <3> QED
        BY <2>1, <3>1, <1>2 DEF SettledInv
    <2>3. CASE ~ Acceptable(saves[x].list, user)
      BY <1>3, <2>1, <2>3, SettledFinished DEF SaveCheck
    <2> QED
      BY <2>2, <2>3
  <1>4. CASE SaveWrite(x)
    <2>1. /\ user' = [user EXCEPT !.prefs = saves[x].list] /\ UNCHANGED <<page, settled>>
          /\ saves' = [saves EXCEPT ![x].pc = "answer"]
      BY <1>4 DEF SaveWrite
    <2>2. SUFFICES ASSUME settled PROVE SettledInv'
      BY <2>1 DEF SettledInv
    <2>3. EachOnce(saves[x].list, user.groups) /\ \A y \in DOMAIN saves : y = x
      BY <2>2 DEF TypeInv, SavesOK, SettledInv
    <2>4. user' \in Users /\ user'.prefs = saves[x].list /\ user'.groups = user.groups
      BY <2>1, <1>1 DEF TypeInv, Users, Save
    <2>5. Effective(user') = saves[x].list
      BY <2>3, <2>4, StoredInForce
    <2> QED
      BY <2>1, <2>2, <2>3, <2>4, <2>5, <1>2 DEF SettledInv
  <1>5. CASE SaveAnswer(x)
    BY <1>5, SettledFinished DEF SaveAnswer
  <1>6. CASE SaveLost(x)
    BY <1>6, SettledFinished DEF SaveLost
  <1> QED
    BY <1>3, <1>4, <1>5, <1>6

LEMMA StepSettled == TypeInv /\ SettledInv /\ [Next]_vars => SettledInv'
  <1> SUFFICES ASSUME TypeInv, SettledInv, [Next]_vars PROVE SettledInv'
    OBVIOUS
  <1>1. CASE UNCHANGED <<user, page, saves, settled>>
    BY <1>1 DEF SettledInv
  <1>2. ASSUME \E f \in Formats : FeedStart(f) PROVE SettledInv'
    BY <1>1, <1>2 DEF FeedStart
  <1>3. CASE FeedMeta \/ FeedReach \/ FeedBatch \/ FeedSend
    BY <1>1, <1>3 DEF FeedMeta, FeedReach, FeedBatch, FeedSend
  <1>4. ASSUME NEW local, Edit(local) PROVE SettledInv'
    BY <1>4, SettledEdit
  <1>5. CASE Load
    <2>1. /\ page' = Loaded(user) /\ user' = user /\ settled' = (DOMAIN saves = {})
          /\ DOMAIN saves' = DOMAIN saves
      BY <1>5 DEF Load
    <2> QED
      BY <2>1 DEF SettledInv, Loaded
  <1>6. ASSUME NEW g, SetGroups(g) PROVE SettledInv'
    BY <1>6 DEF SetGroups, SettledInv
  <1>7. ASSUME NEW c, NEW r, NEW what, Change(c, r, what) PROVE SettledInv'
    BY <1>1, <1>7 DEF Change
  <1>8. CASE UNCHANGED vars
    BY <1>1, <1>8 DEF vars
  <1> QED
    BY <1>2, <1>3, <1>4, <1>5, <1>6, <1>7, <1>8, SettledPersist, SettledSave
       DEF Next, Moved, Toggled, Retag, Toggle, Synchronise, UpdateRawJson

(* The page at rest shows what the feed follows, whatever the operator and *)
(* the subscriber did before the page was loaded: the list a save stores   *)
(* is the choice in force, so an answered save leaves page and feed agreed *)
(* until a second save, another page or the operator comes in between.     *)
THEOREM RestingPageTrueCorrect == Spec => []RestingPageTrue
  <1>1. SettledInv => RestingPageTrue
    BY DEF SettledInv, RestingPageTrue
  <1>2. Spec => []SettledInv
    BY InitSettled, StepSettled, Typed, PTL DEF Spec
  <1> QED
    BY <1>1, <1>2, PTL

-----------------------------------------------------------------------------
(* Title and meta.                                                         *)
Included == IncludedOf(Effective(user))

LEMMA IncludedType ==
    ASSUME TypeInv
    PROVE  /\ Included \in Seq(Names) /\ Free(Included, Key)
           /\ Len(Included) \in Nat /\ DOMAIN Included = 1 .. Len(Included)
           /\ \A i \in DOMAIN Included : Included[i] \in Names
  <1>1. Included \in Seq(Names) /\ Free(Included, Key)
    BY IncludedNames DEF TypeInv, Included, Free
  <1> HIDE DEF Included
  <1> QED
    BY <1>1, LenProperties

LEMMA CanonicalName ==
    ASSUME TypeInv, NEW n \in Names
    PROVE  Canonical(n) \in Names
  <1>1. RowsLike(n) \subseteq Names
    BY DEF RowsLike, TypeInv
  <1> QED
    BY <1>1 DEF Canonical

LEMMA DisplayedType ==
    ASSUME TypeInv, NEW members \in Seq(Names)
    PROVE  Displayed(members) \in Seq(Names)
  <1> DEFINE tags == UNION {conn[c].tags : c \in UNION {ActiveIn(n) : n \in Range(members)}}
             shown == {Canonical(n) : n \in Range(members) \cup tags}
             one(k) == CHOOSE n \in shown : Key[n] = k
             U == {one(k) : k \in {Key[n] : n \in shown}}
  <1>1. Range(members) \subseteq Names
    BY LenProperties DEF Range
  <1>2. tags \subseteq Names
    BY DEF TypeInv, ConnOK, RowOK, ActiveIn
  <1>3. shown \subseteq Names
    <2> HIDE DEF tags
    <2> QED
      BY <1>1, <1>2, CanonicalName
  <1> HIDE DEF shown
  <1>4. \A n \in shown : one(Key[n]) \in shown /\ Key[one(Key[n])] = Key[n]
    OBVIOUS
  <1> HIDE DEF one
  <1>5. U \subseteq Names /\ \A x, y \in U : Key[x] = Key[y] => x = y
    BY <1>3, <1>4
  <1>6. Displayed(members) = InOrder(U, Key)
    BY DEF Displayed, shown, one
  <1> HIDE DEF U
  <1>7. Ranked(U, Key)
    <2>1. IsFiniteSet(U)
      BY <1>5, FeedAssumption, FS_Subset
    <2> QED
      BY <2>1, <1>5, FeedAssumption DEF Ranked
  <1>8. Cardinality(U) \in Nat /\ InOrder(U, Key) \in [1 .. Cardinality(U) -> U]
    BY <1>7, Ordered
  <1>9. InOrder(U, Key) \in [1 .. Cardinality(U) -> Names]
    BY <1>5, <1>8
  <1>10. \E n \in Nat : InOrder(U, Key) \in [1 .. n -> Names]
    BY <1>8, <1>9
  <1> QED
    BY <1>6, <1>10, SeqDef

(* The included groups come first in the order of the meta.                *)
LEMMA MetaOrderPrefix ==
    ASSUME TypeInv
    PROVE  /\ MetaOrder(user) \in Seq(Names)
           /\ Len(Included) <= Len(MetaOrder(user))
           /\ \A k \in 1 .. Len(Included) : MetaOrder(user)[k] = Included[k]
  <1>1. PICK members : members = OrderedUnique(user.groups)
    OBVIOUS
  <1>2. members \in Seq(Names)
    BY <1>1, Members DEF TypeInv, Users
  <1>3. PICK shown : shown = Displayed(members)
    OBVIOUS
  <1>4. shown \in Seq(Names)
    BY <1>2, <1>3, DisplayedType
  <1>5. PICK cat : cat = members \o shown
    OBVIOUS
  <1>6. cat \in Seq(Names)
    BY <1>2, <1>4, <1>5, ConcatProperties
  <1>7. PICK order : order = OrderedUnique(cat)
    OBVIOUS
  <1>8. order \in Seq(Names)
    BY <1>6, <1>7, Members
  <1>9. MetaOrder(user) = Firsts(Included \o order, Key)
    BY <1>1, <1>3, <1>5, <1>7 DEF MetaOrder, PanelOrder, OrderedUnique, Included
  <1>10. PICK ns : ns = Included
    OBVIOUS
  <1>11. ns \in Seq(Names) /\ Free(ns, Key)
    BY <1>10, IncludedType
  <1>12. /\ Len(ns) <= Len(Firsts(ns \o order, Key))
         /\ \A k \in 1 .. Len(ns) : Firsts(ns \o order, Key)[k] = ns[k]
    BY <1>8, <1>11, FirstsOfConcat
  <1>13. PICK all : all = ns \o order
    OBVIOUS
  <1>14. all \in Seq(Names)
    BY <1>8, <1>11, <1>13, ConcatProperties
  <1>15. Firsts(all, Key) \in Seq(Names)
    BY <1>14, FirstsProperties
  <1> QED
    BY <1>9, <1>10, <1>12, <1>13, <1>15

(* What SteadyFeedExact says of the meta.                                  *)
MetaTrue(meta) ==
    \A i \in DOMAIN Included :
        (Included[i] \in DOMAIN rows /\ \A j \in 1 .. i - 1 : RowsLike(Included[j]) = {}) =>
           /\ meta.announce = Origin(Included[i], "announce")
           /\ meta.interval = Origin(Included[i], "interval")

LEMMA MetaOfFirst ==
    ASSUME TypeInv, NEW setting, NEW i \in DOMAIN Included, Included[i] \in DOMAIN rows,
           \A j \in 1 .. i - 1 : RowsLike(Included[j]) = {}
    PROVE  MetaFrom(user, setting) = Origin(Included[i], setting)
  <1>1. PICK ns, order : ns = Included /\ order = MetaOrder(user)
    OBVIOUS
  <1> DEFINE T == {n \in Names : RowsLike(n) # {}}
             n == ns[i]
             found == Those(order, T)
  <1>2. /\ ns \in Seq(Names) /\ Len(ns) \in Nat /\ DOMAIN ns = 1 .. Len(ns)
        /\ \A k \in DOMAIN ns : ns[k] \in Names
    BY <1>1, IncludedType
  <1>3. /\ order \in Seq(Names) /\ Len(ns) <= Len(order)
        /\ \A k \in 1 .. Len(ns) : order[k] = ns[k]
    BY <1>1, MetaOrderPrefix
  <1>4. DOMAIN order = 1 .. Len(order) /\ Len(order) \in Nat
    BY <1>3, LenProperties
  <1>5. i \in 1 .. Len(ns) /\ i \in DOMAIN order /\ order[i] = n
    BY <1>1, <1>2, <1>3, <1>4
  <1>6. RowsLike(n) = {n}
    BY <1>1 DEF RowsLike
  <1>7. order[i] \in T
    BY <1>2, <1>5, <1>6
  <1>8. \A j \in 1 .. i - 1 : order[j] \notin T
    <2>1. SUFFICES ASSUME NEW j \in 1 .. i - 1 PROVE RowsLike(order[j]) = {}
      OBVIOUS
    <2>2. j \in 1 .. Len(ns)
      BY <1>2, <1>5
    <2> QED
      BY <2>2, <1>1, <1>3
  <1>9. found # << >> /\ found[1] = n
    <2> HIDE DEF T, n
    <2> QED
      BY <1>3, <1>5, <1>7, <1>8, ThoseProperties
  <1>10. Canonical(n) = n
    BY <1>6 DEF Canonical
  <1> QED
    BY <1>1, <1>9, <1>10 DEF MetaFrom

-----------------------------------------------------------------------------
(* The lines.                                                              *)
Reachable ==
    {c \in UNION {ActiveIn(n) : n \in Range(NamesOf(Effective(user)))} : conn[c].raw # OfBalancer}

IsFirst(c, i) ==
    /\ i \in DOMAIN Included /\ Included[i] \in conn[c].tags
    /\ \A j \in 1 .. i - 1 : Included[j] \notin conn[c].tags

Covered(c, d) == conn[c].active /\ \E i \in 1 .. d : Included[i] \in conn[c].tags

(* What has been sent when the first d groups are done.                    *)
Sent(items, format, reach, d) ==
    /\ \E E : items \in Seq(E)
    /\ {items[i].of : i \in DOMAIN items} =
          {c \in Conns : Covered(c, d) /\ Line(c, format, reach) # << >>}
    /\ \A i, j \in DOMAIN items : i < j =>
          \E k, l \in DOMAIN Included :
              /\ IsFirst(items[i].of, k) /\ IsFirst(items[j].of, l)
              /\ k < l \/ (k = l /\ Rank[items[i].of] < Rank[items[j].of])

LEMMA FirstExists ==
    ASSUME TypeInv, NEW c \in Conns, NEW d \in 0 .. Len(Included), Covered(c, d)
    PROVE  \E k \in 1 .. d : IsFirst(c, k)
  <1> DEFINE T == {i \in 1 .. d : Included[i] \in conn[c].tags}
  <1>1. T \subseteq Nat /\ T # {}
    BY DEF Covered
  <1>2. PICK k \in T : \A j \in T : k <= j
    <2> HIDE DEF T
    <2> QED
      BY <1>1, Least
  <1>3. k \in DOMAIN Included
    BY <1>2, IncludedType
  <1>4. ASSUME NEW j \in 1 .. k - 1 PROVE Included[j] \notin conn[c].tags
    <2>1. j \in 1 .. d /\ ~ (k <= j)
      BY <1>2, IncludedType
    <2> QED
      BY <2>1, <1>2
  <1> QED
    BY <1>2, <1>3, <1>4 DEF IsFirst

LEMMA FirstInIs ==
    ASSUME TypeInv, NEW c \in Conns, NEW k, IsFirst(c, k)
    PROVE  FirstIn(c, Included) = k
  <1>1. ASSUME NEW i \in DOMAIN Included, Included[i] \in conn[c].tags,
               \A j \in 1 .. i - 1 : Included[j] \notin conn[c].tags
        PROVE  i = k
    <2>1. i \in Nat /\ k \in Nat /\ i >= 1 /\ k >= 1
      BY IncludedType DEF IsFirst
    <2>2. ~ (i < k)
      <3>1. i < k => i \in 1 .. k - 1
        BY <2>1
      <3> QED
        BY <3>1, <1>1 DEF IsFirst
    <2>3. ~ (k < i)
      <3>1. k < i => k \in 1 .. i - 1
        BY <2>1
      <3> QED
        BY <3>1, <1>1 DEF IsFirst
    <2> QED
      BY <2>1, <2>2, <2>3
  <1>2. k \in DOMAIN Included /\ Included[k] \in conn[c].tags
           /\ \A j \in 1 .. k - 1 : Included[j] \notin conn[c].tags
    BY DEF IsFirst
  <1> HIDE DEF Included
  <1> QED
    BY <1>1, <1>2 DEF FirstIn

(* The lines of a group: one for each connect that has one, in order.      *)
LEMMA LinesProperties ==
    ASSUME NEW S \in SUBSET Conns, NEW format, NEW reach
    PROVE  LET ls == Lines(S, format, reach)
               due == {c \in S : Line(c, format, reach) # << >>}
           IN /\ \E E : ls \in Seq(E)
              /\ {ls[i].of : i \in DOMAIN ls} = due
              /\ \A i, j \in DOMAIN ls : i < j => Rank[ls[i].of] < Rank[ls[j].of]
  <1> DEFINE due == {c \in S : Line(c, format, reach) # << >>}
             cs == InOrder(due, Rank)
             ls == [i \in DOMAIN cs |-> Line(cs[i], format, reach)[1]]
             n == Cardinality(due)
  <1>1. ls = Lines(S, format, reach)
    BY DEF Lines
  <1>2. \A c \in due : Line(c, format, reach)[1].of = c
    BY DEF Line
  <1>3. due \subseteq Conns
    OBVIOUS
  <1> HIDE DEF due
  <1>4. Ranked(due, Rank)
    <2>1. IsFiniteSet(due)
      BY <1>3, FeedAssumption, FS_Subset
    <2> QED
      BY <2>1, <1>3, FeedAssumption DEF Ranked, IsInjective
  <1>5. /\ n \in Nat /\ cs \in [1 .. n -> due]
        /\ \A c \in due : \E i \in DOMAIN cs : cs[i] = c
        /\ Ascending(cs, Rank)
    BY <1>4, Ordered
  <1> HIDE DEF cs
  <1>6. DOMAIN ls = 1 .. n /\ \A i \in 1 .. n : ls[i].of = cs[i] /\ cs[i] \in due
    BY <1>2, <1>5
  <1>7. \E E : ls \in Seq(E)
    <2>1. ls \in [1 .. n -> {ls[i] : i \in 1 .. n}]
      BY <1>5
    <2> HIDE DEF ls, n
    <2>2. ls \in Seq({ls[i] : i \in 1 .. n})
      BY <1>5, <2>1, SeqDef
    <2> QED
      BY <2>2
  <1> HIDE DEF ls
  <1>8. {ls[i].of : i \in DOMAIN ls} = due
    BY <1>5, <1>6
  <1>9. \A i, j \in DOMAIN ls : i < j => Rank[ls[i].of] < Rank[ls[j].of]
    BY <1>5, <1>6 DEF Ascending
  <1> QED
    BY <1>1, <1>7, <1>8, <1>9 DEF due

(* One group more.                                                         *)
LEMMA SentGrows ==
    ASSUME TypeInv, NEW d \in Nat, d + 1 \in DOMAIN Included, NEW items, NEW format, NEW reach,
           NEW seen, seen = {c \in Conns : Covered(c, d)},
           Sent(items, format, reach, d)
    PROVE  LET batch == ActiveIn(Included[d + 1]) \ seen IN
           /\ seen \cup batch = {c \in Conns : Covered(c, d + 1)}
           /\ Sent(items \o Lines(batch, format, reach), format, reach, d + 1)
  <1> DEFINE batch == ActiveIn(Included[d + 1]) \ seen
             due(e) == {c \in Conns : Covered(c, e) /\ Line(c, format, reach) # << >>}
             new == {c \in batch : Line(c, format, reach) # << >>}
  <1>1. /\ Len(Included) \in Nat /\ DOMAIN Included = 1 .. Len(Included)
        /\ d \in 0 .. Len(Included) /\ d + 1 \in 1 .. Len(Included)
    BY IncludedType
  <1>2. \A c \in Conns : Covered(c, d + 1) <=> Covered(c, d) \/ c \in ActiveIn(Included[d + 1])
    <2>1. 1 .. d + 1 = 1 .. d \cup {d + 1}
      OBVIOUS
    <2> QED
      BY <2>1 DEF Covered, ActiveIn
  <1>3. batch \in SUBSET Conns /\ seen \cup batch = {c \in Conns : Covered(c, d + 1)}
    BY <1>2 DEF ActiveIn
  <1>4. \A c \in batch : IsFirst(c, d + 1)
    <2>1. SUFFICES ASSUME NEW c \in batch, NEW j \in 1 .. d PROVE Included[j] \notin conn[c].tags
      BY <1>1 DEF IsFirst, ActiveIn
    <2>2. conn[c].active /\ ~ Covered(c, d)
      BY <2>1 DEF ActiveIn
    <2> QED
      BY <2>2 DEF Covered
  <1>5. due(d + 1) = due(d) \cup new
    BY <1>2, <1>3
  <1>6. PICK ls : ls = Lines(batch, format, reach)
    OBVIOUS
  <1> HIDE DEF batch
  <1>7. /\ \E E : ls \in Seq(E)
        /\ {ls[i].of : i \in DOMAIN ls} = new
        /\ \A i, j \in DOMAIN ls : i < j => Rank[ls[i].of] < Rank[ls[j].of]
    <2>1. PICK S \in SUBSET Conns : S = batch
      BY <1>3
    <2>2. /\ \E E : Lines(S, format, reach) \in Seq(E)
          /\ {Lines(S, format, reach)[i].of : i \in DOMAIN Lines(S, format, reach)} =
                {c \in S : Line(c, format, reach) # << >>}
          /\ \A i, j \in DOMAIN Lines(S, format, reach) :
                i < j => Rank[Lines(S, format, reach)[i].of] < Rank[Lines(S, format, reach)[j].of]
      BY LinesProperties
    <2> QED
      BY <2>1, <2>2, <1>6
  <1>8. /\ \E E : items \in Seq(E)
        /\ {items[i].of : i \in DOMAIN items} = due(d)
        /\ \A i, j \in DOMAIN items : i < j =>
              \E k, l \in DOMAIN Included :
                  /\ IsFirst(items[i].of, k) /\ IsFirst(items[j].of, l)
                  /\ k < l \/ (k = l /\ Rank[items[i].of] < Rank[items[j].of])
    BY DEF Sent
  <1> HIDE DEF new
  <1>9. PICK E : items \in Seq(E) /\ ls \in Seq(E)
    <2>1. PICK E1, E2 : items \in Seq(E1) /\ ls \in Seq(E2)
      BY <1>7, <1>8
    <2>2. items \in Seq(E1 \cup E2) /\ ls \in Seq(E1 \cup E2)
      BY <2>1
    <2> QED
      BY <2>2
  <1> DEFINE cat == items \o ls
  <1>10. /\ Len(items) \in Nat /\ DOMAIN items = 1 .. Len(items)
         /\ Len(ls) \in Nat /\ DOMAIN ls = 1 .. Len(ls)
         /\ cat \in Seq(E) /\ Len(cat) = Len(items) + Len(ls)
         /\ \A i \in 1 .. Len(items) + Len(ls) :
               cat[i] = IF i <= Len(items) THEN items[i] ELSE ls[i - Len(items)]
    BY <1>9, LenProperties, ConcatProperties
  <1> HIDE DEF cat
  <1>11. DOMAIN cat = 1 .. Len(items) + Len(ls)
    BY <1>10, LenProperties
  <1>12. \A i \in DOMAIN items : i \in DOMAIN cat /\ cat[i] = items[i]
    BY <1>10, <1>11
  <1>13. \A i \in DOMAIN ls : Len(items) + i \in DOMAIN cat /\ cat[Len(items) + i] = ls[i]
    <2>1. SUFFICES ASSUME NEW i \in DOMAIN ls
                   PROVE  Len(items) + i \in DOMAIN cat /\ cat[Len(items) + i] = ls[i]
      OBVIOUS
    <2>2. /\ Len(items) + i \in 1 .. Len(items) + Len(ls)
          /\ ~ (Len(items) + i <= Len(items)) /\ Len(items) + i - Len(items) = i
      BY <1>10
    <2> QED
      BY <2>2, <1>10, <1>11
  <1>14. \A i \in DOMAIN cat :
            \/ i \in DOMAIN items /\ cat[i] = items[i]
            \/ i > Len(items) /\ i - Len(items) \in DOMAIN ls /\ cat[i] = ls[i - Len(items)]
    BY <1>10, <1>11
  <1>15. {cat[i].of : i \in DOMAIN cat} = due(d + 1)
    <2>1. {cat[i].of : i \in DOMAIN cat} =
             {items[i].of : i \in DOMAIN items} \cup {ls[i].of : i \in DOMAIN ls}
      BY <1>12, <1>13, <1>14
    <2> QED
      BY <2>1, <1>5, <1>7, <1>8
  <1>16. ASSUME NEW i \in DOMAIN cat, NEW j \in DOMAIN cat, i < j
         PROVE  \E k, l \in DOMAIN Included :
                    /\ IsFirst(cat[i].of, k) /\ IsFirst(cat[j].of, l)
                    /\ k < l \/ (k = l /\ Rank[cat[i].of] < Rank[cat[j].of])
    <2>1. CASE j \in DOMAIN items
      <3>1. i \in DOMAIN items
        BY <2>1, <1>10, <1>11, <1>16
      <3> QED
        BY <2>1, <3>1, <1>8, <1>12, <1>16
    <2>2. CASE j \notin DOMAIN items
      <3>1. j > Len(items) /\ j - Len(items) \in DOMAIN ls /\ cat[j] = ls[j - Len(items)]
        BY <2>2, <1>14
      <3>2. cat[j].of \in new
        BY <3>1, <1>7
      <3>3. IsFirst(cat[j].of, d + 1)
        BY <3>2, <1>4 DEF new
      <3>4. CASE i \in DOMAIN items
        <4>1. cat[i].of \in due(d)
          BY <3>4, <1>8, <1>12
        <4>2. PICK k \in 1 .. d : IsFirst(cat[i].of, k)
          BY <4>1, <1>1, FirstExists
        <4>3. k \in DOMAIN Included /\ k < d + 1
          BY <4>2, <1>1
        <4> QED
          BY <3>3, <4>2, <4>3
      <3>5. CASE i \notin DOMAIN items
        <4>1. i > Len(items) /\ i - Len(items) \in DOMAIN ls /\ cat[i] = ls[i - Len(items)]
          BY <3>5, <1>14
        <4>2. cat[i].of \in new
          BY <4>1, <1>7
        <4>3. IsFirst(cat[i].of, d + 1)
          BY <4>2, <1>4 DEF new
        <4>4. i - Len(items) < j - Len(items)
          BY <1>10, <1>11, <1>16
        <4>5. Rank[cat[i].of] < Rank[cat[j].of]
          BY <3>1, <4>1, <4>4, <1>7
        <4> QED
          BY <3>3, <4>3, <4>5
      <3> QED
        BY <3>4, <3>5
    <2> QED
      BY <2>1, <2>2
  <1>17. Sent(cat, format, reach, d + 1)
    BY <1>10, <1>15, <1>16 DEF Sent
  <1> QED
    BY <1>3, <1>6, <1>17 DEF batch, cat

-----------------------------------------------------------------------------
(* A call during which nothing has changed has the meta of the user as he  *)
(* is, and has sent what the groups it is done with give.                  *)
BatchTrue ==
    /\ call.format = "refused" => call.todo = << >> /\ call.items = << >>
    /\ call.format = "json" => call.reach = Reachable
    /\ call.format # "refused" =>
          \E d \in 0 .. Len(Included) :
              /\ Len(call.todo) = Len(Included) - d
              /\ \A k \in 1 .. Len(Included) - d : call.todo[k] = Included[d + k]
              /\ call.seen = {c \in Conns : Covered(c, d)}
              /\ Sent(call.items, call.format, call.reach, d)

SteadyCall ==
    steady /\ call # NoCall =>
        /\ call.user = user
        /\ call.pc \in {"meta", "reach"} => call.seen = {} /\ call.items = << >>
        /\ call.pc = "reach" => call.format = "json" /\ call.todo = Included
        /\ call.pc \in {"reach", "batch"} => MetaTrue(call.meta)
        /\ call.pc = "batch" => BatchTrue

SteadyFeed ==
    steady /\ feed.format # "none" =>
        /\ MetaTrue(feed.meta)
        /\ feed.format = "refused" => feed.items = << >>
        /\ feed.format # "refused" => Sent(feed.items, feed.format, Reachable, Len(Included))

LEMMA NothingSent ==
    ASSUME TypeInv, NEW format, NEW reach
    PROVE  Sent(<< >>, format, reach, 0) /\ {c \in Conns : Covered(c, 0)} = {}
  <1>1. \A c : ~ Covered(c, 0)
    BY DEF Covered
  <1>2. << >> \in Seq({}) /\ DOMAIN << >> = {}
    OBVIOUS
  <1> QED
    BY <1>1, <1>2 DEF Sent

LEMMA StableTerms ==
    ASSUME UNCHANGED <<user, rows, conn>>
    PROVE  /\ Included' = Included /\ Reachable' = Reachable
           /\ \A meta : MetaTrue(meta) => MetaTrue(meta)'
           /\ \A c, d : Covered(c, d)' <=> Covered(c, d)
           /\ \A items, format, reach, d :
                 Sent(items, format, reach, d) => Sent(items, format, reach, d)'
  <1>1. Included' = Included
    BY DEF Included
  <1>2. Reachable' = Reachable
    <2>1. \A n : ActiveIn(n)' = ActiveIn(n)
      BY DEF ActiveIn
    <2> QED
      BY <2>1 DEF Reachable
  <1>3. ASSUME NEW meta, MetaTrue(meta) PROVE MetaTrue(meta)'
    <2>1. /\ \A n : RowsLike(n)' = RowsLike(n)
          /\ \A g, setting : Origin(g, setting)' = Origin(g, setting)
      BY DEF RowsLike, Origin
    <2> QED
      BY <1>1, <1>3, <2>1 DEF MetaTrue
  <1>4. /\ \A c, d : Covered(c, d)' <=> Covered(c, d)
        /\ \A c, i : IsFirst(c, i)' <=> IsFirst(c, i)
    BY <1>1 DEF Covered, IsFirst
  <1>5. \A c, format, reach : Line(c, format, reach)' = Line(c, format, reach)
    BY DEF Line
  <1>6. ASSUME NEW items, NEW format, NEW reach, NEW d, Sent(items, format, reach, d)
        PROVE  Sent(items, format, reach, d)'
    <2>1. {c \in Conns : Covered(c, d) /\ Line(c, format, reach) # << >>}' =
             {c \in Conns : Covered(c, d) /\ Line(c, format, reach) # << >>}
      BY <1>4, <1>5
    <2> QED
      BY <1>1, <1>4, <1>6, <2>1 DEF Sent
  <1> QED
    BY <1>1, <1>2, <1>3, <1>4, <1>6

LEMMA SteadyUnchanged ==
    ASSUME SteadyCall, SteadyFeed, UNCHANGED <<user, rows, conn, call, feed, steady>>
    PROVE  SteadyCall' /\ SteadyFeed'
  <1>1. /\ Included' = Included /\ Reachable' = Reachable
        /\ \A meta : MetaTrue(meta) => MetaTrue(meta)'
        /\ \A c, d : Covered(c, d)' <=> Covered(c, d)
        /\ \A items, format, reach, d :
              Sent(items, format, reach, d) => Sent(items, format, reach, d)'
    BY StableTerms
  <1>2. BatchTrue => BatchTrue'
    <2>1. \A d : {c \in Conns : Covered(c, d)}' = {c \in Conns : Covered(c, d)}
      BY <1>1
    <2> QED
      BY <1>1, <2>1 DEF BatchTrue
  <1>3. SteadyCall'
    BY <1>1, <1>2 DEF SteadyCall
  <1>4. SteadyFeed'
    BY <1>1 DEF SteadyFeed
  <1> QED
    BY <1>3, <1>4

LEMMA SteadyMeta ==
    ASSUME TypeInv, SteadyCall, SteadyFeed, FeedMeta
    PROVE  SteadyCall' /\ SteadyFeed'
  <1>1. PICK meta : /\ meta.announce = MetaFrom(call.user, "announce")
                    /\ meta.interval = MetaFrom(call.user, "interval")
                    /\ call' = [call EXCEPT
                          !.pc = IF @ = "meta" /\ call.format = "json" THEN "reach" ELSE "batch",
                          !.todo = IF call.format = "refused" THEN << >>
                                   ELSE IncludedOf(Effective(call.user)),
                          !.meta = meta]
    <2> DEFINE meta == [title |-> Title(call.user), announce |-> MetaFrom(call.user, "announce"),
                        interval |-> MetaFrom(call.user, "interval"), lists |-> GroupLists(call.user)]
    <2>1. /\ meta.announce = MetaFrom(call.user, "announce")
          /\ meta.interval = MetaFrom(call.user, "interval")
      OBVIOUS
    <2> QED
      BY <2>1 DEF FeedMeta
  <1>2. call.pc = "meta" /\ call # NoCall /\ UNCHANGED <<user, rows, conn, feed, steady>>
    BY DEF FeedMeta, NoCall
  <1>3. SteadyFeed'
    BY <1>2, StableTerms DEF SteadyFeed
  <1>4. SUFFICES ASSUME steady PROVE SteadyCall'
    BY <1>2, <1>3 DEF SteadyCall
  <1>5. call.user = user /\ call.seen = {} /\ call.items = << >>
    BY <1>2, <1>4 DEF SteadyCall
  <1>6. /\ call'.user = user /\ call'.seen = {} /\ call'.items = << >> /\ call'.meta = meta
        /\ call'.format = call.format /\ call.format \in Formats
        /\ call'.pc = IF call.format = "json" THEN "reach" ELSE "batch"
        /\ call'.todo = IF call.format = "refused" THEN << >> ELSE Included
    BY <1>1, <1>2, <1>5 DEF TypeInv, CallOK, Included
  <1>7. MetaTrue(meta)
    BY <1>1, <1>5, MetaOfFirst DEF MetaTrue
  <1>8. Included' = Included /\ MetaTrue(call.meta)'
    BY <1>2, <1>6, <1>7, StableTerms
  <1>9. CASE call.format = "json"
    BY <1>2, <1>6, <1>8, <1>9 DEF SteadyCall
  <1>10. CASE call.format # "json"
    <2>1. call.format # "refused" =>
             /\ Len(call'.todo) = Len(Included) - 0 /\ 0 \in 0 .. Len(Included)
             /\ \A k \in 1 .. Len(Included) - 0 : call'.todo[k] = Included[0 + k]
      BY <1>6, IncludedType
    <2>2. /\ Sent(call.items, call.format, call.reach, 0)'
          /\ call'.seen = {c \in Conns : Covered(c, 0)}'
      <3>1. \A format, reach : Sent(<< >>, format, reach, 0)
        BY NothingSent
      <3>2. \A c : ~ Covered(c, 0)
        BY DEF Covered
      <3> QED
        BY <3>1, <3>2, <1>2, <1>6, StableTerms
    <2>3. BatchTrue'
      BY <1>2, <1>6, <1>8, <1>10, <2>1, <2>2 DEF BatchTrue
    <2> QED
      BY <1>2, <1>6, <1>8, <1>10, <2>3 DEF SteadyCall
  <1> QED
    BY <1>9, <1>10

LEMMA SteadyStart ==
    ASSUME NEW format, FeedStart(format)
    PROVE  SteadyCall' /\ SteadyFeed'
  <1>1. call'.pc = "meta" /\ call'.user = user' /\ call'.seen = {} /\ call'.items = << >>
    BY DEF FeedStart
  <1>2. feed'.format = "none"
    BY DEF FeedStart, NoFeed
  <1> QED
    BY <1>1, <1>2 DEF SteadyCall, SteadyFeed

LEMMA SteadyReach ==
    ASSUME TypeInv, SteadyCall, SteadyFeed, FeedReach
    PROVE  SteadyCall' /\ SteadyFeed'
  <1>1. call.pc = "reach" /\ call # NoCall /\ UNCHANGED <<user, rows, conn, feed, steady>>
    BY DEF FeedReach, NoCall
  <1>2. SteadyFeed'
    BY <1>1, StableTerms DEF SteadyFeed
  <1>3. SUFFICES ASSUME steady PROVE SteadyCall'
    BY <1>1, <1>2 DEF SteadyCall
  <1>4. /\ call.user = user /\ call.seen = {} /\ call.items = << >>
        /\ call.format = "json" /\ call.todo = Included /\ MetaTrue(call.meta)
    BY <1>1, <1>3 DEF SteadyCall
  <1>5. call' = [call EXCEPT !.pc = "batch", !.reach = Reachable]
    BY <1>4 DEF FeedReach, Reachable
  <1>6. /\ call'.user = user /\ call'.seen = {} /\ call'.items = << >>
        /\ call'.format = "json" /\ call'.todo = Included /\ call'.meta = call.meta
        /\ call'.pc = "batch" /\ call'.reach = Reachable
    BY <1>1, <1>4, <1>5 DEF TypeInv, CallOK
  <1>7. Included' = Included /\ Reachable' = Reachable /\ MetaTrue(call.meta)'
    BY <1>1, <1>4, <1>6, StableTerms
  <1>8. /\ Len(call'.todo) = Len(Included) - 0 /\ 0 \in 0 .. Len(Included)
        /\ \A k \in 1 .. Len(Included) - 0 : call'.todo[k] = Included[0 + k]
    BY <1>6, IncludedType
  <1>9. /\ Sent(call.items, call.format, call.reach, 0)'
        /\ call'.seen = {c \in Conns : Covered(c, 0)}'
    <2>1. \A format, reach : Sent(<< >>, format, reach, 0)
      BY NothingSent
    <2>2. \A c : ~ Covered(c, 0)
      BY DEF Covered
    <2> QED
      BY <2>1, <2>2, <1>1, <1>6, StableTerms
  <1>10. BatchTrue'
    BY <1>6, <1>7, <1>8, <1>9 DEF BatchTrue
  <1> QED
    BY <1>1, <1>6, <1>7, <1>10 DEF SteadyCall

LEMMA SteadyBatch ==
    ASSUME TypeInv, SteadyCall, SteadyFeed, FeedBatch
    PROVE  SteadyCall' /\ SteadyFeed'
  <1>1. /\ call.pc = "batch" /\ call # NoCall /\ call.todo # << >>
        /\ UNCHANGED <<user, rows, conn, feed, steady>>
    BY DEF FeedBatch, NoCall
  <1>2. SteadyFeed'
    BY <1>1, StableTerms DEF SteadyFeed
  <1>3. SUFFICES ASSUME steady PROVE SteadyCall'
    BY <1>1, <1>2 DEF SteadyCall
  <1>4. call.user = user /\ MetaTrue(call.meta) /\ BatchTrue
    BY <1>1, <1>3 DEF SteadyCall
  <1>5. call.todo \in Seq(Names)
    BY <1>1 DEF TypeInv, CallOK
  <1>6. call.format # "refused" /\ (call.format = "json" => call.reach = Reachable)
    BY <1>1, <1>4 DEF BatchTrue
  <1>7. PICK d \in 0 .. Len(Included) :
           /\ Len(call.todo) = Len(Included) - d
           /\ \A k \in 1 .. Len(Included) - d : call.todo[k] = Included[d + k]
           /\ call.seen = {c \in Conns : Covered(c, d)}
           /\ Sent(call.items, call.format, call.reach, d)
    BY <1>4, <1>6 DEF BatchTrue
  <1>8. /\ Len(Included) \in Nat /\ DOMAIN Included = 1 .. Len(Included)
    BY IncludedType
  <1>9. /\ d \in Nat /\ d + 1 \in DOMAIN Included /\ d + 1 \in 0 .. Len(Included)
        /\ Head(call.todo) = Included[d + 1]
        /\ Len(Tail(call.todo)) = Len(Included) - (d + 1)
        /\ \A k \in 1 .. Len(Included) - (d + 1) : Tail(call.todo)[k] = Included[d + 1 + k]
    <2>1. PICK n, ns, todo : n = Len(Included) /\ ns = Included /\ todo = call.todo
      OBVIOUS
    <2>2. /\ n \in Nat /\ d \in 0 .. n /\ Len(todo) = n - d
          /\ \A k \in 1 .. n - d : todo[k] = ns[d + k]
      BY <2>1, <1>7, <1>8
    <2>3. todo \in Seq(Names) /\ todo # << >>
      BY <2>1, <1>1, <1>5
    <2>4. d < n
      <3>1. Len(todo) # 0
        BY <2>3, EmptySeq
      <3> QED
        BY <2>2, <3>1
    <2>5. /\ Head(todo) = todo[1] /\ Len(Tail(todo)) = Len(todo) - 1
          /\ \A k \in 1 .. Len(Tail(todo)) : Tail(todo)[k] = todo[k + 1]
      BY <2>3, HeadTailProperties
    <2>6. Head(todo) = ns[d + 1]
      BY <2>2, <2>4, <2>5
    <2>7. ASSUME NEW k \in 1 .. n - (d + 1)
          PROVE  Tail(todo)[k] = ns[d + 1 + k]
      <3>1. /\ k + 1 \in 1 .. n - d /\ d + (k + 1) = d + 1 + k
            /\ k \in 1 .. Len(todo) - 1
        BY <2>2
      <3> QED
        BY <3>1, <2>2, <2>5
    <2>8. /\ d \in Nat /\ d + 1 \in 1 .. n /\ d + 1 \in 0 .. n
          /\ Len(Tail(todo)) = n - (d + 1)
      BY <2>2, <2>4, <2>5
    <2> QED
      BY <2>1, <2>6, <2>7, <2>8, <1>8
  <1>10. PICK batch, items :
            /\ batch = ActiveIn(Included[d + 1]) \ call.seen
            /\ items = call.items \o Lines(batch, call.format, call.reach)
            /\ call' = [call EXCEPT !.todo = Tail(@), !.seen = @ \cup batch, !.items = items]
    BY <1>9 DEF FeedBatch
  <1>11. /\ call'.user = user /\ call'.seen = call.seen \cup batch /\ call'.items = items
         /\ call'.format = call.format /\ call'.todo = Tail(call.todo) /\ call'.meta = call.meta
         /\ call'.pc = "batch" /\ call'.reach = call.reach
    BY <1>1, <1>4, <1>10 DEF TypeInv, CallOK
  <1>12. PICK old, format, reach, seen :
            /\ old = call.items /\ format = call.format /\ reach = call.reach /\ seen = call.seen
    OBVIOUS
  <1>13. /\ seen \cup (ActiveIn(Included[d + 1]) \ seen) = {c \in Conns : Covered(c, d + 1)}
         /\ Sent(old \o Lines(ActiveIn(Included[d + 1]) \ seen, format, reach), format, reach, d + 1)
    <2>1. seen = {c \in Conns : Covered(c, d)} /\ Sent(old, format, reach, d)
      BY <1>7, <1>12
    <2> QED
      BY <2>1, <1>9, SentGrows
  <1>14. /\ call'.seen = {c \in Conns : Covered(c, d + 1)}
         /\ Sent(items, call.format, call.reach, d + 1)
    BY <1>10, <1>11, <1>12, <1>13
  <1>15. /\ Included' = Included /\ Reachable' = Reachable /\ MetaTrue(call.meta)'
         /\ \A c : Covered(c, d + 1)' <=> Covered(c, d + 1)
         /\ Sent(call.items, call.format, call.reach, d + 1)'
    BY <1>1, <1>4, <1>11, <1>14, StableTerms
  <1>16. BatchTrue'
    <2>1. call'.seen = {c \in Conns : Covered(c, d + 1)}'
      BY <1>14, <1>15
    <2> QED
      BY <2>1, <1>6, <1>9, <1>11, <1>15 DEF BatchTrue
  <1> QED
    BY <1>1, <1>11, <1>15, <1>16 DEF SteadyCall

LEMMA SteadySend ==
    ASSUME TypeInv, SteadyCall, SteadyFeed, FeedSend
    PROVE  SteadyCall' /\ SteadyFeed'
  <1>1. /\ call.pc = "batch" /\ call # NoCall /\ call.todo = << >> /\ call' = NoCall
        /\ feed' = [format |-> call.format, meta |-> call.meta, items |-> call.items]
        /\ UNCHANGED <<user, rows, conn, steady>>
    BY DEF FeedSend, NoCall
  <1>2. SteadyCall'
    BY <1>1 DEF SteadyCall
  <1>3. SUFFICES ASSUME steady PROVE SteadyFeed'
    BY <1>1, <1>2 DEF SteadyFeed
  <1>4. call.user = user /\ MetaTrue(call.meta) /\ BatchTrue
    BY <1>1, <1>3 DEF SteadyCall
  <1>5. MetaTrue(feed.meta)'
    BY <1>1, <1>4, StableTerms
  <1>6. call.format = "refused" => call.items = << >>
    BY <1>4 DEF BatchTrue
  <1>7. ASSUME call.format # "refused"
        PROVE  Sent(feed.items, feed.format, Reachable, Len(Included))'
    <2>1. PICK d \in 0 .. Len(Included) :
             /\ Len(call.todo) = Len(Included) - d
             /\ Sent(call.items, call.format, call.reach, d)
      BY <1>4, <1>7 DEF BatchTrue
    <2>2. d = Len(Included)
      BY <2>1, <1>1, IncludedType
    <2>3. Sent(call.items, call.format, Reachable, Len(Included))
      <3>1. CASE call.format = "json"
        BY <3>1, <2>1, <2>2, <1>4 DEF BatchTrue
      <3>2. CASE call.format # "json"
        <4>1. \A c : Line(c, call.format, call.reach) = Line(c, call.format, Reachable)
          BY <3>2 DEF Line
        <4>2. {c \in Conns : Covered(c, d) /\ Line(c, call.format, call.reach) # << >>} =
                 {c \in Conns : Covered(c, d) /\ Line(c, call.format, Reachable) # << >>}
          BY <4>1
        <4> QED
          BY <4>2, <2>1, <2>2 DEF Sent
      <3> QED
        BY <3>1, <3>2
    <2>4. feed'.items = call.items /\ feed'.format = call.format
      BY <1>1
    <2> QED
      BY <2>3, <2>4, <1>1, StableTerms
  <1> QED
    BY <1>1, <1>5, <1>6, <1>7 DEF SteadyFeed

LEMMA StepSteady == TypeInv /\ SteadyCall /\ SteadyFeed /\ [Next]_vars => SteadyCall' /\ SteadyFeed'
  <1> SUFFICES ASSUME TypeInv, SteadyCall, SteadyFeed, [Next]_vars
               PROVE  SteadyCall' /\ SteadyFeed'
    OBVIOUS
  <1>1. CASE UNCHANGED <<user, rows, conn, call, feed, steady>>
    BY <1>1, SteadyUnchanged
  <1>2. CASE steady' = FALSE
    BY <1>2 DEF SteadyCall, SteadyFeed
  <1>3. CASE UNCHANGED vars
    BY <1>1, <1>3 DEF vars
  <1>4. ASSUME NEW local, Edit(local) PROVE SteadyCall' /\ SteadyFeed'
    BY <1>1, <1>4 DEF Edit
  <1>5. ASSUME NEW x, Persist(x) \/ SaveCheck(x) \/ SaveAnswer(x) \/ SaveLost(x)
        PROVE  SteadyCall' /\ SteadyFeed'
    BY <1>1, <1>5 DEF Persist, SaveCheck, SaveAnswer, SaveLost
  <1>6. ASSUME NEW x, SaveWrite(x) PROVE SteadyCall' /\ SteadyFeed'
    BY <1>2, <1>6 DEF SaveWrite
  <1>7. CASE Load
    BY <1>1, <1>7 DEF Load
  <1>8. ASSUME NEW g, SetGroups(g) PROVE SteadyCall' /\ SteadyFeed'
    BY <1>2, <1>8 DEF SetGroups
  <1>9. ASSUME NEW c, NEW r, NEW what, Change(c, r, what) PROVE SteadyCall' /\ SteadyFeed'
    BY <1>2, <1>9 DEF Change
  <1> QED
    BY <1>3, <1>4, <1>5, <1>6, <1>7, <1>8, <1>9, SteadyStart, SteadyMeta, SteadyReach, SteadyBatch,
       SteadySend
       DEF Next, Moved, Toggled, Retag, Toggle, Synchronise, UpdateRawJson

LEMMA InitSteady == Init => SteadyCall /\ SteadyFeed
  BY DEF Init, SteadyCall, SteadyFeed, NoFeed

LEMMA SteadyExact ==
    ASSUME TypeInv, SteadyFeed
    PROVE  SteadyFeedExact
  <1>1. SUFFICES ASSUME feed.format # "none", steady PROVE ExactFeed
    BY DEF SteadyFeedExact
  <1> DEFINE es == Effective(user)
             reach == {c \in UNION {ActiveIn(e.name) : e \in Range(es)} : conn[c].raw # OfBalancer}
             due == IF feed.format = "refused" THEN {}
                    ELSE {c \in Conns : /\ conn[c].active
                                        /\ conn[c].tags \cap Range(Included) # {}
                                        /\ Line(c, feed.format, reach) # << >>}
  <1>2. reach = Reachable
    <2>1. PICK list : list = es
      OBVIOUS
    <2>2. list \in Seq(Entry)
      BY <2>1, EffectiveNames DEF TypeInv
    <2>3. DOMAIN NamesOf(list) = DOMAIN list /\ \A i \in DOMAIN list : NamesOf(list)[i] = list[i].name
      BY <2>2, NamesOfType
    <2>4. UNION {ActiveIn(n) : n \in Range(NamesOf(list))} = UNION {ActiveIn(e.name) : e \in Range(list)}
      BY <2>3 DEF Range
    <2> QED
      BY <2>1, <2>4 DEF Reachable
  <1>3. /\ Included \in Seq(Names) /\ Len(Included) \in Nat /\ DOMAIN Included = 1 .. Len(Included)
    BY IncludedType
  <1>4. \A c : Covered(c, Len(Included)) <=>
                  conn[c].active /\ conn[c].tags \cap Range(Included) # {}
    BY <1>3 DEF Covered, Range
  <1>5. {feed.items[i].of : i \in DOMAIN feed.items} = due
    <2> HIDE DEF reach
    <2>1. CASE feed.format = "refused"
      BY <2>1, <1>1 DEF SteadyFeed
    <2>2. CASE feed.format # "refused"
      <3>1. {feed.items[i].of : i \in DOMAIN feed.items} =
               {c \in Conns : /\ Covered(c, Len(Included))
                              /\ Line(c, feed.format, Reachable) # << >>}
        BY <2>2, <1>1 DEF SteadyFeed, Sent
      <3> QED
        BY <2>2, <3>1, <1>2, <1>4
    <2> QED
      BY <2>1, <2>2
  <1>6. ASSUME NEW i \in DOMAIN feed.items, NEW j \in DOMAIN feed.items, i < j
        PROVE  \/ FirstIn(feed.items[i].of, Included) < FirstIn(feed.items[j].of, Included)
               \/ /\ FirstIn(feed.items[i].of, Included) = FirstIn(feed.items[j].of, Included)
                  /\ Rank[feed.items[i].of] < Rank[feed.items[j].of]
    <2>1. feed.format # "refused"
      BY <1>1, <1>6 DEF SteadyFeed
    <2>2. feed.items[i].of \in Conns /\ feed.items[j].of \in Conns
      <3> HIDE DEF reach
      <3> QED
        BY <2>1, <1>5
    <2>3. PICK k, l \in DOMAIN Included :
             /\ IsFirst(feed.items[i].of, k) /\ IsFirst(feed.items[j].of, l)
             /\ k < l \/ (k = l /\ Rank[feed.items[i].of] < Rank[feed.items[j].of])
      BY <2>1, <1>1, <1>6 DEF SteadyFeed, Sent
    <2>4. FirstIn(feed.items[i].of, Included) = k /\ FirstIn(feed.items[j].of, Included) = l
      BY <2>2, <2>3, FirstInIs
    <2> QED
      BY <2>3, <2>4
  <1>7. MetaTrue(feed.meta)
    BY <1>1 DEF SteadyFeed
  <1> QED
    BY <1>5, <1>6, <1>7 DEF ExactFeed, MetaTrue, Included

(* A feed during which nothing changed has every deliverable active        *)
(* connect of an included group once, of the group the subscriber put      *)
(* first before the others and each group in the operator's order, and the *)
(* announcement and interval of the first included group that exists, for  *)
(* any connects, groups, settings and stored choice.                       *)
THEOREM SteadyFeedExactCorrect == Spec => []SteadyFeedExact
  <1>1. Spec => [](SteadyCall /\ SteadyFeed)
    BY InitSteady, StepSteady, Typed, PTL DEF Spec
  <1> QED
    BY <1>1, SteadyExact, Typed, PTL

-----------------------------------------------------------------------------
(* Forms of one server.  Looking up what is given, and what is laid over   *)
(* something else.                                                         *)
(* Words differ, so the texts of different words do.                       *)
LEMMA Words ==
    /\ Plain("tls") # Empty /\ Plain("none") # Empty /\ Plain("tcp") # Empty
    /\ Plain("tls") # Plain("none") /\ Plain("tls") # Plain("reality")
    /\ Plain("reality") # Empty /\ Plain("reality") # Plain("none")
    /\ Plain("grpc") # Plain("tcp") /\ Plain("grpc") # Empty
  BY DEF Plain, Empty

LEMMA PathWords ==
    ASSUME NEW n, HasPath(n)
    PROVE  n # Plain("grpc") /\ n # Plain("tcp") /\ n # Empty
  <1>1. PICK m \in PathNetworks : n = Plain(m)
    BY DEF HasPath
  <1>2. m # "grpc" /\ m # "tcp" /\ m # ""
    BY DEF PathNetworks
  <1>3. \A w : Plain(m) = Plain(w) => m = w
    BY DEF Plain
  <1> QED
    BY <1>1, <1>2, <1>3 DEF Empty

LEMMA GivenKeys ==
    ASSUME NEW f
    PROVE  /\ DOMAIN Given(f) \subseteq DOMAIN f
           /\ \A k : At(Given(f), k, Empty) = At(f, k, Empty)
  BY DEF At, Given, Restrict

LEMMA OverKeys ==
    ASSUME NEW f, NEW g
    PROVE  /\ DOMAIN Over(f, g) = DOMAIN f \cup DOMAIN g
           /\ \A k : At(Over(f, g), k, Empty) = IF k \in DOMAIN f THEN f[k] ELSE At(g, k, Empty)
  BY DEF At, Over

TransportKeys == {"path", "host", "service", "header"}
SecurityKeys == {"sni", "fp", "alpn", "pbk", "sid", "spx"}

LEMMA TransportOnly ==
    ASSUME NEW u
    PROVE  DOMAIN Transport(u) \subseteq TransportKeys
  <1>1. CASE HasPath(Network(u))
    <2>1. PICK f : /\ f = [path |-> Decode(Query(u, "path")), host |-> Query(u, "host")]
                   /\ Transport(u) = Given(f)
      BY <1>1, PathWords DEF Transport
    <2>2. DOMAIN f = {"path", "host"}
      BY <2>1
    <2> QED
      BY <2>1, <2>2, GivenKeys DEF TransportKeys
  <1>2. CASE ~ HasPath(Network(u)) /\ Network(u) = Plain("grpc")
    <2>1. PICK f : f = [service |-> Query(u, "serviceName")] /\ Transport(u) = Given(f)
      BY <1>2, Words DEF Transport
    <2>2. DOMAIN f = {"service"}
      BY <2>1
    <2> QED
      BY <2>1, <2>2, GivenKeys DEF TransportKeys
  <1>3. CASE ~ HasPath(Network(u)) /\ Network(u) # Plain("grpc") /\ Network(u) = Plain("tcp")
    <2>1. PICK f : /\ f = [header |-> IF Query(u, "headerType") = Plain("none") THEN Empty
                                      ELSE Query(u, "headerType")]
                   /\ Transport(u) = Given(f)
      BY <1>3 DEF Transport
    <2>2. DOMAIN f = {"header"}
      BY <2>1
    <2> QED
      BY <2>1, <2>2, GivenKeys DEF TransportKeys
  <1>4. CASE ~ HasPath(Network(u)) /\ Network(u) # Plain("grpc") /\ Network(u) # Plain("tcp")
    <2>1. Transport(u) = << >>
      BY <1>4 DEF Transport
    <2> QED
      BY <2>1
  <1> QED
    BY <1>1, <1>2, <1>3, <1>4

Security(u) == Or(Query(u, "security"), Plain("none"))

Secured(u) ==
    CASE Security(u) = Plain("tls") -> Tls(u)
      [] Security(u) = Plain("reality") -> Reality(u)
      [] OTHER -> << >>

LEMMA SecuredKeys ==
    ASSUME NEW u
    PROVE  DOMAIN Secured(u) \subseteq SecurityKeys
  <1>1. CASE Security(u) = Plain("tls")
    <2>1. PICK f : /\ f = [sni |-> Or(Query(u, "sni"), Or(Query(u, "peer"), u.host)),
                           fp |-> Query(u, "fp"), alpn |-> Query(u, "alpn")]
                   /\ Tls(u) = Given(f)
      BY DEF Tls
    <2>2. DOMAIN f = {"sni", "fp", "alpn"}
      BY <2>1
    <2>3. Secured(u) = Tls(u)
      BY <1>1, Words DEF Secured
    <2> QED
      BY <2>1, <2>2, <2>3, GivenKeys DEF SecurityKeys
  <1>2. CASE Security(u) = Plain("reality")
    <2>1. PICK f : /\ f = [sni |-> Or(Query(u, "sni"), Query(u, "serverName")),
                           pbk |-> Or(Query(u, "pbk"), Query(u, "publicKey")),
                           fp |-> Query(u, "fp"), sid |-> Query(u, "sid"),
                           spx |-> Query(u, "spx")]
                   /\ Reality(u) = Given(f)
      BY DEF Reality
    <2>2. DOMAIN f = {"sni", "pbk", "fp", "sid", "spx"}
      BY <2>1
    <2>3. Secured(u) = Reality(u)
      BY <1>2, Words DEF Secured
    <2> QED
      BY <2>1, <2>2, <2>3, GivenKeys DEF SecurityKeys
  <1>3. CASE Security(u) # Plain("tls") /\ Security(u) # Plain("reality")
    <2>1. Secured(u) = << >>
      BY <1>3 DEF Secured
    <2> QED
      BY <2>1
  <1> QED
    BY <1>1, <1>2, <1>3

(* What stands where in the stream settings of a URI.                      *)
LEMMA StreamValues ==
    ASSUME NEW u
    PROVE  /\ At(StreamSettings(u), "network", Empty) = Network(u)
           /\ At(StreamSettings(u), "security", Empty) = Security(u)
           /\ \A k \in TransportKeys :
                 At(StreamSettings(u), k, Empty) = At(Transport(u), k, Empty)
           /\ \A k \in SecurityKeys :
                 At(StreamSettings(u), k, Empty) = At(Secured(u), k, Empty)
  <1>1. PICK f : f = [network |-> Network(u), security |-> Security(u)]
    OBVIOUS
  <1>2. /\ DOMAIN f = {"network", "security"}
        /\ f["network"] = Network(u) /\ f["security"] = Security(u)
    BY <1>1
  <1>3. PICK g : g = Over(Transport(u), Secured(u))
    OBVIOUS
  <1>4. StreamSettings(u) = Over(f, g)
    BY <1>1, <1>3 DEF StreamSettings, Secured, Security
  <1>5. \A k : At(Over(f, g), k, Empty) = IF k \in DOMAIN f THEN f[k] ELSE At(g, k, Empty)
    BY OverKeys
  <1>6. \A k : At(g, k, Empty) = IF k \in DOMAIN Transport(u) THEN Transport(u)[k]
                                 ELSE At(Secured(u), k, Empty)
    BY <1>3, OverKeys
  <1>7. \A k \in TransportKeys : At(g, k, Empty) = At(Transport(u), k, Empty)
    BY <1>6, SecuredKeys DEF At, TransportKeys, SecurityKeys
  <1>8. \A k \in SecurityKeys : At(g, k, Empty) = At(Secured(u), k, Empty)
    BY <1>6, TransportOnly DEF At, TransportKeys, SecurityKeys
  <1>9. \A k \in TransportKeys \cup SecurityKeys : k \notin DOMAIN f
    BY <1>2 DEF TransportKeys, SecurityKeys
  <1> QED
    BY <1>2, <1>4, <1>5, <1>7, <1>8, <1>9

LEMMA TlsValues ==
    ASSUME NEW u, Security(u) = Plain("tls")
    PROVE  /\ At(Secured(u), "sni", Empty) = Or(Query(u, "sni"), Or(Query(u, "peer"), u.host))
           /\ At(Secured(u), "fp", Empty) = Query(u, "fp")
           /\ At(Secured(u), "alpn", Empty) = Query(u, "alpn")
  <1>1. PICK f : /\ f = [sni |-> Or(Query(u, "sni"), Or(Query(u, "peer"), u.host)),
                         fp |-> Query(u, "fp"), alpn |-> Query(u, "alpn")]
                 /\ Tls(u) = Given(f)
    BY DEF Tls
  <1>2. Secured(u) = Given(f)
    BY <1>1, Words DEF Secured
  <1>3. \A k : At(Given(f), k, Empty) = At(f, k, Empty)
    BY GivenKeys
  <1> QED
    BY <1>1, <1>2, <1>3 DEF At

LEMMA RealityValues ==
    ASSUME NEW u, Security(u) = Plain("reality")
    PROVE  /\ At(Secured(u), "sni", Empty) = Or(Query(u, "sni"), Query(u, "serverName"))
           /\ At(Secured(u), "pbk", Empty) = Or(Query(u, "pbk"), Query(u, "publicKey"))
           /\ At(Secured(u), "fp", Empty) = Query(u, "fp")
           /\ At(Secured(u), "sid", Empty) = Query(u, "sid")
           /\ At(Secured(u), "spx", Empty) = Query(u, "spx")
  <1>1. PICK f : /\ f = [sni |-> Or(Query(u, "sni"), Query(u, "serverName")),
                         pbk |-> Or(Query(u, "pbk"), Query(u, "publicKey")),
                         fp |-> Query(u, "fp"), sid |-> Query(u, "sid"),
                         spx |-> Query(u, "spx")]
                 /\ Reality(u) = Given(f)
    BY DEF Reality
  <1>2. Secured(u) = Given(f)
    BY <1>1, Words DEF Secured
  <1>3. \A k : At(Given(f), k, Empty) = At(f, k, Empty)
    BY GivenKeys
  <1> QED
    BY <1>1, <1>2, <1>3 DEF At

LEMMA TransportValues ==
    ASSUME NEW u
    PROVE  /\ HasPath(Network(u)) =>
                 /\ At(Transport(u), "path", Empty) = Decode(Query(u, "path"))
                 /\ At(Transport(u), "host", Empty) = Query(u, "host")
           /\ Network(u) = Plain("grpc") =>
                 At(Transport(u), "service", Empty) = Query(u, "serviceName")
           /\ Network(u) = Plain("tcp") =>
                 At(Transport(u), "header", Empty) =
                     IF Query(u, "headerType") = Plain("none") THEN Empty
                     ELSE Query(u, "headerType")
  <1>1. ASSUME HasPath(Network(u))
        PROVE  /\ At(Transport(u), "path", Empty) = Decode(Query(u, "path"))
               /\ At(Transport(u), "host", Empty) = Query(u, "host")
    <2>1. PICK f : /\ f = [path |-> Decode(Query(u, "path")), host |-> Query(u, "host")]
                   /\ Transport(u) = Given(f)
      BY <1>1, PathWords DEF Transport
    <2> QED
      BY <2>1, GivenKeys DEF At
  <1>2. ASSUME Network(u) = Plain("grpc")
        PROVE  At(Transport(u), "service", Empty) = Query(u, "serviceName")
    <2>1. PICK f : f = [service |-> Query(u, "serviceName")] /\ Transport(u) = Given(f)
      BY <1>2, PathWords, Words DEF Transport
    <2> QED
      BY <2>1, GivenKeys DEF At
  <1>3. ASSUME Network(u) = Plain("tcp")
        PROVE  At(Transport(u), "header", Empty) =
                   IF Query(u, "headerType") = Plain("none") THEN Empty
                   ELSE Query(u, "headerType")
    <2>1. PICK f : /\ f = [header |-> IF Query(u, "headerType") = Plain("none") THEN Empty
                                      ELSE Query(u, "headerType")]
                   /\ Transport(u) = Given(f)
      BY <1>3, PathWords, Words DEF Transport
    <2> QED
      BY <2>1, GivenKeys DEF At
  <1> QED
    BY <1>1, <1>2, <1>3

LEMMA MadeReads ==
    ASSUME NEW protocol, protocol # "none", NEW u, NEW port, NEW cred, NEW stream,
           /\ "sni" \in DOMAIN u.query
           /\ At(stream, "security", Empty) = Plain("tls")
           => u.query["sni"] \in {Empty, At(stream, "sni", Empty)}
    PROVE  Reads(u, Made(protocol, u, port, cred, stream))
  <1>1. PICK o : o = [protocol |-> protocol, address |-> u.host, port |-> PortOr(u.port, port),
                      cred |-> Given(cred), stream |-> stream]
    OBVIOUS
  <1>2. /\ o.protocol = protocol /\ o.address = u.host /\ o.port = PortOr(u.port, port)
        /\ o.stream = stream
    BY <1>1
  <1>3. o # NoOutbound
    BY <1>2 DEF NoOutbound
  <1>4. Reads(u, o)
    BY <1>2, <1>3 DEF Reads, PortOr, Stream
  <1> QED
    BY <1>1, <1>4 DEF Made

LEMMA StreamReads ==
    ASSUME NEW u, "sni" \in DOMAIN u.query,
           At(StreamSettings(u), "security", Empty) = Plain("tls")
    PROVE  u.query["sni"] \in {Empty, At(StreamSettings(u), "sni", Empty)}
  <1>1. At(StreamSettings(u), "sni", Empty) = At(Secured(u), "sni", Empty)
    BY StreamValues DEF SecurityKeys
  <1>2. At(Secured(u), "sni", Empty) = Or(Query(u, "sni"), Or(Query(u, "peer"), u.host))
    BY StreamValues, TlsValues
  <1>3. Query(u, "sni") = u.query["sni"]
    BY DEF Query, At
  <1> QED
    BY <1>1, <1>2, <1>3 DEF Or

LEMMA TlsStreamValues ==
    ASSUME NEW network, NEW sni, NEW alpn
    PROVE  /\ At(TlsStream(network, sni, alpn), "network", Empty) = Plain(network)
           /\ At(TlsStream(network, sni, alpn), "security", Empty) = Plain("tls")
           /\ At(TlsStream(network, sni, alpn), "sni", Empty) = sni
           /\ At(TlsStream(network, sni, alpn), "alpn", Empty) = alpn
  <1>1. PICK f : /\ f = [network |-> Plain(network), security |-> Plain("tls"), sni |-> sni,
                         alpn |-> alpn]
                 /\ TlsStream(network, sni, alpn) = Given(f)
    BY DEF TlsStream
  <1>2. \A k : At(Given(f), k, Empty) = At(f, k, Empty)
    BY GivenKeys
  <1> QED
    BY <1>1, <1>2 DEF At

LEMMA TlsStreamReads ==
    ASSUME NEW protocol, protocol # "none", NEW u, NEW port, NEW cred, NEW network,
           NEW sni, NEW alpn, sni = Or(Query(u, "sni"), u.host)
    PROVE  Reads(u, Made(protocol, u, port, cred, TlsStream(network, sni, alpn)))
  <1>1. "sni" \in DOMAIN u.query =>
           u.query["sni"] \in {Empty, At(TlsStream(network, sni, alpn), "sni", Empty)}
    <2>1. At(TlsStream(network, sni, alpn), "sni", Empty) = sni
      BY TlsStreamValues
    <2>2. "sni" \in DOMAIN u.query => Query(u, "sni") = u.query["sni"]
      BY DEF Query, At
    <2> QED
      BY <2>1, <2>2 DEF Or
  <1> QED
    BY <1>1, MadeReads

VmessNetwork(u) == At(u.query, "net", Plain("tcp"))
VmessTls(u) == At(u.query, "tls", Empty)
VmessPath(network) == \E n \in {"ws", "h2", "http"} : network = Plain(n)

VmessTransport(u) ==
    CASE VmessPath(VmessNetwork(u)) ->
            [path |-> At(u.query, "path", Plain("/")), host |-> Query(u, "host")]
      [] VmessNetwork(u) = Plain("grpc") -> [service |-> Query(u, "path")]
      [] OTHER -> << >>

VmessSecurity(u) ==
    IF VmessTls(u) = Plain("tls")
    THEN [sni |-> At(u.query, "sni", At(u.query, "host", u.host)),
          fp |-> Query(u, "fp"), alpn |-> Query(u, "alpn")]
    ELSE << >>

VmessStream(u) ==
    Over([network |-> VmessNetwork(u), security |-> Or(VmessTls(u), Plain("none"))],
         Over(Given(VmessTransport(u)), Given(VmessSecurity(u))))

VmessCred(u) ==
    [id |-> u.user, alterId |-> At(u.query, "aid", Plain("0")),
     scy |-> At(u.query, "scy", At(u.query, "security", Plain("auto")))]

LEMMA VmessMade ==
    ASSUME NEW u
    PROVE  ParseVmess(u) = Made("vmess", u, 443, VmessCred(u), VmessStream(u))
  BY DEF ParseVmess, VmessCred, VmessStream, VmessTransport, VmessSecurity, VmessNetwork,
         VmessTls, VmessPath

LEMMA VmessPathWords ==
    ASSUME NEW n, VmessPath(n)
    PROVE  n # Plain("grpc") /\ n # Empty
  <1>1. PICK m \in {"ws", "h2", "http"} : n = Plain(m)
    BY DEF VmessPath
  <1>2. m # "grpc" /\ m # ""
    OBVIOUS
  <1>3. \A w : Plain(m) = Plain(w) => m = w
    BY DEF Plain
  <1> QED
    BY <1>1, <1>2, <1>3 DEF Empty

LEMMA VmessTransportKeys ==
    ASSUME NEW u
    PROVE  /\ DOMAIN VmessTransport(u) \subseteq {"path", "host", "service"}
           /\ VmessPath(VmessNetwork(u)) =>
                 /\ At(VmessTransport(u), "path", Empty) = At(u.query, "path", Plain("/"))
                 /\ At(VmessTransport(u), "host", Empty) = Query(u, "host")
           /\ VmessNetwork(u) = Plain("grpc") =>
                 At(VmessTransport(u), "service", Empty) = Query(u, "path")
  <1>1. CASE VmessPath(VmessNetwork(u))
    <2>1. PICK f : /\ f = [path |-> At(u.query, "path", Plain("/")), host |-> Query(u, "host")]
                   /\ VmessTransport(u) = f
      BY <1>1, VmessPathWords DEF VmessTransport
    <2>2. DOMAIN f = {"path", "host"}
      BY <2>1
    <2> QED
      BY <1>1, <2>1, <2>2, VmessPathWords DEF At
  <1>2. CASE VmessNetwork(u) = Plain("grpc")
    <2>1. PICK f : f = [service |-> Query(u, "path")] /\ VmessTransport(u) = f
      BY <1>2, VmessPathWords DEF VmessTransport
    <2>2. DOMAIN f = {"service"}
      BY <2>1
    <2> QED
      BY <1>2, <2>1, <2>2, VmessPathWords DEF At
  <1>3. CASE ~ VmessPath(VmessNetwork(u)) /\ VmessNetwork(u) # Plain("grpc")
    <2>1. VmessTransport(u) = << >>
      BY <1>3 DEF VmessTransport
    <2> QED
      BY <1>3, <2>1
  <1> QED
    BY <1>1, <1>2, <1>3

LEMMA VmessSecurityKeys ==
    ASSUME NEW u
    PROVE  /\ DOMAIN VmessSecurity(u) \subseteq {"sni", "fp", "alpn"}
           /\ VmessTls(u) = Plain("tls") =>
                 /\ At(VmessSecurity(u), "sni", Empty) =
                       At(u.query, "sni", At(u.query, "host", u.host))
                 /\ At(VmessSecurity(u), "fp", Empty) = Query(u, "fp")
                 /\ At(VmessSecurity(u), "alpn", Empty) = Query(u, "alpn")
  <1>1. CASE VmessTls(u) = Plain("tls")
    <2>1. PICK f : /\ f = [sni |-> At(u.query, "sni", At(u.query, "host", u.host)),
                           fp |-> Query(u, "fp"), alpn |-> Query(u, "alpn")]
                   /\ VmessSecurity(u) = f
      BY <1>1 DEF VmessSecurity
    <2>2. DOMAIN f = {"sni", "fp", "alpn"}
      BY <2>1
    <2> QED
      BY <2>1, <2>2 DEF At
  <1>2. CASE VmessTls(u) # Plain("tls")
    <2>1. VmessSecurity(u) = << >>
      BY <1>2 DEF VmessSecurity
    <2> QED
      BY <1>2, <2>1
  <1> QED
    BY <1>1, <1>2

LEMMA VmessStreamValues ==
    ASSUME NEW u
    PROVE  /\ At(VmessStream(u), "network", Empty) = VmessNetwork(u)
           /\ At(VmessStream(u), "security", Empty) = Or(VmessTls(u), Plain("none"))
           /\ \A k \in {"path", "host", "service"} :
                 At(VmessStream(u), k, Empty) = At(VmessTransport(u), k, Empty)
           /\ \A k \in {"sni", "fp", "alpn"} :
                 At(VmessStream(u), k, Empty) = At(VmessSecurity(u), k, Empty)
  <1>1. PICK f : f = [network |-> VmessNetwork(u), security |-> Or(VmessTls(u), Plain("none"))]
    OBVIOUS
  <1>2. /\ DOMAIN f = {"network", "security"}
        /\ f["network"] = VmessNetwork(u) /\ f["security"] = Or(VmessTls(u), Plain("none"))
    BY <1>1
  <1>3. PICK t, s : t = Given(VmessTransport(u)) /\ s = Given(VmessSecurity(u))
    OBVIOUS
  <1>4. /\ DOMAIN t \subseteq {"path", "host", "service"}
        /\ DOMAIN s \subseteq {"sni", "fp", "alpn"}
    BY <1>3, GivenKeys, VmessTransportKeys, VmessSecurityKeys
  <1>5. \A k : /\ At(t, k, Empty) = At(VmessTransport(u), k, Empty)
               /\ At(s, k, Empty) = At(VmessSecurity(u), k, Empty)
    BY <1>3, GivenKeys
  <1>6. PICK g : g = Over(t, s)
    OBVIOUS
  <1>7. VmessStream(u) = Over(f, g)
    BY <1>1, <1>3, <1>6 DEF VmessStream
  <1>8. \A k : At(g, k, Empty) = IF k \in DOMAIN t THEN t[k] ELSE At(s, k, Empty)
    BY <1>6, OverKeys
  <1>9. \A k : At(Over(f, g), k, Empty) = IF k \in DOMAIN f THEN f[k] ELSE At(g, k, Empty)
    BY OverKeys
  <1>10. \A k \in {"path", "host", "service"} : At(g, k, Empty) = At(t, k, Empty)
    BY <1>4, <1>8 DEF At
  <1>11. \A k \in {"sni", "fp", "alpn"} : At(g, k, Empty) = At(s, k, Empty)
    BY <1>4, <1>8 DEF At
  <1>12. \A k \in {"path", "host", "service", "sni", "fp", "alpn"} : k \notin DOMAIN f
    BY <1>2
  <1> QED
    BY <1>2, <1>5, <1>7, <1>9, <1>10, <1>11, <1>12

(* A URI whose authority ends where it should is read with the host, the   *)
(* port and the parameters it is written with.                             *)
LEMMA ReadAsWritten ==
    ASSUME NEW u, u.scheme # "vmess" =>
                     ~ NameEnds(u) /\ ~ HostEnds(u) /\ ~ Bare(u.host, Escaped)
    PROVE  /\ AsRead(u).host = u.host /\ AsRead(u).port = u.port
           /\ AsRead(u).query = u.query
  <1>1. CASE u.scheme = "vmess"
    BY <1>1 DEF AsRead
  <1>2. CASE u.scheme # "vmess"
    <2>1. Authority(u) = u
      BY <1>2 DEF Authority
    <2> QED
      BY <1>2, <2>1 DEF AsRead
  <1> QED
    BY <1>1, <1>2

(* Of a URI of a known scheme that can be read comes an outbound that      *)
(* leads where the URI does.                                               *)
LEMMA UriReads ==
    ASSUME NEW u, u.scheme \in Schemes, ~ Broken(u)
    PROVE  Reads(u, UriToOutbound(u))
  <1>0. PICK r : r = AsRead(u)
    OBVIOUS
  <1>1. /\ ~ Unreadable(u)
        /\ r.host = u.host /\ r.port = u.port /\ r.query = u.query
        /\ Query(r, "peer") = Empty
    BY <1>0, ReadAsWritten DEF Broken, Query
  <1> SUFFICES Reads(r, UriToOutbound(u))
    BY <1>1 DEF Reads
  <1>2. CASE u.scheme = "vless"
    <2>1. UriToOutbound(u) = ParseVless(r)
      BY <1>0, <1>1, <1>2 DEF UriToOutbound
    <2> QED
      BY <2>1, MadeReads, StreamReads DEF ParseVless
  <1>3. CASE u.scheme = "vmess"
    <2>1. UriToOutbound(u) = ParseVmess(r)
      BY <1>0, <1>1, <1>3 DEF UriToOutbound
    <2>2. ASSUME "sni" \in DOMAIN r.query,
                 At(VmessStream(r), "security", Empty) = Plain("tls")
          PROVE  r.query["sni"] = At(VmessStream(r), "sni", Empty)
      <3>1. VmessTls(r) = Plain("tls")
        BY <2>2, VmessStreamValues, Words DEF Or
      <3>2. At(VmessSecurity(r), "sni", Empty) = r.query["sni"]
        BY <2>2, <3>1, VmessSecurityKeys DEF At
      <3> QED
        BY <3>2, VmessStreamValues
    <2> QED
      BY <2>1, <2>2, MadeReads, VmessMade
  <1>4. CASE u.scheme = "trojan"
    <2>1. UriToOutbound(u) = ParseTrojan(r)
      BY <1>0, <1>1, <1>4 DEF UriToOutbound
    <2> QED
      BY <2>1, MadeReads, StreamReads DEF ParseTrojan
  <1>5. CASE u.scheme = "ss"
    <2>1. UriToOutbound(u) = ParseShadowsocks(r)
      BY <1>0, <1>1, <1>5 DEF UriToOutbound
    <2>2. PICK cred :
             ParseShadowsocks(r) = Made("shadowsocks", r, 8388, cred, StreamSettings(r))
      BY <1>1 DEF ParseShadowsocks
    <2> QED
      BY <2>1, <2>2, MadeReads, StreamReads
  <1>6. CASE u.scheme = "hysteria"
    <2>1. UriToOutbound(u) = ParseHysteria(r)
      BY <1>0, <1>1, <1>6 DEF UriToOutbound
    <2>2. PICK cred, sni :
             /\ sni = Or(Query(r, "sni"), r.host)
             /\ ParseHysteria(r) = Made("hysteria", r, 443, cred,
                                        TlsStream("hysteria", sni, Plain("h3")))
      BY <1>1 DEF ParseHysteria, Or
    <2>3. Reads(r, Made("hysteria", r, 443, cred, TlsStream("hysteria", sni, Plain("h3"))))
      BY <2>2, TlsStreamReads
    <2> QED
      BY <2>1, <2>2, <2>3
  <1>7. CASE u.scheme \in {"hysteria2", "hy2"}
    <2>1. UriToOutbound(u) = ParseHysteria2(r)
      BY <1>0, <1>1, <1>7 DEF UriToOutbound
    <2>2. PICK cred, sni :
             /\ sni = Or(Query(r, "sni"), r.host)
             /\ ParseHysteria2(r) = Made("hysteria2", r, 443, cred,
                                         TlsStream("hysteria", sni, Plain("h3")))
      BY DEF ParseHysteria2
    <2> QED
      BY <2>1, <2>2, TlsStreamReads
  <1>8. CASE u.scheme = "tuic"
    <2>1. UriToOutbound(u) = ParseTuic(r)
      BY <1>0, <1>1, <1>8 DEF UriToOutbound
    <2>2. PICK cred, sni, alpn :
             /\ sni = Or(Query(r, "sni"), r.host)
             /\ ParseTuic(r) = Made("tuic", r, 443, cred, TlsStream("quic", sni, alpn))
      BY DEF ParseTuic
    <2> QED
      BY <2>1, <2>2, TlsStreamReads
  <1> QED
    BY <1>2, <1>3, <1>4, <1>5, <1>6, <1>7, <1>8 DEF Schemes

(* The outbound the JSON feed takes out of a configuration it wrapped one  *)
(* in is that outbound.                                                    *)
LEMMA HappProxy ==
    ASSUME NEW o
    PROVE  ExtractProxyOutbound(HappConfig(o)) = o
  <1>1. PICK outs : outs = HappConfig(o)
    OBVIOUS
  <1>2. DOMAIN outs = 1 .. 3 /\ outs[1] = [tag |-> "proxy", out |-> o]
    BY <1>1 DEF HappConfig
  <1>3. outs[2].tag = "direct" /\ outs[3].tag = "block" /\ outs[1].tag = "proxy"
    BY <1>1 DEF HappConfig
  <1>4. {i \in DOMAIN outs : outs[i].tag = "proxy"} = {1}
    BY <1>2, <1>3
  <1>5. (CHOOSE i \in {1} : \A j \in {1} : i <= j) = 1
    OBVIOUS
  <1>6. ExtractProxyOutbound(outs) = outs[1].out
    BY <1>4, <1>5 DEF ExtractProxyOutbound
  <1> QED
    BY <1>1, <1>2, <1>6

LEMMA OutboundItem ==
    ASSUME NEW r, NEW o, r.json = [kind |-> "outbound", out |-> o]
    PROVE  Item(r) = <<HappConfig(o)>>
  BY DEF Item

LEMMA ConfigItem ==
    ASSUME NEW r, r.json.kind = "config"
    PROVE  Item(r) = <<r.json.outs>>
  BY DEF Item

-----------------------------------------------------------------------------
(* Where the two forms of a row come from.  A row in BASE64 mode keeps     *)
(* rawJson over a synchronisation only if its URI is the same, and what    *)
(* the operator wrote in it or another mode left there makes it mixed; a   *)
(* row in JSON mode has both from one entry.                               *)
RowTrue(r) ==
    ~ r.mixed =>
        /\ r.mode = "BASE64" => r.json = AsOutbound(UriToOutbound(r.raw))
        /\ (r.mode = "JSON" /\ r.json.kind \in {"config", "outbound"} /\ r.raw # JsonKey) =>
              /\ r.raw # NoUri
              /\ r.raw = OutboundToUri(ExtractProxyOutbound(Item(r)[1]))

RowsTrue == \A c \in Conns : RowTrue(conn[c])

LEMMA EntryTrue ==
    ASSUME NEW s, NEW r, r.raw = RawOf(s), r.json = JsonOf(s), r.mode = Mode(s)
    PROVE  RowTrue(r)
  <1>1. CASE s.kind = "uri"
    BY <1>1 DEF RowTrue, RawOf, JsonOf, Mode
  <1>2. CASE s.kind \in {"item", "link"}
    <2>1. r.json.kind \in {"none", "object"} /\ r.mode = "JSON"
      BY <1>2 DEF JsonOf, Mode, NoJson
    <2> QED
      BY <2>1 DEF RowTrue
  <1>3. CASE s.kind \in {"bare", "config"}
    <2> SUFFICES ASSUME r.json.kind \in {"config", "outbound"}, r.raw # JsonKey
                 PROVE  /\ r.raw # NoUri
                        /\ r.raw = OutboundToUri(ExtractProxyOutbound(Item(r)[1]))
      BY <1>3 DEF RowTrue, Mode
    <2>1. Proxy(s) # NoOutbound /\ r.raw # NoUri /\ r.raw = OutboundToUri(Proxy(s))
      BY <1>3 DEF RawOf
    <2>2. CASE s.kind = "config"
      <3>1. Item(r) = <<s.outs>>
        BY <2>2, ConfigItem DEF JsonOf
      <3> QED
        BY <2>1, <2>2, <3>1 DEF Proxy
    <2>3. CASE s.kind = "bare"
      <3>1. Proxy(s) = s.out
        BY <2>3 DEF Proxy
      <3>2. r.json = [kind |-> "outbound", out |-> s.out]
        BY <2>1, <2>3, <3>1 DEF JsonOf, AsOutbound
      <3>3. Item(r)[1] = HappConfig(s.out)
        BY <3>2, OutboundItem
      <3> QED
        BY <2>1, <3>1, <3>3, HappProxy
    <2> QED
      BY <1>3, <2>2, <2>3
  <1>4. CASE s.kind \notin {"uri", "item", "link", "bare", "config"}
    <2>1. Proxy(s) = NoOutbound
      BY <1>4 DEF Proxy
    <2>2. s.kind # "balancer" => r.raw = JsonKey
      BY <1>4, <2>1 DEF RawOf
    <2>3. r.json = s /\ r.mode = "JSON"
      BY <1>4 DEF JsonOf, Mode
    <2> QED
      BY <1>4, <2>2, <2>3 DEF RowTrue
  <1> QED
    BY <1>1, <1>2, <1>3, <1>4

(* What is said of a row depends on these of its fields.                   *)
LEMMA RowTrueSame ==
    ASSUME NEW q, NEW r, RowTrue(q), r.raw = q.raw, r.json = q.json, r.mode = q.mode,
           r.mixed = q.mixed
    PROVE  RowTrue(r)
  BY DEF RowTrue, Item

LEMMA RowFields ==
    ASSUME NEW q, RowOK(q)
    PROVE  /\ \A tags : LET r == [q EXCEPT !.tags = tags] IN
                 r.raw = q.raw /\ r.json = q.json /\ r.mode = q.mode /\ r.mixed = q.mixed
           /\ LET r == [q EXCEPT !.active = ~ @] IN
                 r.raw = q.raw /\ r.json = q.json /\ r.mode = q.mode /\ r.mixed = q.mixed
           /\ \A json : [q EXCEPT !.json = json, !.mixed = TRUE].mixed = TRUE
           /\ \A mode, raw, json, mixed :
                 LET r == [q EXCEPT !.mode = mode, !.raw = raw, !.json = json, !.mixed = mixed] IN
                 r.raw = raw /\ r.json = json /\ r.mode = mode /\ r.mixed = mixed
  BY DEF RowOK

LEMMA RenewedTrue ==
    ASSUME NEW q, NEW s, RowOK(q), RowTrue(q)
    PROVE  RowTrue(Renewed(q, s))
  <1>1. PICK keeps : keeps = (Mode(s) = "BASE64" /\ q.raw = RawOf(s) /\ q.json # NoJson)
    OBVIOUS
  <1>2. PICK r : r = Renewed(q, s)
    OBVIOUS
  <1>3. r = [q EXCEPT !.mode = Mode(s), !.raw = RawOf(s),
                      !.json = IF keeps THEN q.json ELSE JsonOf(s),
                      !.mixed = keeps /\ (q.mixed \/ q.mode # Mode(s))]
    BY <1>1, <1>2 DEF Renewed
  <1>4. /\ r.mode = Mode(s) /\ r.raw = RawOf(s)
        /\ r.json = (IF keeps THEN q.json ELSE JsonOf(s))
        /\ r.mixed = (keeps /\ (q.mixed \/ q.mode # Mode(s)))
    BY <1>3, RowFields
  <1>5. CASE keeps /\ ~ r.mixed
    <2>1. ~ q.mixed /\ q.mode = "BASE64" /\ r.mode = "BASE64" /\ r.raw = q.raw /\ r.json = q.json
      BY <1>1, <1>4, <1>5
    <2>2. r.json = AsOutbound(UriToOutbound(r.raw))
      BY <2>1 DEF RowTrue
    <2> QED
      BY <1>2, <2>1, <2>2 DEF RowTrue
  <1>6. CASE ~ keeps
    BY <1>2, <1>4, <1>6, EntryTrue
  <1>7. CASE r.mixed
    BY <1>2, <1>7 DEF RowTrue
  <1> QED
    BY <1>5, <1>6, <1>7

LEMMA InitRows == Init => RowsTrue
  <1> SUFFICES ASSUME Init, NEW c \in Conns PROVE RowTrue(conn[c])
    BY DEF RowsTrue
  <1>1. PICK s \in Scenarios : conn = [d \in Conns |-> Created(s.source[d], s.tags[d])]
    BY DEF Init
  <1>2. PICK e, r : e = s.source[c] /\ r = conn[c]
    OBVIOUS
  <1>3. r.raw = RawOf(e) /\ r.json = JsonOf(e) /\ r.mode = Mode(e)
    BY <1>1, <1>2 DEF Created
  <1> QED
    BY <1>2, <1>3, EntryTrue

LEMMA ChangeRows ==
    ASSUME TypeInv, RowsTrue, NEW c \in Conns, NEW r, NEW what, Change(c, r, what), RowTrue(r)
    PROVE  RowsTrue'
  <1>1. conn' = [conn EXCEPT ![c] = r]
    BY DEF Change
  <1> QED
    BY <1>1 DEF TypeInv, ConnOK, RowsTrue

LEMMA StepRows == TypeInv /\ RowsTrue /\ [Next]_vars => RowsTrue'
  <1> SUFFICES ASSUME TypeInv, RowsTrue, [Next]_vars PROVE RowsTrue'
    OBVIOUS
  <1>1. CASE UNCHANGED conn
    BY <1>1 DEF RowsTrue
  <1>2. \A c \in Conns : RowOK(conn[c]) /\ RowTrue(conn[c])
    BY DEF TypeInv, ConnOK, RowsTrue
  <1>3. ASSUME NEW c \in Conns, NEW tags \in SUBSET Names, Retag(c, tags) PROVE RowsTrue'
    <2>1. PICK q, r : /\ q = conn[c] /\ r = [q EXCEPT !.tags = tags]
                      /\ Change(c, r, "moves")
      BY <1>3 DEF Retag
    <2>2. RowOK(q) /\ RowTrue(q)
      BY <1>2, <2>1
    <2>3. r.raw = q.raw /\ r.json = q.json /\ r.mode = q.mode /\ r.mixed = q.mixed
      BY <2>1, <2>2, RowFields
    <2>4. RowTrue(r)
      BY <2>2, <2>3, RowTrueSame
    <2> QED
      BY <2>1, <2>4, ChangeRows
  <1>4. ASSUME NEW c \in Conns, Toggle(c) PROVE RowsTrue'
    <2>1. PICK q, r : /\ q = conn[c] /\ r = [q EXCEPT !.active = ~ @]
                      /\ Change(c, r, "moves")
      BY <1>4 DEF Toggle
    <2>2. RowOK(q) /\ RowTrue(q)
      BY <1>2, <2>1
    <2>3. r.raw = q.raw /\ r.json = q.json /\ r.mode = q.mode /\ r.mixed = q.mixed
      BY <2>1, <2>2, RowFields
    <2>4. RowTrue(r)
      BY <2>2, <2>3, RowTrueSame
    <2> QED
      BY <2>1, <2>4, ChangeRows
  <1>5. ASSUME NEW c \in Conns, NEW s \in Sources, Synchronise(c, s) PROVE RowsTrue'
    <2>1. RowTrue(Renewed(conn[c], s)) /\ Change(c, Renewed(conn[c], s), "entries")
      BY <1>2, <1>5, RenewedTrue DEF Synchronise
    <2> QED
      BY <2>1, ChangeRows
  <1>6. ASSUME NEW c \in Conns, NEW kind \in {"object", "array"}, UpdateRawJson(c, kind)
        PROVE  RowsTrue'
    <2>1. PICK r : /\ r = [conn[c] EXCEPT !.json = [kind |-> kind], !.mixed = TRUE]
                   /\ Change(c, r, "entries")
      BY <1>6 DEF UpdateRawJson
    <2>2. r.mixed = TRUE
      BY <1>2, <2>1, RowFields
    <2>3. RowTrue(r)
      BY <2>2 DEF RowTrue
    <2> QED
      BY <2>1, <2>3, ChangeRows
  <1>7. CASE UNCHANGED vars
    BY <1>1, <1>7 DEF vars
  <1>8. CASE \/ \E f \in Formats : FeedStart(f)
             \/ FeedMeta \/ FeedReach \/ FeedBatch \/ FeedSend
    BY <1>1, <1>8 DEF FeedStart, FeedMeta, FeedReach, FeedBatch, FeedSend
  <1>9. CASE \/ \E i, j \in DOMAIN page.local : Moved(i, j)
             \/ \E i \in DOMAIN page.local : Toggled(i)
             \/ \E x \in Slots : Persist(x)
             \/ Load
             \/ \E g \in Memberships : SetGroups(g)
    BY <1>1, <1>9 DEF Moved, Toggled, Edit, Persist, Load, SetGroups
  <1>10. CASE \E x \in DOMAIN saves : SaveCheck(x) \/ SaveWrite(x) \/ SaveAnswer(x) \/ SaveLost(x)
    BY <1>1, <1>10 DEF SaveCheck, SaveWrite, SaveAnswer, SaveLost
  <1> QED
    BY <1>3, <1>4, <1>5, <1>6, <1>7, <1>8, <1>9, <1>10 DEF Next

LEMMA RowsTyped == Spec => [](TypeInv /\ RowsTrue)
  <1>1. Init => TypeInv /\ RowsTrue
    BY InitType, InitRows
  <1>2. TypeInv /\ RowsTrue /\ [Next]_vars => TypeInv' /\ RowsTrue'
    BY StepType, StepRows
  <1> QED
    BY <1>1, <1>2, PTL DEF Spec

(* Whatever a subscription lists and however rows are synchronised, edited *)
(* and switched between modes, the JSON feed leads where the URI of a row  *)
(* does.                                                                   *)
THEOREM JsonLeadsWhereUriDoesCorrect == Spec => []JsonLeadsWhereUriDoes
  <1>1. RowsTrue => JsonLeadsWhereUriDoes
    <2> SUFFICES ASSUME RowsTrue, NEW c \in Conns,
                        ~ conn[c].mixed, conn[c].mode = "BASE64",
                        conn[c].raw.scheme \in Schemes, ~ Broken(conn[c].raw)
                 PROVE  /\ Item(conn[c]) # << >>
                        /\ Reads(conn[c].raw, ExtractProxyOutbound(Item(conn[c])[1]))
      BY DEF JsonLeadsWhereUriDoes
    <2>1. PICK r, o : r = conn[c] /\ o = UriToOutbound(r.raw)
      OBVIOUS
    <2>2. RowTrue(r)
      BY <2>1 DEF RowsTrue
    <2>3. Reads(r.raw, o) /\ o # NoOutbound
      BY <2>1, UriReads DEF Reads
    <2>4. r.json = [kind |-> "outbound", out |-> o]
      BY <2>1, <2>2, <2>3 DEF RowTrue, AsOutbound
    <2>5. Item(r) = <<HappConfig(o)>>
      BY <2>4, OutboundItem
    <2>6. Item(r) # << >> /\ Item(r)[1] = HappConfig(o)
      BY <2>5
    <2> QED
      BY <2>1, <2>3, <2>6, HappProxy
  <1> QED
    BY <1>1, RowsTyped, PTL

-----------------------------------------------------------------------------
(* The other way.  What stands where in the query of a URI that was made   *)
(* of an outbound.                                                         *)
NetworkOf(o) == Or(Stream(o, "network"), Plain("tcp"))

PathKeys(o) == IF HasPath(NetworkOf(o)) THEN {"path", "host"} ELSE {}

TlsKeys(o) ==
    CASE Stream(o, "security") = Plain("tls") -> {"sni", "fp", "alpn"}
      [] Stream(o, "security") = Plain("reality") -> {"sni", "pbk", "fp", "sid", "spx"}
      [] OTHER -> {}

TransportQuery(o) ==
    CASE NetworkOf(o) = Plain("grpc") -> [serviceName |-> Stream(o, "service")]
      [] NetworkOf(o) = Plain("tcp") ->
            [headerType |-> IF Stream(o, "header") = Plain("none") THEN Empty
                            ELSE Stream(o, "header")]
      [] OTHER -> << >>

SecurityQuery(o) ==
    [security |-> IF Stream(o, "security") = Plain("none") THEN Empty ELSE Stream(o, "security")]

KeysQuery(o) == [k \in PathKeys(o) \cup TlsKeys(o) |-> Stream(o, k)]

LEMMA QueryParts ==
    ASSUME NEW o
    PROVE  StreamToQuery(o) =
              Over([type |-> NetworkOf(o)],
                   Over(Given(SecurityQuery(o)), Over(Given(TransportQuery(o)), Given(KeysQuery(o)))))
  BY DEF StreamToQuery, NetworkOf, PathKeys, TlsKeys, TransportQuery, SecurityQuery, KeysQuery

LEMMA TlsKeysKnown ==
    ASSUME NEW o
    PROVE  /\ TlsKeys(o) \subseteq SecurityKeys
           /\ Stream(o, "security") = Plain("tls") => TlsKeys(o) = {"sni", "fp", "alpn"}
           /\ Stream(o, "security") = Plain("reality") =>
                 TlsKeys(o) = {"sni", "pbk", "fp", "sid", "spx"}
  BY Words DEF TlsKeys, SecurityKeys

LEMMA TransportQueryKeys ==
    ASSUME NEW o
    PROVE  /\ DOMAIN TransportQuery(o) \subseteq {"serviceName", "headerType"}
           /\ NetworkOf(o) = Plain("grpc") =>
                 At(TransportQuery(o), "serviceName", Empty) = Stream(o, "service")
           /\ NetworkOf(o) = Plain("tcp") =>
                 At(TransportQuery(o), "headerType", Empty) =
                     IF Stream(o, "header") = Plain("none") THEN Empty ELSE Stream(o, "header")
  <1>1. CASE NetworkOf(o) = Plain("grpc")
    <2>1. PICK f : f = [serviceName |-> Stream(o, "service")] /\ TransportQuery(o) = f
      BY <1>1, Words DEF TransportQuery
    <2>2. DOMAIN f = {"serviceName"}
      BY <2>1
    <2> QED
      BY <1>1, <2>1, <2>2, Words DEF At
  <1>2. CASE NetworkOf(o) = Plain("tcp")
    <2>1. PICK f : /\ f = [headerType |-> IF Stream(o, "header") = Plain("none") THEN Empty
                                          ELSE Stream(o, "header")]
                   /\ TransportQuery(o) = f
      BY <1>2, Words DEF TransportQuery
    <2>2. DOMAIN f = {"headerType"}
      BY <2>1
    <2> QED
      BY <1>2, <2>1, <2>2, Words DEF At
  <1>3. CASE NetworkOf(o) # Plain("grpc") /\ NetworkOf(o) # Plain("tcp")
    <2>1. TransportQuery(o) = << >>
      BY <1>3 DEF TransportQuery
    <2> QED
      BY <1>3, <2>1
  <1> QED
    BY <1>1, <1>2, <1>3

LEMMA QueryValues ==
    ASSUME NEW o
    PROVE  /\ At(StreamToQuery(o), "type", Empty) = NetworkOf(o)
           /\ At(StreamToQuery(o), "security", Empty) =
                 IF Stream(o, "security") = Plain("none") THEN Empty ELSE Stream(o, "security")
           /\ NetworkOf(o) = Plain("grpc") =>
                 At(StreamToQuery(o), "serviceName", Empty) = Stream(o, "service")
           /\ NetworkOf(o) = Plain("tcp") =>
                 At(StreamToQuery(o), "headerType", Empty) =
                     IF Stream(o, "header") = Plain("none") THEN Empty ELSE Stream(o, "header")
           /\ \A k \in PathKeys(o) \cup TlsKeys(o) :
                 At(StreamToQuery(o), k, Empty) = Stream(o, k)
  <1>1. PICK f, s, t, q : /\ f = [type |-> NetworkOf(o)] /\ s = Given(SecurityQuery(o))
                          /\ t = Given(TransportQuery(o)) /\ q = Given(KeysQuery(o))
    OBVIOUS
  <1>2. PICK a, b : a = Over(t, q) /\ b = Over(s, a)
    OBVIOUS
  <1>3. StreamToQuery(o) = Over(f, b)
    BY <1>1, <1>2, QueryParts
  <1>4. DOMAIN f = {"type"} /\ f["type"] = NetworkOf(o)
    BY <1>1
  <1>5. /\ DOMAIN s \subseteq {"security"}
        /\ At(s, "security", Empty) =
              IF Stream(o, "security") = Plain("none") THEN Empty ELSE Stream(o, "security")
    <2>1. PICK g : /\ g = [security |-> IF Stream(o, "security") = Plain("none") THEN Empty
                                        ELSE Stream(o, "security")]
                   /\ s = Given(g)
      BY <1>1 DEF SecurityQuery
    <2>2. DOMAIN g = {"security"}
      BY <2>1
    <2> QED
      BY <2>1, <2>2, GivenKeys DEF At
  <1>6. /\ DOMAIN t \subseteq {"serviceName", "headerType"}
        /\ \A k : At(t, k, Empty) = At(TransportQuery(o), k, Empty)
    BY <1>1, GivenKeys, TransportQueryKeys
  <1>7. /\ DOMAIN q \subseteq PathKeys(o) \cup TlsKeys(o)
        /\ \A k \in PathKeys(o) \cup TlsKeys(o) : At(q, k, Empty) = Stream(o, k)
    <2>1. PICK g : g = KeysQuery(o) /\ q = Given(g)
      BY <1>1
    <2>2. /\ DOMAIN g = PathKeys(o) \cup TlsKeys(o)
          /\ \A k \in PathKeys(o) \cup TlsKeys(o) : g[k] = Stream(o, k)
      BY <2>1 DEF KeysQuery
    <2> QED
      BY <2>1, <2>2, GivenKeys DEF At
  <1>8. PathKeys(o) \cup TlsKeys(o) \subseteq {"path", "host", "sni", "fp", "alpn", "pbk", "sid", "spx"}
    BY TlsKeysKnown DEF PathKeys, SecurityKeys
  <1>9. \A k : At(a, k, Empty) = IF k \in DOMAIN t THEN t[k] ELSE At(q, k, Empty)
    BY <1>2, OverKeys
  <1>10. \A k : At(b, k, Empty) = IF k \in DOMAIN s THEN s[k] ELSE At(a, k, Empty)
    BY <1>2, OverKeys
  <1>11. \A k : At(StreamToQuery(o), k, Empty) = IF k \in DOMAIN f THEN f[k] ELSE At(b, k, Empty)
    <2>1. PICK c : c = Over(f, b)
      OBVIOUS
    <2>2. \A k : At(c, k, Empty) = IF k \in DOMAIN f THEN f[k] ELSE At(b, k, Empty)
      BY <2>1, OverKeys
    <2> QED
      BY <1>3, <2>1, <2>2
  <1>12. \A k \in {"serviceName", "headerType"} :
            At(StreamToQuery(o), k, Empty) = At(TransportQuery(o), k, Empty)
    <2> SUFFICES ASSUME NEW k \in {"serviceName", "headerType"}
                 PROVE  At(StreamToQuery(o), k, Empty) = At(TransportQuery(o), k, Empty)
      OBVIOUS
    <2>1. k \notin DOMAIN f /\ k \notin DOMAIN s /\ k \notin DOMAIN q
      BY <1>4, <1>5, <1>7, <1>8
    <2>2. At(StreamToQuery(o), k, Empty) = At(a, k, Empty)
      BY <2>1, <1>10, <1>11
    <2> QED
      BY <2>1, <2>2, <1>6, <1>9 DEF At
  <1>13. \A k \in PathKeys(o) \cup TlsKeys(o) : At(StreamToQuery(o), k, Empty) = Stream(o, k)
    <2> SUFFICES ASSUME NEW k \in PathKeys(o) \cup TlsKeys(o)
                 PROVE  At(StreamToQuery(o), k, Empty) = Stream(o, k)
      OBVIOUS
    <2>1. k \notin DOMAIN f /\ k \notin DOMAIN s /\ k \notin DOMAIN t
      BY <1>4, <1>5, <1>6, <1>8
    <2> QED
      BY <2>1, <1>7, <1>9, <1>10, <1>11
  <1>14. At(StreamToQuery(o), "security", Empty) = At(s, "security", Empty)
    <2>1. "security" \notin DOMAIN f /\ "security" \notin DOMAIN t /\ "security" \notin DOMAIN q
      BY <1>4, <1>6, <1>7, <1>8
    <2> QED
      BY <2>1, <1>9, <1>10, <1>11 DEF At
  <1>15. At(StreamToQuery(o), "type", Empty) = NetworkOf(o)
    BY <1>4, <1>11
  <1> QED
    BY <1>5, <1>12, <1>13, <1>14, <1>15, TransportQueryKeys

(* The conditions of Expressible, one by one.                              *)
StreamPlaced(o) ==
    /\ IsFilled(o.stream)
    /\ DOMAIN o.stream \subseteq StreamPlaces(NetworkOf(o), Stream(o, "security"))
    /\ Stream(o, "header") # Plain("none")

(* A key of the stream that is filled is not lost by defaults.             *)
LEMMA Filled ==
    ASSUME NEW f, IsFilled(f), NEW k \in DOMAIN f
    PROVE  At(f, k, Empty) = f[k] /\ f[k] # Empty
  BY DEF IsFilled, At

LEMMA PlacesOf ==
    ASSUME NEW o
    PROVE  StreamPlaces(NetworkOf(o), Stream(o, "security")) =
              {"network", "security"} \cup PathKeys(o) \cup TlsKeys(o)
                 \cup (IF NetworkOf(o) = Plain("grpc") THEN {"service"} ELSE {})
                 \cup (IF NetworkOf(o) = Plain("tcp") THEN {"header"} ELSE {})
  <1>1. StreamPlaces(NetworkOf(o), Stream(o, "security")) =
           {"network", "security"}
              \cup (CASE HasPath(NetworkOf(o)) -> {"path", "host"}
                      [] NetworkOf(o) = Plain("grpc") -> {"service"}
                      [] NetworkOf(o) = Plain("tcp") -> {"header"}
                      [] OTHER -> {})
              \cup TlsKeys(o)
    BY DEF StreamPlaces, TlsKeys
  <1>2. CASE HasPath(NetworkOf(o))
    BY <1>1, <1>2, PathWords DEF PathKeys
  <1>3. CASE NetworkOf(o) = Plain("grpc")
    <2>1. ~ HasPath(NetworkOf(o)) /\ NetworkOf(o) # Plain("tcp")
      BY <1>3, PathWords, Words
    <2> QED
      BY <1>1, <1>3, <2>1 DEF PathKeys
  <1>4. CASE NetworkOf(o) = Plain("tcp")
    <2>1. ~ HasPath(NetworkOf(o)) /\ NetworkOf(o) # Plain("grpc")
      BY <1>4, PathWords, Words
    <2> QED
      BY <1>1, <1>4, <2>1 DEF PathKeys
  <1>5. CASE ~ HasPath(NetworkOf(o)) /\ NetworkOf(o) # Plain("grpc") /\ NetworkOf(o) # Plain("tcp")
    BY <1>1, <1>5 DEF PathKeys
  <1> QED
    BY <1>2, <1>3, <1>4, <1>5

(* What streamToQuery writes buildStreamSettings reads back.               *)
LEMMA StreamBack ==
    ASSUME NEW o, StreamPlaced(o), Stream(o, "path")[2] = 0, ~ Throws(Stream(o, "path")),
           NEW u, \A k : k \notin {"encryption", "flow"} =>
                     Query(u, k) = At(StreamToQuery(o), k, Empty)
    PROVE  /\ \A k \in DOMAIN o.stream : At(StreamSettings(u), k, Empty) = o.stream[k]
           /\ ~ (HasPath(Network(u)) /\ Throws(Query(u, "path")))
  <1>1. NetworkOf(o) # Empty
    BY Words DEF NetworkOf, Or
  <1>2. Network(u) = NetworkOf(o)
    <2>1. Query(u, "type") = NetworkOf(o)
      BY QueryValues
    <2> QED
      BY <1>1, <2>1 DEF Network, Or
  <1>3. Security(u) = Or(Stream(o, "security"), Plain("none"))
    <2>1. Query(u, "security") =
             IF Stream(o, "security") = Plain("none") THEN Empty ELSE Stream(o, "security")
      BY QueryValues
    <2> QED
      BY <2>1, Words DEF Security, Or
  <1>4. HasPath(NetworkOf(o)) =>
           /\ Query(u, "path") = Stream(o, "path") /\ Query(u, "host") = Stream(o, "host")
    BY QueryValues DEF PathKeys
  <1>5. ~ (HasPath(Network(u)) /\ Throws(Query(u, "path")))
    BY <1>2, <1>4
  <1>6. \A k \in TlsKeys(o) : Query(u, k) = Stream(o, k)
    BY QueryValues, TlsKeysKnown DEF SecurityKeys
  <1>7. \A k \in DOMAIN o.stream : Stream(o, k) = o.stream[k] /\ o.stream[k] # Empty
    BY Filled DEF StreamPlaced, Stream
  <1> SUFFICES ASSUME NEW k \in DOMAIN o.stream
               PROVE  At(StreamSettings(u), k, Empty) = Stream(o, k)
    BY <1>5, <1>7
  <1>8. Stream(o, k) # Empty
    BY <1>7
  <1>9. CASE k = "network"
    BY <1>2, <1>8, <1>9, StreamValues DEF NetworkOf, Or
  <1>10. CASE k = "security"
    BY <1>3, <1>8, <1>10, StreamValues DEF Or
  <1>11. CASE k \in PathKeys(o)
    <2>1. HasPath(NetworkOf(o)) /\ k \in {"path", "host"}
      BY <1>11 DEF PathKeys
    <2>2. At(StreamSettings(u), k, Empty) = At(Transport(u), k, Empty)
      BY <2>1, StreamValues DEF TransportKeys
    <2>3. Decode(Stream(o, "path")) = Stream(o, "path")
      BY DEF Decode
    <2> QED
      BY <1>2, <1>4, <2>1, <2>2, <2>3, TransportValues
  <1>12. CASE NetworkOf(o) = Plain("grpc") /\ k = "service"
    <2>1. At(StreamSettings(u), k, Empty) = At(Transport(u), k, Empty)
      BY <1>12, StreamValues DEF TransportKeys
    <2>2. Query(u, "serviceName") = Stream(o, "service")
      BY <1>12, QueryValues
    <2> QED
      BY <1>2, <1>12, <2>1, <2>2, TransportValues
  <1>13. CASE NetworkOf(o) = Plain("tcp") /\ k = "header"
    <2>1. At(StreamSettings(u), k, Empty) = At(Transport(u), k, Empty)
      BY <1>13, StreamValues DEF TransportKeys
    <2>2. Query(u, "headerType") = Stream(o, "header") /\ Stream(o, "header") # Plain("none")
      BY <1>13, QueryValues DEF StreamPlaced
    <2> QED
      BY <1>2, <1>13, <2>1, <2>2, TransportValues
  <1>14. CASE k \in TlsKeys(o)
    <2>1. At(StreamSettings(u), k, Empty) = At(Secured(u), k, Empty)
      BY <1>14, TlsKeysKnown, StreamValues
    <2>2. Query(u, k) = Stream(o, k) /\ Query(u, k) # Empty
      BY <1>6, <1>8, <1>14
    <2>3. CASE Stream(o, "security") = Plain("tls")
      <3>1. Security(u) = Plain("tls")
        BY <1>3, <2>3, Words DEF Or
      <3>2. k \in {"sni", "fp", "alpn"}
        BY <1>14, <2>3, TlsKeysKnown
      <3> QED
        BY <2>1, <2>2, <3>1, <3>2, TlsValues DEF Or
    <2>4. CASE Stream(o, "security") = Plain("reality")
      <3>1. Security(u) = Plain("reality")
        BY <1>3, <2>4, Words DEF Or
      <3>2. k \in {"sni", "pbk", "fp", "sid", "spx"}
        BY <1>14, <2>4, TlsKeysKnown
      <3> QED
        BY <2>1, <2>2, <3>1, <3>2, RealityValues DEF Or
    <2> QED
      BY <1>14, <2>3, <2>4 DEF TlsKeys
  <1> QED
    BY <1>9, <1>10, <1>11, <1>12, <1>13, <1>14, PlacesOf DEF StreamPlaced

(* What UriLeadsWhereJsonDoes asks of the outbound a URI is read back as.  *)
LeadsBack(u, o) ==
    LET back == UriToOutbound(u) IN
    /\ back # NoOutbound
    /\ Protocol(back) = Protocol(o) /\ back.address = o.address
    /\ o.port # NoPort => back.port = o.port
    /\ \A k \in DOMAIN o.cred : Cred(back, k) = o.cred[k]
    /\ \A k \in Carried(o) : Stream(back, k) = o.stream[k]

(* A URI that is read by the parser of its protocol leads back if every    *)
(* key does.                                                               *)
LEMMA MadeBack ==
    ASSUME NEW o, NEW u, NEW port, NEW cred, NEW stream, NEW protocol, protocol # "none",
           UriToOutbound(u) = Made(protocol, u, port, cred, stream),
           u.host = o.address, u.port = PortOr(o.port, port),
           protocol = "hysteria" => At(cred, "version", Empty) # Plain("2"),
           Protocol(o) = protocol,
           \A k \in DOMAIN o.cred : At(cred, k, Empty) = o.cred[k],
           \A k \in Carried(o) : At(stream, k, Empty) = o.stream[k]
    PROVE  LeadsBack(u, o)
  <1>1. PICK back : /\ back = [protocol |-> protocol, address |-> u.host,
                               port |-> PortOr(u.port, port), cred |-> Given(cred),
                               stream |-> stream]
                    /\ back = UriToOutbound(u)
    BY DEF Made
  <1>2. /\ back.protocol = protocol /\ back.address = o.address
        /\ back.port = PortOr(PortOr(o.port, port), port)
        /\ back.cred = Given(cred) /\ back.stream = stream
    BY <1>1
  <1>3. back # NoOutbound
    BY <1>2 DEF NoOutbound
  <1>4. \A k : Cred(back, k) = At(cred, k, Empty)
    BY <1>2, GivenKeys DEF Cred
  <1>5. Protocol(back) = protocol
    BY <1>2, <1>4 DEF Protocol
  <1>6. o.port # NoPort => back.port = o.port
    BY <1>2 DEF PortOr
  <1>7. \A k : Stream(back, k) = At(stream, k, Empty)
    BY <1>2 DEF Stream
  <1> QED
    BY <1>1, <1>2, <1>3, <1>4, <1>5, <1>6, <1>7 DEF LeadsBack

(* Of a URI URL reads as it is written.                                    *)
Stands(t) == ~ Bare(t, Ending \cup Parted \cup Escaped)
HostStands(o) ==
    ~ Bare(o.address, Hostless \cup Ending \cup Escaped) /\ o.port \in 0 .. MaxPort

LEMMA Ports == MaxPort \in Nat /\ 443 \in 1 .. MaxPort /\ 8388 \in 1 .. MaxPort
  BY DEF MaxPort

IsLink(u) ==
    u = [scheme |-> u.scheme, user |-> u.user, pass |-> u.pass, base64 |-> u.base64,
         host |-> u.host, port |-> u.port, query |-> u.query]

LEMMA LinkReads ==
    ASSUME NEW o, NEW u, IsLink(u), HostStands(o), u.host = o.address,
           \E port \in 1 .. MaxPort : u.port = PortOr(o.port, port),
           u.base64 => u.pass[1] \notin Slashed,
           ~ u.base64 => Stands(u.user) /\ Stands(u.pass)
    PROVE  Authority(u) = u /\ AsRead(u) = u /\ ~ Rejected(u)
  <1>1. /\ ~ NameEnds(u) /\ ~ HostEnds(u) /\ ~ Bare(u.host, Hostless) /\ ~ Bare(u.host, Escaped)
        /\ ~ u.base64 => /\ ~ Bare(u.user, Parted) /\ ~ Bare(u.user, Escaped)
                         /\ ~ Bare(u.pass, Ending) /\ ~ Bare(u.pass, Escaped \cup Parted)
    BY DEF NameEnds, HostEnds, HostStands, Stands, Bare
  <1>2. Authority(u) = u
    BY <1>1 DEF Authority
  <1>3. u.port \in 0 .. MaxPort
    BY Ports DEF HostStands, PortOr
  <1>4. ~ (u.port > MaxPort)
    BY <1>3, Ports
  <1>5. ~ Rejected(u)
    BY <1>1, <1>2, <1>4 DEF Rejected
  <1>6. AsRead(u) = u
    <2>1. CASE u.scheme = "vmess"
      BY <2>1 DEF AsRead
    <2>2. CASE u.scheme # "vmess"
      <3>1. AsRead(u) = [scheme |-> u.scheme, base64 |-> u.base64, port |-> u.port,
                         query |-> u.query, host |-> u.host, user |-> u.user, pass |-> u.pass]
        BY <1>1, <1>2, <2>2 DEF AsRead
      <3> QED
        BY <3>1 DEF IsLink
    <2> QED
      BY <2>1, <2>2
  <1> QED
    BY <1>2, <1>5, <1>6

LEMMA EncodeStands ==
    ASSUME NEW t, t = Empty \/ IsText(t)
    PROVE  Stands(Encode(t)) /\ Stands(Empty)
  <1>1. PICK w, n : n \in Nat /\ t = <<w, n>>
    BY DEF IsText, Empty, Plain
  <1>2. Stands(Empty)
    BY TextsAssumption DEF Stands, Bare, Empty, Plain
  <1>3. CASE w \in Special
    <2>1. Encode(t) = <<w, n + 1>> /\ n + 1 # 0
      BY <1>1, <1>3 DEF Encode
    <2> QED
      BY <1>2, <2>1 DEF Stands, Bare
  <1>4. CASE w \notin Special
    BY <1>1, <1>2, <1>4, TextsAssumption DEF Encode, Stands, Bare
  <1> QED
    BY <1>3, <1>4

LEMMA VlessBack ==
    ASSUME NEW o, Protocol(o) = "vless", HostStands(o), Stands(Cred(o, "id")),
           VlessToUri(o) # NoUri, StreamPlaced(o), IsFilled(o.cred),
           DOMAIN o.cred \subseteq {"id", "encryption", "flow"},
           Stream(o, "path")[2] = 0, ~ Throws(Stream(o, "path"))
    PROVE  LeadsBack(VlessToUri(o), o)
  <1>1. PICK g, query, u :
           /\ g = [encryption |-> Or(Cred(o, "encryption"), Plain("none")), flow |-> Cred(o, "flow")]
           /\ query = Over(Given(g), StreamToQuery(o))
           /\ u = Link("vless", Cred(o, "id"), Empty, FALSE, o, 443, query)
           /\ u = VlessToUri(o)
    BY ZenonT(40) DEF VlessToUri
  <1>2. /\ u.scheme = "vless" /\ u.user = Cred(o, "id") /\ u.host = o.address
        /\ u.port = PortOr(o.port, 443) /\ u.query = query
        /\ u.pass = Empty /\ ~ u.base64 /\ IsLink(u)
    BY <1>1 DEF Link, IsLink
  <1>3. DOMAIN g = {"encryption", "flow"}
    BY <1>1
  <1>4. DOMAIN Given(g) \subseteq {"encryption", "flow"} /\ \A k : At(Given(g), k, Empty) = At(g, k, Empty)
    BY <1>3, GivenKeys
  <1>5. \A k : At(query, k, Empty) =
                  IF k \in DOMAIN Given(g) THEN Given(g)[k] ELSE At(StreamToQuery(o), k, Empty)
    BY ZenonT(40), <1>1, OverKeys
  <1>6. \A k : k \notin {"encryption", "flow"} => Query(u, k) = At(StreamToQuery(o), k, Empty)
    BY <1>2, <1>4, <1>5 DEF Query
  <1>7. /\ \A k \in DOMAIN o.stream : At(StreamSettings(u), k, Empty) = o.stream[k]
        /\ ~ (HasPath(Network(u)) /\ Throws(Query(u, "path")))
    BY <1>6, StreamBack
  <1>8. \A k \in DOMAIN o.cred : Cred(o, k) = o.cred[k] /\ o.cred[k] # Empty
    BY Filled DEF Cred
  <1>9. ASSUME NEW k \in {"encryption", "flow"}, k \in DOMAIN o.cred
        PROVE  Query(u, k) = o.cred[k]
    <2>1. g[k] = o.cred[k] /\ g[k] # Empty
      BY <1>1, <1>8, <1>9 DEF Or
    <2>2. At(Given(g), k, Empty) = g[k]
      BY <1>3, <1>4 DEF At
    <2> QED
      BY <1>2, <1>5, <2>1, <2>2 DEF At, Query
  <1>11. PICK cred : /\ cred = [id |-> u.user, encryption |-> Or(Query(u, "encryption"), Plain("none")),
                                flow |-> Query(u, "flow")]
                     /\ UriToOutbound(u) = Made("vless", u, 443, cred, StreamSettings(u))
    <2>1. AsRead(u) = u /\ ~ Rejected(u)
      <3>1. Stands(Empty)
        BY EncodeStands
      <3> QED
        BY <1>2, <3>1, LinkReads, Ports
    <2> QED
      BY <1>2, <1>7, <2>1 DEF UriToOutbound, Unreadable, ParseVless, Schemes
  <1>12. \A k \in DOMAIN o.cred : At(cred, k, Empty) = o.cred[k]
    BY <1>2, <1>8, <1>9, <1>11 DEF At, Or
  <1>13. Carried(o) = DOMAIN o.stream
    BY DEF Carried
  <1>14. LeadsBack(u, o)
    BY <1>2, <1>7, <1>11, <1>12, <1>13, MadeBack
  <1> QED
    BY <1>1, <1>14

LEMMA TextRead ==
    ASSUME NEW t, IsText(t)
    PROVE  Decode(Encode(t)) = t
  <1>1. PICK w, n : n \in Nat /\ t = <<w, n>> /\ (w \in Special \/ n = 0)
    BY DEF IsText
  <1>2. CASE w \in Special
    <2>1. Encode(t) = <<w, n + 1>>
      BY <1>1, <1>2 DEF Encode
    <2> QED
      BY <1>1, <2>1 DEF Decode
  <1>3. CASE w \notin Special
    BY <1>1, <1>3 DEF Encode, Decode
  <1> QED
    BY <1>2, <1>3

LEMMA EncodeReadable ==
    ASSUME NEW t, t = Empty \/ IsText(t)
    PROVE  ~ Throws(Encode(t)) /\ (t # Empty => Encode(t) # Empty)
  <1>1. PICK w, n : n \in Nat /\ t = <<w, n>>
    BY DEF IsText, Empty, Plain
  <1>2. CASE w \in Special
    <2>1. Encode(t) = <<w, n + 1>> /\ n + 1 # 0
      BY <1>1, <1>2 DEF Encode
    <2>2. Encode(t)[2] # 0
      BY <2>1
    <2>3. Empty[2] = 0
      BY DEF Empty, Plain
    <2> QED
      BY <2>2, <2>3 DEF Throws, Bare
  <1>3. CASE w \notin Special
    BY <1>1, <1>3, TextsAssumption DEF Encode, Throws, Bare
  <1> QED
    BY <1>2, <1>3

LEMMA TrojanBack ==
    ASSUME NEW o, Protocol(o) = "trojan", HostStands(o), TrojanToUri(o) # NoUri, StreamPlaced(o), IsFilled(o.cred),
           DOMAIN o.cred \subseteq {"password"},
           Stream(o, "path")[2] = 0, ~ Throws(Stream(o, "path"))
    PROVE  LeadsBack(TrojanToUri(o), o)
  <1>1. PICK u :
           /\ u = Link("trojan", Encode(Cred(o, "password")), Empty, FALSE, o, 443, StreamToQuery(o))
           /\ u = TrojanToUri(o)
    BY DEF TrojanToUri
  <1>2. /\ u.scheme = "trojan" /\ u.user = Encode(Cred(o, "password")) /\ u.host = o.address
        /\ u.port = PortOr(o.port, 443) /\ u.query = StreamToQuery(o)
        /\ u.pass = Empty /\ ~ u.base64 /\ IsLink(u)
    BY <1>1 DEF Link, IsLink
  <1>3. /\ \A k \in DOMAIN o.stream : At(StreamSettings(u), k, Empty) = o.stream[k]
        /\ ~ (HasPath(Network(u)) /\ Throws(Query(u, "path")))
    <2>1. \A k : k \notin {"encryption", "flow"} => Query(u, k) = At(StreamToQuery(o), k, Empty)
      BY <1>2 DEF Query
    <2> QED
      BY <2>1, StreamBack
  <1>4. /\ Cred(o, "password") = Empty \/ IsText(Cred(o, "password"))
        /\ "password" \in DOMAIN o.cred => Cred(o, "password") = o.cred["password"]
    BY DEF Cred, At, IsFilled
  <1>5. ~ Throws(u.user)
    BY <1>2, <1>4, EncodeReadable
  <1>6. PICK cred : /\ cred = [password |-> Decode(u.user)]
                    /\ UriToOutbound(u) = Made("trojan", u, 443, cred, StreamSettings(u))
    <2>1. Authority(u) = u /\ AsRead(u) = u /\ ~ Rejected(u)
      <3>1. Stands(u.user) /\ Stands(u.pass)
        BY <1>2, <1>4, EncodeStands
      <3> QED
        BY <1>2, <3>1, LinkReads, Ports
    <2> QED
      BY <1>2, <1>3, <1>5, <2>1 DEF UriToOutbound, Unreadable, ParseTrojan, Schemes
  <1>7. "password" \in DOMAIN o.cred => Decode(u.user) = o.cred["password"]
    BY <1>2, <1>4, TextRead DEF IsFilled
  <1>8. \A k \in DOMAIN o.cred : At(cred, k, Empty) = o.cred[k]
    BY <1>6, <1>7 DEF At
  <1>9. Carried(o) = DOMAIN o.stream
    BY DEF Carried
  <1>10. LeadsBack(u, o)
    BY <1>2, <1>3, <1>6, <1>8, <1>9, MadeBack
  <1> QED
    BY <1>1, <1>10

(* The body of a vmess link.                                               *)
VmessBody(o) ==
    LET network == NetworkOf(o)
        tls == Stream(o, "security") = Plain("tls")
        OfTls(k) == IF tls THEN Stream(o, k) ELSE Empty
    IN [aid |-> Or(Cred(o, "alterId"), Plain("0")),
        scy |-> Or(Cred(o, "scy"), Plain("auto")),
        net |-> network,
        path |-> IF VmessPath(network) THEN Stream(o, "path")
                 ELSE IF network = Plain("grpc") THEN Stream(o, "service") ELSE Empty,
        host |-> IF VmessPath(network) THEN Stream(o, "host") ELSE Empty,
        tls |-> IF tls THEN Plain("tls") ELSE Empty,
        sni |-> OfTls("sni"), fp |-> OfTls("fp"), alpn |-> OfTls("alpn")]

LEMMA VmessStreamBack ==
    ASSUME NEW o, StreamPlaced(o), "header" \notin DOMAIN o.stream,
           HasPath(NetworkOf(o)) => VmessPath(NetworkOf(o)),
           Stream(o, "security") \in {Empty, Plain("none"), Plain("tls")},
           NEW u, u.query = VmessBody(o)
    PROVE  \A k \in DOMAIN o.stream : At(VmessStream(u), k, Empty) = o.stream[k]
  <1>1. PICK f : f = VmessBody(o) /\ f = u.query
    OBVIOUS
  <1>2. /\ {"net", "tls", "path", "host", "sni", "fp", "alpn"} \subseteq DOMAIN f
        /\ f["net"] = NetworkOf(o)
        /\ f["tls"] = IF Stream(o, "security") = Plain("tls") THEN Plain("tls") ELSE Empty
    BY <1>1 DEF VmessBody
  <1>3. VmessPath(NetworkOf(o)) => f["path"] = Stream(o, "path") /\ f["host"] = Stream(o, "host")
    BY <1>1 DEF VmessBody
  <1>4. NetworkOf(o) = Plain("grpc") => f["path"] = Stream(o, "service")
    BY <1>1, VmessPathWords DEF VmessBody
  <1>5. Stream(o, "security") = Plain("tls") =>
           /\ f["sni"] = Stream(o, "sni") /\ f["fp"] = Stream(o, "fp")
           /\ f["alpn"] = Stream(o, "alpn")
    BY <1>1 DEF VmessBody
  <1>6. VmessNetwork(u) = NetworkOf(o)
    BY <1>1, <1>2 DEF VmessNetwork, At
  <1>7. VmessTls(u) = IF Stream(o, "security") = Plain("tls") THEN Plain("tls") ELSE Empty
    BY <1>1, <1>2 DEF VmessTls, At
  <1>8. \A k \in DOMAIN o.stream : Stream(o, k) = o.stream[k] /\ o.stream[k] # Empty
    BY Filled DEF StreamPlaced, Stream
  <1> SUFFICES ASSUME NEW k \in DOMAIN o.stream
               PROVE  At(VmessStream(u), k, Empty) = Stream(o, k)
    BY <1>8
  <1>9. Stream(o, k) # Empty
    BY <1>8
  <1>10. CASE k = "network"
    BY <1>6, <1>9, <1>10, VmessStreamValues DEF NetworkOf, Or
  <1>11. CASE k = "security"
    BY <1>7, <1>9, <1>11, VmessStreamValues, Words DEF Or
  <1>12. CASE k \in PathKeys(o)
    <2>1. VmessPath(NetworkOf(o)) /\ k \in {"path", "host"}
      BY <1>12 DEF PathKeys
    <2>2. At(VmessStream(u), k, Empty) = At(VmessTransport(u), k, Empty)
      BY <2>1, VmessStreamValues
    <2>3. At(u.query, "path", Plain("/")) = Stream(o, "path") /\ Query(u, "host") = Stream(o, "host")
      BY <1>1, <1>2, <1>3, <2>1 DEF At, Query
    <2> QED
      BY <1>6, <2>1, <2>2, <2>3, VmessTransportKeys
  <1>13. CASE NetworkOf(o) = Plain("grpc") /\ k = "service"
    <2>1. At(VmessStream(u), k, Empty) = At(VmessTransport(u), k, Empty)
      BY <1>13, VmessStreamValues
    <2>2. Query(u, "path") = Stream(o, "service")
      BY <1>1, <1>2, <1>4, <1>13 DEF At, Query
    <2> QED
      BY <1>6, <1>13, <2>1, <2>2, VmessTransportKeys
  <1>14. CASE k \in TlsKeys(o)
    <2>1. Stream(o, "security") = Plain("tls") /\ k \in {"sni", "fp", "alpn"}
      BY <1>14, Words DEF TlsKeys
    <2>2. At(VmessStream(u), k, Empty) = At(VmessSecurity(u), k, Empty)
      BY <2>1, VmessStreamValues
    <2>3. /\ At(u.query, "sni", At(u.query, "host", u.host)) = Stream(o, "sni")
          /\ Query(u, "fp") = Stream(o, "fp") /\ Query(u, "alpn") = Stream(o, "alpn")
      BY <1>1, <1>2, <1>5, <2>1 DEF At, Query
    <2> QED
      BY <1>7, <2>1, <2>2, <2>3, VmessSecurityKeys
  <1> QED
    BY <1>10, <1>11, <1>12, <1>13, <1>14, PlacesOf DEF StreamPlaced

LEMMA VmessBack ==
    ASSUME NEW o, Protocol(o) = "vmess", VmessToUri(o) # NoUri, StreamPlaced(o), IsFilled(o.cred),
           DOMAIN o.cred \subseteq {"id", "alterId", "scy"}, "header" \notin DOMAIN o.stream,
           HasPath(NetworkOf(o)) => VmessPath(NetworkOf(o)),
           Stream(o, "security") \in {Empty, Plain("none"), Plain("tls")}
    PROVE  LeadsBack(VmessToUri(o), o)
  <1>1. PICK u, f :
           /\ u = Link("vmess", Cred(o, "id"), Empty, FALSE, o, 443, f)
           /\ f = VmessBody(o) /\ u = VmessToUri(o)
    <2>1. Cred(o, "id") # Empty
      BY DEF VmessToUri
    <2>2. VmessToUri(o) = Link("vmess", Cred(o, "id"), Empty, FALSE, o, 443, VmessBody(o))
      BY <2>1 DEF VmessToUri, VmessBody, NetworkOf, VmessPath
    <2> QED
      BY <2>2
  <1>2. /\ u.scheme = "vmess" /\ u.user = Cred(o, "id") /\ u.host = o.address
        /\ u.port = PortOr(o.port, 443) /\ u.query = f
    BY <1>1 DEF Link
  <1>3. \A k \in DOMAIN o.stream : At(VmessStream(u), k, Empty) = o.stream[k]
    <2>1. u.query = VmessBody(o)
      BY <1>1, <1>2
    <2> QED
      BY <2>1, VmessStreamBack
  <1>4. UriToOutbound(u) = Made("vmess", u, 443, VmessCred(u), VmessStream(u))
    BY <1>2, VmessMade DEF UriToOutbound, Unreadable, AsRead, Schemes
  <1>5. /\ {"aid", "scy"} \subseteq DOMAIN f
        /\ f["aid"] = Or(Cred(o, "alterId"), Plain("0"))
        /\ f["scy"] = Or(Cred(o, "scy"), Plain("auto"))
    BY <1>1 DEF VmessBody
  <1>6. \A k \in DOMAIN o.cred : Cred(o, k) = o.cred[k] /\ o.cred[k] # Empty
    BY Filled DEF Cred
  <1>7. PICK cred : /\ cred = [id |-> u.user, alterId |-> f["aid"], scy |-> f["scy"]]
                    /\ cred = VmessCred(u)
    BY <1>2, <1>5 DEF VmessCred, At
  <1>8. \A k \in DOMAIN o.cred : At(cred, k, Empty) = o.cred[k]
    BY <1>2, <1>5, <1>6, <1>7 DEF At, Or
  <1>9. Carried(o) = DOMAIN o.stream
    BY DEF Carried
  <1>10. LeadsBack(u, o)
    BY <1>2, <1>3, <1>4, <1>7, <1>8, <1>9, MadeBack
  <1> QED
    BY <1>1, <1>10

LEMMA ShadowsocksBack ==
    ASSUME NEW o, Protocol(o) = "shadowsocks", HostStands(o), SsToUri(o) # NoUri, IsFilled(o.cred),
           DOMAIN o.cred \subseteq {"method", "password"},
           Cred(o, "password")[1] \notin Padded \cup Slashed
    PROVE  LeadsBack(SsToUri(o), o)
  <1>1. PICK u : u = SsToUri(o)
    OBVIOUS
  <1>2. /\ u.scheme = "ss" /\ u.user = Cred(o, "method") /\ u.pass = Cred(o, "password")
        /\ u.base64 = TRUE /\ u.host = o.address /\ u.port = PortOr(o.port, 8388)
        /\ u.query = << >> /\ IsLink(u)
    <2>1. Empty \notin {Cred(o, "method"), Cred(o, "password")}
      <3>1. ASSUME Empty \in {Cred(o, "method"), Cred(o, "password")}
            PROVE  SsToUri(o) = NoUri
        BY <3>1 DEF SsToUri, Link
      <3> QED
        BY <3>1
    <2>2. u = [scheme |-> "ss", user |-> Cred(o, "method"), pass |-> Cred(o, "password"),
               base64 |-> TRUE, host |-> o.address, port |-> PortOr(o.port, 8388),
               query |-> << >>]
      BY <1>1, <2>1 DEF SsToUri, Link
    <2> QED
      BY <2>2 DEF IsLink
  <1>3. ~ HasPath(Network(u))
    <2>1. Query(u, "type") = Empty
      BY <1>2 DEF Query, At
    <2>2. Network(u) = Plain("tcp")
      BY <2>1 DEF Network, Or
    <2> QED
      BY <2>2, PathWords
  <1>4. PICK cred : /\ cred = [method |-> Cred(o, "method"), password |-> Cred(o, "password")]
                    /\ ParseShadowsocks(u) = Made("shadowsocks", u, 8388, cred, StreamSettings(u))
    BY <1>2 DEF ParseShadowsocks
  <1>5. UriToOutbound(u) = Made("shadowsocks", u, 8388, cred, StreamSettings(u))
    <2>1. Authority(u) = u /\ AsRead(u) = u /\ ~ Rejected(u)
      BY <1>2, LinkReads, Ports
    <2> QED
      BY <1>2, <1>3, <1>4, <2>1 DEF UriToOutbound, Unreadable, Schemes
  <1>6. \A k \in DOMAIN o.cred : At(cred, k, Empty) = o.cred[k]
    BY <1>4 DEF At, Cred
  <1>7. Carried(o) = {}
    BY DEF Carried
  <1>8. LeadsBack(u, o)
    BY <1>2, <1>5, <1>6, <1>7, MadeBack
  <1> QED
    BY <1>1, <1>8

(* The stream of the schemes that are always TLS.                          *)
AlwaysTls(o, network) ==
    /\ IsFilled(o.stream)
    /\ DOMAIN o.stream \subseteq {"network", "security", "sni", "alpn"}
    /\ Stream(o, "network") \in {Empty, Plain(network)}
    /\ Stream(o, "security") \in {Empty, Plain("tls")}

LEMMA TlsStreamBack ==
    ASSUME NEW o, NEW network, AlwaysTls(o, network), NEW sni, NEW alpn,
           sni = Or(Stream(o, "sni"), o.address), Stream(o, "alpn") \in {Empty, alpn}
    PROVE  \A k \in DOMAIN o.stream : At(TlsStream(network, sni, alpn), k, Empty) = o.stream[k]
  <1> SUFFICES ASSUME NEW k \in DOMAIN o.stream
               PROVE  At(TlsStream(network, sni, alpn), k, Empty) = o.stream[k]
    OBVIOUS
  <1>1. Stream(o, k) = o.stream[k] /\ o.stream[k] # Empty
    BY Filled DEF AlwaysTls, Stream
  <1>2. k \in {"network", "security", "sni", "alpn"}
    BY DEF AlwaysTls
  <1>3. CASE k = "network"
    BY <1>1, <1>3, TlsStreamValues DEF AlwaysTls
  <1>4. CASE k = "security"
    BY <1>1, <1>4, TlsStreamValues DEF AlwaysTls
  <1>5. CASE k = "sni"
    BY <1>1, <1>5, TlsStreamValues DEF Or
  <1>6. CASE k = "alpn"
    BY <1>1, <1>6, TlsStreamValues
  <1> QED
    BY <1>2, <1>3, <1>4, <1>5, <1>6

LEMMA HysteriaBack ==
    ASSUME NEW o, Protocol(o) = "hysteria", HostStands(o), o.address # Empty, IsFilled(o.cred),
           DOMAIN o.cred \subseteq {"auth", "streamAuth", "up", "down"},
           {"auth", "streamAuth"} \subseteq DOMAIN o.cred => o.cred.auth = o.cred.streamAuth,
           AlwaysTls(o, "hysteria"), Stream(o, "alpn") \in {Empty, Plain("h3")}
    PROVE  LeadsBack(HysteriaToUri(o), o)
  <1>1. PICK given, auth, sni, u :
           /\ auth = At(o.cred, "auth", Cred(o, "streamAuth"))
           /\ sni = Or(Stream(o, "sni"), o.address)
           /\ given = [peer |-> sni, auth |-> auth, upmbps |-> Cred(o, "up"),
                       downmbps |-> Cred(o, "down")]
           /\ u = Link("hysteria", Empty, Empty, FALSE, o, 443, Given(given))
           /\ u = HysteriaToUri(o)
    BY DEF HysteriaToUri
  <1>2. /\ u.scheme = "hysteria" /\ u.user = Empty /\ u.host = o.address
        /\ u.port = PortOr(o.port, 443) /\ u.query = Given(given)
        /\ u.pass = Empty /\ ~ u.base64 /\ IsLink(u)
    BY <1>1 DEF Link, IsLink
  <1>3. /\ Query(u, "peer") = sni /\ Query(u, "auth") = auth
        /\ Query(u, "upmbps") = Cred(o, "up") /\ Query(u, "downmbps") = Cred(o, "down")
    <2>1. \A k : Query(u, k) = At(given, k, Empty)
      BY <1>2, GivenKeys DEF Query
    <2> QED
      BY ZenonT(40), <1>1, <2>1 DEF At
  <1>4. sni # Empty
    BY <1>1 DEF Or
  <1>5. UriToOutbound(u) = ParseHysteria(u)
    <2>1. AsRead(u) = u /\ ~ Rejected(u)
      <3>1. Stands(Empty)
        BY EncodeStands
      <3> QED
        BY <1>2, <3>1, LinkReads, Ports
    <2> QED
      BY <1>2, <2>1 DEF UriToOutbound, Unreadable, Schemes
  <1>6. Or(Query(u, "auth"), u.user) = auth
    BY <1>2, <1>3 DEF Or
  <1>7. PICK cred : /\ cred = [auth |-> auth, streamAuth |-> auth, up |-> Cred(o, "up"),
                               down |-> Cred(o, "down")]
                    /\ UriToOutbound(u) = Made("hysteria", u, 443, cred,
                                               TlsStream("hysteria", sni, Plain("h3")))
    BY <1>3, <1>4, <1>5, <1>6 DEF ParseHysteria, Or
  <1>8. /\ "version" \notin DOMAIN cred
        /\ \A k \in {"auth", "streamAuth"} : At(cred, k, Empty) = auth
        /\ \A k \in {"up", "down"} : At(cred, k, Empty) = Cred(o, k)
    BY <1>7 DEF At
  <1>9. At(cred, "version", Empty) # Plain("2")
    BY <1>8 DEF At, Plain, Empty
  <1>10. \A k \in {"auth", "streamAuth"} \cap DOMAIN o.cred : auth = o.cred[k]
    BY <1>1 DEF At, Cred
  <1>11. \A k \in DOMAIN o.cred : At(cred, k, Empty) = o.cred[k]
    <2> SUFFICES ASSUME NEW k \in DOMAIN o.cred PROVE At(cred, k, Empty) = o.cred[k]
      OBVIOUS
    <2>1. k \in {"auth", "streamAuth", "up", "down"} /\ Cred(o, k) = o.cred[k]
      BY DEF Cred, At
    <2> QED
      BY <1>8, <1>10, <2>1
  <1>12. \A k \in DOMAIN o.stream :
            At(TlsStream("hysteria", sni, Plain("h3")), k, Empty) = o.stream[k]
    BY <1>1, TlsStreamBack
  <1>13. Carried(o) = DOMAIN o.stream
    BY DEF Carried
  <1>14. LeadsBack(u, o)
    BY <1>2, <1>7, <1>9, <1>11, <1>12, <1>13, MadeBack
  <1> QED
    BY <1>1, <1>14

LEMMA Hysteria2Back ==
    ASSUME NEW o, Protocol(o) = "hysteria2", HostStands(o), o.address # Empty, IsFilled(o.cred),
           DOMAIN o.cred \subseteq {"auth", "streamAuth", "version", "obfs", "obfsPassword"},
           {"auth", "streamAuth"} \subseteq DOMAIN o.cred => o.cred.auth = o.cred.streamAuth,
           Cred(o, "version") \in {Empty, Plain("2")},
           AlwaysTls(o, "hysteria"), Stream(o, "alpn") \in {Empty, Plain("h3")}
    PROVE  LeadsBack(Hysteria2ToUri(o), o)
  <1>1. PICK f, g, given, auth, sni, u :
           /\ auth = At(o.cred, "streamAuth", Cred(o, "auth"))
           /\ sni = Or(Stream(o, "sni"), o.address)
           /\ f = [k \in {"obfs-password"} |-> Cred(o, "obfsPassword")]
           /\ g = [sni |-> sni, auth |-> auth, obfs |-> Cred(o, "obfs")]
           /\ given = Over(f, g)
           /\ u = Link("hysteria2", Encode(auth), Empty, FALSE, o, 443, Given(given))
           /\ u = Hysteria2ToUri(o)
    BY ZenonT(40) DEF Hysteria2ToUri
  <1>2. /\ u.scheme = "hysteria2" /\ u.user = Encode(auth) /\ u.pass = Empty /\ u.host = o.address
        /\ u.port = PortOr(o.port, 443) /\ u.query = Given(given)
        /\ ~ u.base64 /\ IsLink(u)
    BY <1>1 DEF Link, IsLink
  <1>3. /\ Query(u, "sni") = sni /\ Query(u, "obfs") = Cred(o, "obfs")
        /\ Query(u, "obfs-password") = Cred(o, "obfsPassword")
    <2>1. \A k : Query(u, k) = At(given, k, Empty)
      BY <1>2, GivenKeys DEF Query
    <2>2. \A k : At(given, k, Empty) = IF k \in DOMAIN f THEN f[k] ELSE At(g, k, Empty)
      <3>1. given = Over(f, g)
        BY <1>1
      <3> QED
        BY <3>1, OverKeys
    <2>3. DOMAIN f = {"obfs-password"} /\ f["obfs-password"] = Cred(o, "obfsPassword")
      BY <1>1
    <2>4. At(g, "sni", Empty) = sni /\ At(g, "obfs", Empty) = Cred(o, "obfs")
      BY <1>1 DEF At
    <2> QED
      BY <2>1, <2>2, <2>3, <2>4
  <1>4. sni # Empty
    BY <1>1 DEF Or
  <1>5. /\ auth = Empty \/ IsText(auth)
        /\ \A k \in {"auth", "streamAuth"} \cap DOMAIN o.cred : auth = o.cred[k] /\ auth # Empty
    BY <1>1 DEF At, Cred, IsFilled
  <1>6. ~ Throws(u.user) /\ (auth # Empty => u.user # Empty /\ Decode(u.user) = auth)
    BY <1>2, <1>5, EncodeReadable, TextRead
  <1>7. ~ Throws(Or(u.user, u.pass))
    BY <1>2, <1>6 DEF Or
  <1>8. UriToOutbound(u) = ParseHysteria2(u)
    <2>1. Authority(u) = u /\ AsRead(u) = u /\ ~ Rejected(u)
      <3>1. Stands(u.user) /\ Stands(u.pass)
        BY <1>2, <1>5, EncodeStands
      <3> QED
        BY <1>2, <3>1, LinkReads, Ports
    <2> QED
      BY <1>2, <1>7, <2>1 DEF UriToOutbound, Unreadable, Schemes
  <1>9. PICK read, cred :
           /\ read = Decode(Or(u.user, u.pass))
           /\ cred = [auth |-> read, streamAuth |-> read, version |-> Plain("2"),
                      obfs |-> Cred(o, "obfs"), obfsPassword |-> Cred(o, "obfsPassword")]
           /\ UriToOutbound(u) = Made("hysteria2", u, 443, cred,
                                      TlsStream("hysteria", sni, Plain("h3")))
    BY <1>3, <1>4, <1>8 DEF ParseHysteria2, Or
  <1>10. auth # Empty => read = auth
    BY <1>6, <1>9 DEF Or
  <1>11. /\ \A k \in {"auth", "streamAuth"} : At(cred, k, Empty) = read
         /\ \A k \in {"obfs", "obfsPassword"} : At(cred, k, Empty) = Cred(o, k)
         /\ At(cred, "version", Empty) = Plain("2")
    BY <1>9 DEF At
  <1>12. \A k \in DOMAIN o.cred : At(cred, k, Empty) = o.cred[k]
    <2> SUFFICES ASSUME NEW k \in DOMAIN o.cred PROVE At(cred, k, Empty) = o.cred[k]
      OBVIOUS
    <2>1. /\ k \in {"auth", "streamAuth", "version", "obfs", "obfsPassword"}
          /\ Cred(o, k) = o.cred[k] /\ o.cred[k] # Empty
      BY Filled DEF Cred
    <2>2. CASE k \in {"auth", "streamAuth"}
      BY <1>5, <1>10, <1>11, <2>2
    <2>3. CASE k = "version"
      BY <1>11, <2>1, <2>3
    <2>4. CASE k \in {"obfs", "obfsPassword"}
      BY <1>11, <2>1, <2>4
    <2> QED
      BY <2>1, <2>2, <2>3, <2>4
  <1>13. \A k \in DOMAIN o.stream :
            At(TlsStream("hysteria", sni, Plain("h3")), k, Empty) = o.stream[k]
    BY <1>1, TlsStreamBack
  <1>14. Carried(o) = DOMAIN o.stream
    BY DEF Carried
  <1>15. LeadsBack(u, o)
    BY <1>2, <1>9, <1>12, <1>13, <1>14, MadeBack
  <1> QED
    BY <1>1, <1>15

LEMMA TuicBack ==
    ASSUME NEW o, Protocol(o) = "tuic", HostStands(o), TuicToUri(o) # NoUri, o.address # Empty, IsFilled(o.cred),
           DOMAIN o.cred \subseteq {"uuid", "password", "congestion"}, AlwaysTls(o, "quic")
    PROVE  LeadsBack(TuicToUri(o), o)
  <1>1. PICK f, sni, alpn, u :
           /\ sni = Or(Stream(o, "sni"), o.address) /\ alpn = Or(Stream(o, "alpn"), Plain("h3"))
           /\ f = [sni |-> sni, alpn |-> alpn,
                   congestion_control |-> Or(Cred(o, "congestion"), Plain("bbr"))]
           /\ u = Link("tuic", Encode(Cred(o, "uuid")), Encode(Cred(o, "password")), FALSE, o, 443, f)
           /\ u = TuicToUri(o)
    BY ZenonT(40) DEF TuicToUri
  <1>2. /\ u.scheme = "tuic" /\ u.user = Encode(Cred(o, "uuid"))
        /\ u.pass = Encode(Cred(o, "password")) /\ u.host = o.address
        /\ u.port = PortOr(o.port, 443) /\ u.query = f
        /\ ~ u.base64 /\ IsLink(u)
    BY <1>1 DEF Link, IsLink
  <1>3. /\ Query(u, "sni") = sni /\ Query(u, "alpn") = alpn
        /\ Query(u, "congestion_control") = Or(Cred(o, "congestion"), Plain("bbr"))
    <2>1. /\ {"sni", "alpn", "congestion_control"} \subseteq DOMAIN f
          /\ f["sni"] = sni /\ f["alpn"] = alpn
          /\ f["congestion_control"] = Or(Cred(o, "congestion"), Plain("bbr"))
      BY <1>1
    <2> QED
      BY <1>2, <2>1 DEF Query, At
  <1>4. sni # Empty /\ alpn # Empty /\ Or(Cred(o, "congestion"), Plain("bbr")) # Empty
    <2>1. Plain("h3") # Empty /\ Plain("bbr") # Empty
      BY DEF Plain, Empty
    <2> QED
      BY ZenonT(40), <1>1, <2>1 DEF Or
  <1>5. \A k : /\ Cred(o, k) = Empty \/ IsText(Cred(o, k))
               /\ k \in DOMAIN o.cred => Cred(o, k) = o.cred[k] /\ IsText(o.cred[k])
    BY DEF Cred, At, IsFilled
  <1>6. ~ Throws(u.user) /\ ~ Throws(u.pass)
    BY <1>2, <1>5, EncodeReadable
  <1>7. UriToOutbound(u) = ParseTuic(u)
    <2>1. Authority(u) = u /\ AsRead(u) = u /\ ~ Rejected(u)
      <3>1. Stands(u.user) /\ Stands(u.pass)
        BY <1>2, <1>5, EncodeStands
      <3> QED
        BY <1>2, <3>1, LinkReads, Ports
    <2> QED
      BY <1>2, <1>6, <2>1 DEF UriToOutbound, Unreadable, Schemes
  <1>8. PICK cred :
           /\ cred = [uuid |-> Decode(u.user), password |-> Decode(u.pass),
                      congestion |-> Or(Cred(o, "congestion"), Plain("bbr"))]
           /\ UriToOutbound(u) = Made("tuic", u, 443, cred, TlsStream("quic", sni, alpn))
    BY <1>3, <1>4, <1>7 DEF ParseTuic, Or
  <1>9. \A k \in DOMAIN o.cred : At(cred, k, Empty) = o.cred[k]
    <2> SUFFICES ASSUME NEW k \in DOMAIN o.cred PROVE At(cred, k, Empty) = o.cred[k]
      OBVIOUS
    <2>1. /\ k \in {"uuid", "password", "congestion"}
          /\ Cred(o, k) = o.cred[k] /\ o.cred[k] # Empty
      BY Filled DEF Cred
    <2>2. CASE k = "uuid"
      <3>1. Decode(u.user) = o.cred[k]
        BY <1>2, <1>5, <2>2, TextRead
      <3> QED
        BY <1>8, <2>2, <3>1 DEF At
    <2>3. CASE k = "password"
      <3>1. Decode(u.pass) = o.cred[k]
        BY <1>2, <1>5, <2>3, TextRead
      <3> QED
        BY <1>8, <2>3, <3>1 DEF At
    <2>4. CASE k = "congestion"
      BY <1>8, <2>1, <2>4 DEF At, Or
    <2> QED
      BY <2>1, <2>2, <2>3, <2>4
  <1>10. Stream(o, "alpn") \in {Empty, alpn}
    BY <1>1 DEF Or
  <1>11. \A k \in DOMAIN o.stream : At(TlsStream("quic", sni, alpn), k, Empty) = o.stream[k]
    BY <1>1, <1>10, TlsStreamBack
  <1>12. Carried(o) = DOMAIN o.stream
    BY DEF Carried
  <1>13. LeadsBack(u, o)
    BY <1>2, <1>8, <1>9, <1>11, <1>12, MadeBack
  <1> QED
    BY <1>1, <1>13

(* What Expressible asks of the stream, by protocol.                       *)
LEMMA ExpressibleStream ==
    ASSUME NEW o, Expressible(o)
    PROVE  /\ IsFilled(o.cred) /\ DOMAIN o.cred \subseteq CredPlaces[Protocol(o)]
           /\ {"auth", "streamAuth"} \subseteq DOMAIN o.cred => o.cred.auth = o.cred.streamAuth
           /\ Protocol(o) = "hysteria2" => Cred(o, "version") \in {Empty, Plain("2")}
           /\ Protocol(o) \in {"vless", "trojan"} => StreamPlaced(o)
           /\ Protocol(o) = "vmess" =>
                 /\ StreamPlaced(o) /\ "header" \notin DOMAIN o.stream
                 /\ HasPath(NetworkOf(o)) => VmessPath(NetworkOf(o))
                 /\ Stream(o, "security") \in {Empty, Plain("none"), Plain("tls")}
           /\ Protocol(o) = "tuic" => AlwaysTls(o, "quic")
           /\ Protocol(o) \in {"hysteria", "hysteria2"} =>
                 AlwaysTls(o, "hysteria") /\ Stream(o, "alpn") \in {Empty, Plain("h3")}
  <1>1. PICK p, places : p = Protocol(o) /\ places = StreamPlaces(NetworkOf(o), Stream(o, "security"))
    OBVIOUS
  <1>2. /\ IsFilled(o.cred) /\ IsFilled(o.stream) /\ DOMAIN o.cred \subseteq CredPlaces[p]
        /\ {"auth", "streamAuth"} \subseteq DOMAIN o.cred => o.cred.auth = o.cred.streamAuth
        /\ p = "hysteria2" => Cred(o, "version") \in {Empty, Plain("2")}
    BY <1>1 DEF Expressible
  <1>3. p \in {"vless", "trojan"} =>
           DOMAIN o.stream \subseteq places /\ Stream(o, "header") # Plain("none")
    BY <1>1 DEF Expressible, NetworkOf
  <1>4. p = "vmess" =>
           /\ DOMAIN o.stream \subseteq places /\ "header" \notin DOMAIN o.stream
           /\ HasPath(NetworkOf(o)) => VmessPath(NetworkOf(o))
           /\ Stream(o, "security") \in {Empty, Plain("none"), Plain("tls")}
    BY <1>1 DEF Expressible, NetworkOf, VmessPath
  <1>5. p \in {"hysteria", "hysteria2", "tuic"} =>
           /\ DOMAIN o.stream \subseteq {"network", "security", "sni", "alpn"}
           /\ Stream(o, "network") \in {Empty, Plain(IF p = "tuic" THEN "quic" ELSE "hysteria")}
           /\ Stream(o, "security") \in {Empty, Plain("tls")}
           /\ p = "tuic" \/ Stream(o, "alpn") \in {Empty, Plain("h3")}
    BY <1>1 DEF Expressible
  <1>6. "header" \notin DOMAIN o.stream => Stream(o, "header") # Plain("none")
    BY Words DEF Stream, At
  <1>7. p \in {"vless", "trojan", "vmess"} => StreamPlaced(o)
    BY <1>1, <1>2, <1>3, <1>4, <1>6 DEF StreamPlaced
  <1>8. p = "tuic" => AlwaysTls(o, "quic")
    BY <1>2, <1>5 DEF AlwaysTls
  <1>9. p \in {"hysteria", "hysteria2"} =>
           AlwaysTls(o, "hysteria") /\ Stream(o, "alpn") \in {Empty, Plain("h3")}
    BY <1>2, <1>5 DEF AlwaysTls
  <1> QED
    BY <1>1, <1>2, <1>4, <1>7, <1>8, <1>9

(* Every outbound its URI has places for is read back whole.               *)
LEMMA OutboundBack ==
    ASSUME NEW o, OutboundToUri(o) # NoUri, Expressible(o), Portable(o)
    PROVE  LeadsBack(OutboundToUri(o), o)
  <1>1. o.address # Empty
    BY DEF OutboundToUri
  <1>2. /\ Protocol(o) # "vmess" => HostStands(o)
        /\ Protocol(o) # "shadowsocks" /\ Protocol(o) # "vmess" =>
              Stream(o, "path")[2] = 0 /\ ~ Throws(Stream(o, "path"))
        /\ Protocol(o) = "vless" => Stands(Cred(o, "id"))
    BY DEF Portable, HostStands, Stands
  <1>3. CASE Protocol(o) = "vless"
    <2>1. OutboundToUri(o) = VlessToUri(o)
      BY <1>1, <1>3 DEF OutboundToUri
    <2>2. CredPlaces[Protocol(o)] = {"id", "encryption", "flow"}
      BY <1>3 DEF CredPlaces
    <2> QED
      BY <1>2, <1>3, <2>1, <2>2, ExpressibleStream, VlessBack
  <1>4. CASE Protocol(o) = "vmess"
    <2>1. OutboundToUri(o) = VmessToUri(o)
      BY <1>1, <1>4 DEF OutboundToUri
    <2>2. CredPlaces[Protocol(o)] = {"id", "alterId", "scy"}
      BY <1>4 DEF CredPlaces
    <2> QED
      BY <1>4, <2>1, <2>2, ExpressibleStream, VmessBack
  <1>5. CASE Protocol(o) = "trojan"
    <2>1. OutboundToUri(o) = TrojanToUri(o)
      BY <1>1, <1>5 DEF OutboundToUri
    <2>2. CredPlaces[Protocol(o)] = {"password"}
      BY <1>5 DEF CredPlaces
    <2> QED
      BY <1>2, <1>5, <2>1, <2>2, ExpressibleStream, TrojanBack
  <1>6. CASE Protocol(o) = "shadowsocks"
    <2>1. OutboundToUri(o) = SsToUri(o)
      BY <1>1, <1>6 DEF OutboundToUri
    <2>2. CredPlaces[Protocol(o)] = {"method", "password"}
      BY <1>6 DEF CredPlaces
    <2>3. Cred(o, "password")[1] \notin Padded \cup Slashed
      BY <1>6 DEF Portable
    <2> QED
      BY <1>2, <1>6, <2>1, <2>2, <2>3, ExpressibleStream, ShadowsocksBack
  <1>7. CASE Protocol(o) = "hysteria"
    <2>1. OutboundToUri(o) = HysteriaToUri(o)
      BY <1>1, <1>7 DEF OutboundToUri
    <2>2. CredPlaces[Protocol(o)] = {"auth", "streamAuth", "up", "down"}
      BY <1>7 DEF CredPlaces
    <2> QED
      BY <1>1, <1>2, <1>7, <2>1, <2>2, ExpressibleStream, HysteriaBack
  <1>8. CASE Protocol(o) = "hysteria2"
    <2>1. OutboundToUri(o) = Hysteria2ToUri(o)
      BY <1>1, <1>8 DEF OutboundToUri
    <2>2. CredPlaces[Protocol(o)] = {"auth", "streamAuth", "version", "obfs", "obfsPassword"}
      BY <1>8 DEF CredPlaces
    <2> QED
      BY <1>1, <1>2, <1>8, <2>1, <2>2, ExpressibleStream, Hysteria2Back
  <1>9. CASE Protocol(o) = "tuic"
    <2>1. OutboundToUri(o) = TuicToUri(o)
      BY <1>1, <1>9 DEF OutboundToUri
    <2>2. CredPlaces[Protocol(o)] = {"uuid", "password", "congestion"}
      BY <1>9 DEF CredPlaces
    <2> QED
      BY <1>1, <1>2, <1>9, <2>1, <2>2, ExpressibleStream, TuicBack
  <1>10. Protocol(o) \in {"vless", "vmess", "trojan", "shadowsocks", "hysteria", "hysteria2", "tuic"}
    BY <1>1 DEF OutboundToUri
  <1> QED
    BY <1>3, <1>4, <1>5, <1>6, <1>7, <1>8, <1>9, <1>10

(* And whatever configurations a subscription lists, the URI a row has     *)
(* beside one leads where the configuration does, for everything the URI   *)
(* has a place for.                                                        *)
THEOREM UriLeadsWhereJsonDoesCorrect == Spec => []UriLeadsWhereJsonDoes
  <1>1. RowsTrue => UriLeadsWhereJsonDoes
    <2> SUFFICES ASSUME RowsTrue, NEW c \in Conns,
                        ~ conn[c].mixed, conn[c].mode = "JSON",
                        conn[c].json.kind \in {"config", "outbound"}, conn[c].raw # JsonKey,
                        Expressible(ExtractProxyOutbound(Item(conn[c])[1])),
                        Portable(ExtractProxyOutbound(Item(conn[c])[1]))
                 PROVE  LeadsBack(conn[c].raw, ExtractProxyOutbound(Item(conn[c])[1]))
      BY DEF UriLeadsWhereJsonDoes, LeadsBack
    <2>1. PICK o, raw : o = ExtractProxyOutbound(Item(conn[c])[1]) /\ raw = conn[c].raw
      OBVIOUS
    <2>2. raw # NoUri /\ raw = OutboundToUri(o)
      BY <2>1 DEF RowsTrue, RowTrue
    <2> QED
      BY <2>1, <2>2, OutboundBack
  <1> QED
    BY <1>1, RowsTyped, PTL
===============================================================================
