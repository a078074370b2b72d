------------------------- MODULE ConnectBoard_proofs -------------------------
(***************************************************************************)
(* Proofs about the board of connects, which keeps a copy of what the      *)
(* server holds on every page that is open: types, that a page shows its   *)
(* own changes, and that a gesture made alone ends in what it showed.      *)
(* What is known of lists comes from PublicFeed_proofs.                    *)
(***************************************************************************)
EXTENDS PublicFeed_proofs, ConnectBoard

-----------------------------------------------------------------------------
(* The page of connects (ConnectBoard) has lists of the same kind.         *)

(* Lists one after another: the cards of the columns, from left to right.  *)
Places(lists) == UNION {{<<k, i>> : i \in DOMAIN lists[k]} : k \in DOMAIN lists}

Earlier(y, x) == y[1] < x[1] \/ (y[1] = x[1] /\ y[2] < x[2])

JoinedBy(lists, at) ==
    LET n == Cardinality(Places(lists)) IN
    /\ n \in Nat /\ at \in [1 .. n -> Places(lists)]
    /\ \A i, j \in 1 .. n : i < j => Earlier(at[i], at[j])
    /\ \A x \in Places(lists) : \E i \in 1 .. n : at[i] = x
    /\ Joined(lists) = [i \in 1 .. n |-> lists[at[i][1]][at[i][2]]]

LEMMA PlacesAreFinite ==
    ASSUME NEW E, NEW m \in Nat, NEW lists \in [1 .. m -> Seq(E)]
    PROVE  IsFiniteSet(Places(lists))
  <1> DEFINE Row(k) == {<<k, i>> : i \in DOMAIN lists[k]}
             Upto(l) == {x \in Places(lists) : x[1] <= l}
             T == {l \in 0 .. m : ~ IsFiniteSet(Upto(l))}
  <1>1. \A x \in Places(lists) : x[1] \in 1 .. m /\ x \in Row(x[1])
    BY DEF Places
  <1>2. ASSUME NEW k \in 1 .. m PROVE IsFiniteSet(Row(k)) /\ Row(k) \subseteq Places(lists)
    <2>1. IsFiniteSet(DOMAIN lists[k])
      BY PlacesFinite, LenProperties
    <2> DEFINE f == [i \in DOMAIN lists[k] |-> <<k, i>>]
    <2>2. f \in Surjection(DOMAIN lists[k], Row(k))
      BY DEF Surjection
    <2> HIDE DEF f
    <2>3. IsFiniteSet(Row(k))
      <3> HIDE DEF Row
      <3> QED
        BY <2>1, <2>2, FS_Surjection
    <2> QED
      BY <2>3 DEF Places
  <1>3. T = {}
    <2>1. SUFFICES ASSUME T # {} PROVE FALSE
      OBVIOUS
    <2>2. PICK l \in T : \A k \in T : l <= k
      <3>1. T \subseteq Nat
        OBVIOUS
      <3> HIDE DEF T
      <3> QED
        BY <2>1, <3>1, Least
    <2>3. l \in 0 .. m /\ ~ IsFiniteSet(Upto(l)) /\ \A k \in 0 .. m : k < l => IsFiniteSet(Upto(k))
      <3> HIDE DEF Upto
      <3>1. \A k \in 0 .. m : k < l => k \notin T
        BY <2>2
      <3> QED
        BY <2>2, <3>1
    <2>4. l # 0
      <3>1. ASSUME l = 0 PROVE FALSE
        <4>1. Upto(0) = {}
          BY <1>1
        <4> QED
          BY <4>1, <3>1, <2>3, FS_EmptySet
      <3> QED
        BY <3>1
    <2>5. IsFiniteSet(Upto(l - 1)) /\ l \in 1 .. m
      <3> HIDE DEF Upto
      <3> QED
        BY <2>3, <2>4
    <2>6. Upto(l) = Upto(l - 1) \cup Row(l)
      <3>1. \A x \in Places(lists) : x[1] <= l <=> x[1] <= l - 1 \/ x[1] = l
        BY <1>1, <2>5
      <3>2. \A x \in Row(l) : x[1] = l /\ x \in Places(lists)
        <4>1. \A x \in Row(l) : x[1] = l
          OBVIOUS
        <4>2. Row(l) \subseteq Places(lists)
          <5> HIDE DEF Row
          <5> QED
            BY <1>2, <2>5
        <4> HIDE DEF Row
        <4> QED
          BY <4>1, <4>2
      <3> HIDE DEF Row
      <3> QED
        BY <3>1, <3>2, <1>1
    <2>7. IsFiniteSet(Row(l))
      <3> HIDE DEF Row
      <3> QED
        BY <1>2, <2>5
    <2> HIDE DEF Upto, Row
    <2>8. IsFiniteSet(Upto(l - 1) \cup Row(l))
      BY <2>5, <2>7, FS_Union
    <2> QED
      BY <2>3, <2>6, <2>8
  <1>4. IsFiniteSet(Upto(m))
    BY SMTT(40), <1>3
  <1>5. Upto(m) = Places(lists)
    BY <1>1
  <1> QED
    BY <1>4, <1>5

LEMMA JoinedPlaces ==
    ASSUME NEW E, NEW m \in Nat, NEW lists \in [1 .. m -> Seq(E)]
    PROVE  /\ \E at : JoinedBy(lists, at)
           /\ Joined(lists) \in Seq(E)
           /\ Range(Joined(lists)) = UNION {Range(lists[k]) : k \in 1 .. m}
  <1> DEFINE P == Places(lists)
             n == Cardinality(P)
             ahead == [x \in P |-> {y \in P : Earlier(y, x)}]
             at == Sorted(P, ahead)
  <1>1. \A x \in P : x[1] \in 1 .. m /\ x[2] \in DOMAIN lists[x[1]] /\ x = <<x[1], x[2]>>
    BY DEF Places
  <1>2. \A k \in 1 .. m : DOMAIN lists[k] \subseteq Nat /\ \A i \in DOMAIN lists[k] : lists[k][i] \in E
    BY LenProperties
  <1>3. \A k \in 1 .. m : \A i \in DOMAIN lists[k] : <<k, i>> \in P
    BY DEF Places
  <1>4. IsFiniteSet(P)
    BY PlacesAreFinite
  <1>5. Joined(lists) = [i \in DOMAIN at |-> lists[at[i][1]][at[i][2]]]
    BY DEF Joined, Places, Earlier
  <1> HIDE DEF P
  <1>6. \A x, y \in P : x # y => Earlier(x, y) \/ Earlier(y, x)
    BY <1>1, <1>2 DEF Earlier
  <1>7. /\ \A x \in P : ~ Earlier(x, x)
        /\ \A x, y, z \in P : Earlier(z, y) /\ Earlier(y, x) => Earlier(z, x)
    BY <1>1, <1>2 DEF Earlier
  <1>8. Orders(P, ahead)
    BY <1>4, <1>6, <1>7 DEF Orders
  <1>9. \A x, y \in P : y \in ahead[x] <=> Earlier(y, x)
    OBVIOUS
  <1> HIDE DEF ahead
  <1>10. /\ n \in Nat /\ at \in [1 .. n -> P]
         /\ \A x \in P : \E i \in DOMAIN at : at[i] = x
         /\ \A i, j \in DOMAIN at : i < j => at[i] \in ahead[at[j]]
    BY <1>8, SortedProperties
  <1> HIDE DEF at
  <1>11. JoinedBy(lists, at)
    BY <1>5, <1>9, <1>10 DEF JoinedBy, P
  <1>12. Joined(lists) \in [1 .. n -> E]
    BY <1>1, <1>2, <1>5, <1>10
  <1>13. Joined(lists) \in Seq(E)
    <2>1. \E l \in Nat : Joined(lists) \in [1 .. l -> E]
      BY <1>10, <1>12
    <2> HIDE DEF n
    <2> QED
      BY <2>1, SeqDef
  <1>14. Range(Joined(lists)) = UNION {Range(lists[k]) : k \in 1 .. m}
    <2>1. DOMAIN Joined(lists) = 1 .. n
      BY <1>12
    <2>2. \A x \in P : lists[x[1]][x[2]] \in Range(lists[x[1]])
      BY <1>1 DEF Range
    <2>3. ASSUME NEW i \in 1 .. n PROVE \E k \in 1 .. m : Joined(lists)[i] \in Range(lists[k])
      BY <1>1, <1>5, <1>10, <2>2
    <2>4. ASSUME NEW k \in 1 .. m, NEW c \in Range(lists[k])
          PROVE  \E i \in 1 .. n : Joined(lists)[i] = c
      <3>1. PICK i \in DOMAIN lists[k] : lists[k][i] = c
        BY <2>4 DEF Range
      <3>2. PICK j \in 1 .. n : at[j] = <<k, i>>
        BY <3>1, <1>3, <1>10
      <3>3. Joined(lists)[j] = lists[at[j][1]][at[j][2]]
        BY <3>2, <1>5, <1>10
      <3> QED
        BY <3>1, <3>2, <3>3
    <2>5. Range(Joined(lists)) = {Joined(lists)[i] : i \in 1 .. n}
      BY <2>1 DEF Range
    <2> HIDE DEF n
    <2> QED
      BY <2>3, <2>4, <2>5
  <1> QED
    BY <1>11, <1>13, <1>14

-----------------------------------------------------------------------------
(* What the board holds.                                                   *)
Table(r) == DOMAIN r \subseteq Connects /\ r \in [DOMAIN r -> Rows]

GroupRecord == [main: BOOLEAN, order: Nat, born: Nat]

GroupTable(gs) ==
    /\ DOMAIN gs \subseteq GroupNames /\ gs \in [DOMAIN gs -> GroupRecord]
    /\ \A m, n \in DOMAIN gs : gs[m].born = gs[n].born => m = n
    /\ Ungrouped \in DOMAIN gs /\ ~ gs[Ungrouped].main

Shown(gs) == {n \in DOMAIN gs : gs[n].main \/ n = Ungrouped}

Columns(gs, cols) == DOMAIN cols = Shown(gs) /\ cols \in [Shown(gs) -> Seq(Connects)]

Shapes ==
    /\ Connects \subseteq Nat /\ IsFiniteSet(Connects)
    /\ Ungrouped \in GroupNames /\ IsFiniteSet(GroupNames)
    /\ SubTitle \in [Connects -> Nat] /\ Labels \subseteq Nat

LEMMA ShapesGiven == Shapes
  BY BoardAssumption DEF BoardAssumption, Shapes

(* The columns are the main groups and the one for the rest, each once.    *)
LEMMA KeysProperties ==
    ASSUME Shapes, NEW pg, GroupTable(pg.groups)
    PROVE  LET ks == Keys(pg) IN
           /\ ks \in Seq(Shown(pg.groups)) /\ ks \in Seq(GroupNames)
           /\ Range(ks) = Shown(pg.groups) /\ Range(ks) = Shown(pg.groups)
           /\ \A i, j \in DOMAIN ks : ks[i] = ks[j] => i = j
  <1> DEFINE gs == pg.groups
             S == Shown(gs)
             ahead == [n \in S |-> {m \in S : \/ gs[m].order < gs[n].order
                                              \/ gs[m].order = gs[n].order /\ gs[m].born < gs[n].born}]
             ks == Sorted(S, ahead)
  <1>1. Keys(pg) = ks
    <2>1. Ungrouped \in DOMAIN gs
      BY DEF GroupTable
    <2> QED
      BY <2>1 DEF Keys, Shown
  <1>2. S \subseteq GroupNames /\ IsFiniteSet(S)
    BY FS_Subset DEF Shown, GroupTable, Shapes
  <1>3. Orders(S, ahead)
    <2>1. \A n \in S : gs[n].order \in Nat /\ gs[n].born \in Nat
      BY DEF Shown, GroupTable, GroupRecord
    <2>2. \A m, n \in S : m # n => gs[m].born # gs[n].born
      BY DEF Shown, GroupTable
    <2> HIDE DEF S, gs
    <2>3. \A n \in S : ahead[n] \subseteq S /\ n \notin ahead[n]
      BY <2>1
    <2>4. \A m, n \in S : m # n => m \in ahead[n] \/ n \in ahead[m]
      BY <2>1, <2>2
    <2>5. \A m, n \in S : n \in ahead[m] => ahead[n] \subseteq ahead[m]
      BY <2>1
    <2> HIDE DEF ahead
    <2> QED
      BY <1>2, <2>3, <2>4, <2>5 DEF Orders
  <1> HIDE DEF S, ahead
  <1>4. /\ Cardinality(S) \in Nat /\ ks \in [1 .. Cardinality(S) -> S]
        /\ \A i, j \in DOMAIN ks : i # j => ks[i] # ks[j]
        /\ \A x \in S : \E i \in DOMAIN ks : ks[i] = x
    BY <1>3, SortedProperties
  <1> HIDE DEF ks
  <1>5. ks \in Seq(S) /\ ks \in Seq(GroupNames) /\ Range(ks) = S
    <2>1. \E l \in Nat : ks \in [1 .. l -> S] /\ ks \in [1 .. l -> GroupNames]
      BY <1>2, <1>4
    <2>2. ks \in Seq(S) /\ ks \in Seq(GroupNames)
      BY <2>1, SeqDef
    <2> QED
      BY <2>2, <1>4 DEF Range
  <1> QED
    BY <1>1, <1>4, <1>5 DEF S

(* Connects of a table by order, each once.                                *)
LEMMA ByOrderProperties ==
    ASSUME Shapes, NEW tbl, Table(tbl), NEW ids \in SUBSET DOMAIN tbl
    PROVE  LET s == ByOrder(tbl, ids)
               ahead == [b \in ids |-> {a \in ids : \/ tbl[a].order < tbl[b].order
                                                    \/ tbl[a].order = tbl[b].order /\ a > b}]
           IN
           /\ Orders(ids, ahead) /\ s = Sorted(ids, ahead)
           /\ s \in Seq(ids) /\ s \in Seq(Connects) /\ Range(s) = ids
           /\ \A i, j \in DOMAIN s : s[i] = s[j] => i = j
  <1> DEFINE ahead == [b \in ids |-> {a \in ids : \/ tbl[a].order < tbl[b].order
                                                  \/ tbl[a].order = tbl[b].order /\ a > b}]
             s == Sorted(ids, ahead)
  <1>1. ByOrder(tbl, ids) = s
    BY DEF ByOrder
  <1>2. ids \subseteq Connects /\ IsFiniteSet(ids)
    <2>1. ids \subseteq Connects
      BY DEF Table
    <2> QED
      BY <2>1, FS_Subset DEF Shapes
  <1>3. Orders(ids, ahead)
    <2>1. \A c \in ids : c \in Nat /\ tbl[c].order \in Nat
      BY <1>2 DEF Table, Shapes, Rows
    <2>3. \A n \in ids : ahead[n] \subseteq ids /\ n \notin ahead[n]
      BY <2>1
    <2>4. \A m, n \in ids : m # n => m \in ahead[n] \/ n \in ahead[m]
      BY <2>1
    <2>5. \A m, n \in ids : n \in ahead[m] => ahead[n] \subseteq ahead[m]
      BY <2>1
    <2> HIDE DEF ahead
    <2> QED
      BY <1>2, <2>3, <2>4, <2>5 DEF Orders
  <1>4. /\ Cardinality(ids) \in Nat /\ s \in [1 .. Cardinality(ids) -> ids]
        /\ \A i, j \in DOMAIN s : i # j => s[i] # s[j]
        /\ \A x \in ids : \E i \in DOMAIN s : s[i] = x
    <2> HIDE DEF ahead
    <2> QED
      BY <1>3, SortedProperties
  <1>5. s \in Seq(ids) /\ s \in Seq(Connects) /\ Range(s) = ids
    <2> HIDE DEF s
    <2>1. \E l \in Nat : s \in [1 .. l -> ids] /\ s \in [1 .. l -> Connects]
      BY <1>2, <1>4
    <2>2. s \in Seq(ids) /\ s \in Seq(Connects)
      BY <2>1, SeqDef
    <2> QED
      BY <2>2, <1>4 DEF Range
  <1> HIDE DEF s, ahead
  <1>6. \A i, j \in DOMAIN s : s[i] = s[j] => i = j
    BY <1>4
  <1>7. s = Sorted(ids, ahead)
    BY DEF s
  <1> QED
    BY <1>1, <1>3, <1>5, <1>6, <1>7 DEF ahead

(* A sort mode is a stable sort: it orders the places of a list.           *)
SortPlaces(pg, ids, mode) ==
    [j \in DOMAIN ids |-> {i \in DOMAIN ids :
        \/ Precedes(pg, mode, ids[i], ids[j])
        \/ ~ Precedes(pg, mode, ids[j], ids[i]) /\ i < j}]

LEMMA PrecedesOrder ==
    ASSUME Shapes, NEW pg, Table(pg.rows), NEW mode \in Modes,
           NEW c \in DOMAIN pg.rows, NEW d \in DOMAIN pg.rows, NEW e \in DOMAIN pg.rows
    PROVE  /\ Precedes(pg, mode, c, d) \in BOOLEAN
           /\ ~ Precedes(pg, mode, c, c)
           /\ ~ (Precedes(pg, mode, c, d) /\ Precedes(pg, mode, d, c))
           /\ Precedes(pg, mode, c, d) => Precedes(pg, mode, c, e) \/ Precedes(pg, mode, e, d)
  <1> DEFINE name(x) == pg.rows[x].name
             sub(x) == SubTitle[x]
  <1>1. /\ name(c) \in Nat /\ name(d) \in Nat /\ name(e) \in Nat
        /\ sub(c) \in Nat /\ sub(d) \in Nat /\ sub(e) \in Nat
    BY DEF Table, Shapes, Rows
  <1>2. CASE mode = "panel"
    BY <1>2 DEF Precedes
  <1>3. CASE mode = "name_az"
    BY <1>1, <1>3 DEF Precedes
  <1>4. CASE mode = "name_za"
    BY <1>1, <1>4 DEF Precedes
  <1>5. CASE mode = "subscription_az"
    BY <1>1, <1>5 DEF Precedes
  <1>6. CASE mode = "subscription_za"
    BY <1>1, <1>6 DEF Precedes
  <1> QED
    BY <1>2, <1>3, <1>4, <1>5, <1>6 DEF Modes

LEMMA ArrangedProperties ==
    ASSUME Shapes, NEW pg, Table(pg.rows), NEW mode \in Modes, NEW ids \in Seq(DOMAIN pg.rows)
    PROVE  LET at == Sorted(DOMAIN ids, SortPlaces(pg, ids, mode)) IN
           /\ Orders(DOMAIN ids, SortPlaces(pg, ids, mode))
           /\ at \in [DOMAIN ids -> DOMAIN ids]
           /\ \A i, j \in DOMAIN ids : at[i] = at[j] => i = j
           /\ \A i \in DOMAIN ids : \E j \in DOMAIN ids : at[j] = i
           /\ Arranged(pg, ids, mode) = [i \in DOMAIN ids |-> ids[at[i]]]
           /\ Arranged(pg, ids, mode) \in Seq(DOMAIN pg.rows)
           /\ Range(Arranged(pg, ids, mode)) = Range(ids)
  <1> DEFINE ahead == SortPlaces(pg, ids, mode)
             at == Sorted(DOMAIN ids, ahead)
             n == Len(ids)
  <1>1. n \in Nat /\ DOMAIN ids = 1 .. n /\ \A i \in DOMAIN ids : ids[i] \in DOMAIN pg.rows
    BY LenProperties
  <1>2. IsFiniteSet(DOMAIN ids) /\ Cardinality(DOMAIN ids) = n
    <2> HIDE DEF n
    <2>1. 1 \in Int /\ n \in Int /\ (IF 1 > n THEN 0 ELSE n - 1 + 1) = n
      BY <1>1
    <2>2. IsFiniteSet(1 .. n) /\ Cardinality(1 .. n) = IF 1 > n THEN 0 ELSE n - 1 + 1
      BY <2>1, FS_Interval
    <2> QED
      BY <1>1, <2>1, <2>2
  <1>3. Arranged(pg, ids, mode) = [i \in DOMAIN ids |-> ids[at[i]]]
    BY DEF Arranged, SortPlaces
  <1>4. \A i, j \in DOMAIN ids : i \in ahead[j] <=>
            \/ Precedes(pg, mode, ids[i], ids[j])
            \/ ~ Precedes(pg, mode, ids[j], ids[i]) /\ i < j
    BY DEF SortPlaces
  <1>5. \A j \in DOMAIN ids : ahead[j] \subseteq DOMAIN ids
    BY DEF SortPlaces
  <1> HIDE DEF ahead
  <1> DEFINE before(i, j) == Precedes(pg, mode, ids[i], ids[j])
  <1>6. \A i, j, k \in DOMAIN ids :
            /\ before(i, j) \in BOOLEAN
            /\ ~ before(i, i)
            /\ ~ (before(i, j) /\ before(j, i))
            /\ before(i, j) => before(i, k) \/ before(k, j)
    BY <1>1, PrecedesOrder
  <1>7. \A i, j \in DOMAIN ids : i \in ahead[j] <=> before(i, j) \/ (~ before(j, i) /\ i < j)
    BY <1>4
  <1> HIDE DEF before
  <1>8. Orders(DOMAIN ids, ahead)
    <2>1. \A i \in DOMAIN ids : i \notin ahead[i]
      BY <1>1, <1>6, <1>7
    <2>2. \A i, j \in DOMAIN ids : i # j => i \in ahead[j] \/ j \in ahead[i]
      BY <1>1, <1>6, <1>7
    <2>3. \A i, j \in DOMAIN ids : j \in ahead[i] => ahead[j] \subseteq ahead[i]
      <3> SUFFICES ASSUME NEW i \in DOMAIN ids, NEW j \in DOMAIN ids, j \in ahead[i],
                          NEW k \in ahead[j]
                   PROVE  k \in ahead[i]
        OBVIOUS
      <3>1. k \in DOMAIN ids
        BY <1>5
      <3>2. /\ before(j, i) \/ (~ before(i, j) /\ j < i)
            /\ before(k, j) \/ (~ before(j, k) /\ k < j)
        BY <3>1, <1>7
      <3>3. ~ before(i, k) /\ (before(k, i) \/ k < i)
        BY <3>1, <3>2, <1>1, <1>6
      <3> QED
        BY <3>1, <3>3, <1>7
    <2> QED
      BY <1>2, <1>5, <2>1, <2>2, <2>3 DEF Orders
  <1>9. /\ at \in [1 .. n -> DOMAIN ids]
        /\ \A i, j \in DOMAIN at : i # j => at[i] # at[j]
        /\ \A x \in DOMAIN ids : \E i \in DOMAIN at : at[i] = x
    <2> HIDE DEF n
    <2> QED
      BY <1>2, <1>8, SortedProperties
  <1> DEFINE r == [i \in DOMAIN ids |-> ids[at[i]]]
  <1> HIDE DEF at
  <1>10. r \in [1 .. n -> DOMAIN pg.rows]
    BY <1>1, <1>9
  <1>11. r \in Seq(DOMAIN pg.rows)
    <2>1. \E l \in Nat : r \in [1 .. l -> DOMAIN pg.rows]
      BY <1>1, <1>10
    <2> HIDE DEF r
    <2> QED
      BY <2>1, SeqDef
  <1>12. Range(r) = Range(ids)
    BY <1>1, <1>9 DEF Range
  <1>13. /\ at \in [DOMAIN ids -> DOMAIN ids]
         /\ \A i, j \in DOMAIN ids : at[i] = at[j] => i = j
         /\ \A i \in DOMAIN ids : \E j \in DOMAIN ids : at[j] = i
    BY <1>1, <1>9
  <1> QED
    BY <1>3, <1>8, <1>11, <1>12, <1>13 DEF at, ahead

(* Lists with some cards taken out, put in, or set side by side.           *)
LEMMA WithoutProperties ==
    ASSUME NEW E, NEW s \in Seq(E), NEW S
    PROVE  LET r == Without(s, S) IN
           /\ r \in Seq(E) /\ Len(r) <= Len(s)
           /\ Range(r) = Range(s) \ S
           /\ (\A i, j \in DOMAIN s : s[i] = s[j] => i = j) => \A i, j \in DOMAIN r : r[i] = r[j] => i = j
           /\ Range(s) \cap S = {} => r = s
  <1> DEFINE T == Range(s) \ S
             r == Those(s, T)
             I == {i \in DOMAIN s : s[i] \in T}
  <1>1. Without(s, S) = r
    BY DEF Without
  <1>2. /\ Len(s) \in Nat /\ DOMAIN s = 1 .. Len(s)
    BY LenProperties
  <1>3. /\ r \in Seq(E)
        /\ \A k \in DOMAIN r : r[k] \in T /\ \E i \in DOMAIN s : r[k] = s[i]
        /\ \A i \in DOMAIN s : s[i] \in T => \E k \in DOMAIN r : r[k] = s[i]
        /\ \A key : Free(s, key) => Free(r, key)
        /\ (\A i \in DOMAIN s : s[i] \in T) => r = s
    <2> HIDE DEF T
    <2> QED
      BY ThoseProperties
  <1>4. Len(r) <= Len(s)
    <2>1. I \in SUBSET DOMAIN s
      OBVIOUS
    <2>2. Len(Kept(s, I)) = Cardinality(I)
      BY <2>1, KeptPlaces
    <2>3. IsFiniteSet(DOMAIN s) /\ Cardinality(DOMAIN s) = Len(s)
      BY <1>2, PlacesFinite
    <2>4. Cardinality(I) <= Len(s)
      BY <2>1, <2>3, FS_Subset
    <2> QED
      BY <2>2, <2>4 DEF Those
  <1>5. Range(r) = Range(s) \ S
    <2>1. \A x \in T : \E i \in DOMAIN s : s[i] = x
      BY DEF Range
    <2> HIDE DEF r
    <2>2. Range(r) = T
      <3> HIDE DEF T
      <3> QED
        BY <1>3, <2>1 DEF Range
    <2> QED
      BY <2>2
  <1>6. (\A i, j \in DOMAIN s : s[i] = s[j] => i = j) => \A i, j \in DOMAIN r : r[i] = r[j] => i = j
    <2> DEFINE id == [x \in E |-> x]
    <2>1. \A i \in DOMAIN s : s[i] \in E
      BY <1>2, LenProperties
    <2>2. \A i \in DOMAIN r : r[i] \in E
      <3> HIDE DEF r
      <3> QED
        BY <1>3, <2>1
    <2>3. Free(s, id) => Free(r, id)
      BY <1>3
    <2> HIDE DEF r
    <2> QED
      BY <2>1, <2>2, <2>3 DEF Free
  <1>7. Range(s) \cap S = {} => r = s
    <2>1. \A i \in DOMAIN s : s[i] \in Range(s)
      BY DEF Range
    <2> QED
      BY <1>3, <2>1
  <1> HIDE DEF r
  <1> QED
    BY <1>1, <1>3, <1>4, <1>5, <1>6, <1>7

LEMMA InsertProperties ==
    ASSUME NEW E, NEW s \in Seq(E), NEW x \in E, NEW k \in 1 .. Len(s) + 1
    PROVE  LET r == InsertAt(s, k, x) IN
           /\ r \in Seq(E) /\ Len(r) = Len(s) + 1
           /\ \A i \in 1 .. k - 1 : r[i] = s[i]
           /\ r[k] = x
           /\ \A i \in k + 1 .. Len(s) + 1 : r[i] = s[i - 1]
  <1>1. Len(s) \in Nat /\ k \in Nat /\ \A i \in 1 .. Len(s) : s[i] \in E
    BY LenProperties
  <1> DEFINE a == SubSeq(s, 1, k - 1)
             b == SubSeq(s, k, Len(s))
  <1>2. /\ a \in Seq(E) /\ Len(a) = k - 1
        /\ \A i \in 1 .. k - 1 : a[i] = s[i]
    <2>1. \A i \in 1 .. k - 1 : s[i] \in E
      BY <1>1
    <2>2. /\ a \in Seq(E) /\ Len(a) = IF 1 <= k - 1 THEN k - 1 - 1 + 1 ELSE 0
          /\ \A i \in 1 .. k - 1 - 1 + 1 : a[i] = s[1 + i - 1]
      <3> HIDE DEF a
      <3>1. a = SubSeq(s, 1, k - 1)
        BY DEF a
      <3> QED
        BY <1>1, <2>1, <3>1, SubSeqProperties
    <2> HIDE DEF a
    <2> QED
      BY <2>2, <1>1
  <1>3. /\ b \in Seq(E) /\ Len(b) = Len(s) - k + 1
        /\ \A i \in 1 .. Len(s) - k + 1 : b[i] = s[k + i - 1]
    <2>1. \A i \in k .. Len(s) : s[i] \in E
      BY <1>1
    <2>2. /\ b \in Seq(E) /\ Len(b) = IF k <= Len(s) THEN Len(s) - k + 1 ELSE 0
          /\ \A i \in 1 .. Len(s) - k + 1 : b[i] = s[k + i - 1]
      <3> HIDE DEF b
      <3>1. b = SubSeq(s, k, Len(s))
        BY DEF b
      <3> QED
        BY <1>1, <2>1, <3>1, SubSeqProperties
    <2> HIDE DEF b
    <2> QED
      BY <2>2, <1>1
  <1>4. <<x>> \in Seq(E) /\ Len(<<x>>) = 1 /\ <<x>>[1] = x
    OBVIOUS
  <1> HIDE DEF a, b
  <1>5. /\ a \o <<x>> \in Seq(E) /\ Len(a \o <<x>>) = k
        /\ \A i \in 1 .. k : (a \o <<x>>)[i] = IF i <= k - 1 THEN a[i] ELSE <<x>>[i - (k - 1)]
    BY <1>1, <1>2, <1>4, ConcatProperties
  <1> DEFINE ax == a \o <<x>>
  <1>6. /\ \A i \in 1 .. k - 1 : ax[i] = s[i]
        /\ ax[k] = x
    BY <1>1, <1>2, <1>5
  <1>7. ax \in Seq(E) /\ Len(ax) = k
    BY <1>5
  <1> HIDE DEF ax
  <1>8. /\ ax \o b \in Seq(E) /\ Len(ax \o b) = Len(s) + 1
        /\ \A i \in 1 .. Len(s) + 1 : (ax \o b)[i] = IF i <= k THEN ax[i] ELSE b[i - k]
    BY <1>1, <1>3, <1>7, ConcatProperties
  <1>9. InsertAt(s, k, x) = ax \o b
    BY DEF InsertAt, ax, a, b
  <1>10. \A i \in k + 1 .. Len(s) + 1 : (ax \o b)[i] = s[i - 1]
    <2> SUFFICES ASSUME NEW i \in k + 1 .. Len(s) + 1 PROVE (ax \o b)[i] = s[i - 1]
      OBVIOUS
    <2>1. (ax \o b)[i] = b[i - k]
      <3>1. i \in 1 .. Len(s) + 1 /\ ~ (i <= k)
        BY <1>1
      <3> QED
        BY <3>1, <1>8
    <2>2. b[i - k] = s[k + (i - k) - 1]
      BY <1>1, <1>3
    <2> QED
      BY <1>1, <2>1, <2>2
  <1>11. \A i \in 1 .. k : (ax \o b)[i] = ax[i]
    BY <1>1, <1>8
  <1> QED
    BY <1>1, <1>6, <1>8, <1>9, <1>10, <1>11

LEMMA CardsProperties ==
    ASSUME Shapes, NEW pg, GroupTable(pg.groups), Columns(pg.groups, pg.cols)
    PROVE  LET ks == Keys(pg)
               lists == [i \in DOMAIN ks |-> pg.cols[ks[i]]]
           IN
           /\ Cards(pg) = Joined(lists) /\ lists \in [1 .. Len(ks) -> Seq(Connects)]
           /\ Len(ks) \in Nat /\ DOMAIN ks = 1 .. Len(ks)
           /\ Cards(pg) \in Seq(Connects)
           /\ Range(Cards(pg)) = UNION {Range(pg.cols[k]) : k \in Shown(pg.groups)}
  <1> DEFINE ks == Keys(pg)
             lists == [i \in DOMAIN ks |-> pg.cols[ks[i]]]
  <1>1. ks \in Seq(Shown(pg.groups)) /\ Range(ks) = Shown(pg.groups)
    BY KeysProperties
  <1>2. Len(ks) \in Nat /\ DOMAIN ks = 1 .. Len(ks) /\ \A i \in DOMAIN ks : ks[i] \in Shown(pg.groups)
    <2> HIDE DEF ks
    <2> QED
      BY <1>1, LenProperties
  <1>3. Cards(pg) = Joined(lists)
    BY DEF Cards
  <1> HIDE DEF ks
  <1>4. lists \in [1 .. Len(ks) -> Seq(Connects)]
    BY <1>2 DEF Columns
  <1>5. /\ Joined(lists) \in Seq(Connects)
        /\ Range(Joined(lists)) = UNION {Range(lists[k]) : k \in 1 .. Len(ks)}
    BY <1>2, <1>4, JoinedPlaces
  <1>6. UNION {Range(lists[k]) : k \in 1 .. Len(ks)} = UNION {Range(pg.cols[k]) : k \in Shown(pg.groups)}
    <2>1. \A k \in 1 .. Len(ks) : lists[k] = pg.cols[ks[k]] /\ ks[k] \in Shown(pg.groups)
      BY <1>2
    <2>2. \A n \in Shown(pg.groups) : \E k \in 1 .. Len(ks) : ks[k] = n
      BY <1>1, <1>2 DEF Range
    <2> HIDE DEF lists
    <2> QED
      BY <2>1, <2>2
  <1> QED
    BY <1>2, <1>3, <1>4, <1>5, <1>6 DEF ks

LEMMA BlockType ==
    ASSUME Shapes, NEW pg, GroupTable(pg.groups), Columns(pg.groups, pg.cols), NEW S
    PROVE  Block(pg, S) \in Seq(Connects)
  <1>1. Cards(pg) \in Seq(Connects)
    BY CardsProperties
  <1>2. Block(pg, S) = Those(Cards(pg), S)
    BY DEF Block
  <1> QED
    BY <1>1, <1>2, ThoseProperties

LEMMA DroppedType ==
    ASSUME Shapes, NEW pg, Columns(pg.groups, pg.cols), NEW c \in Connects,
           NEW from \in Shown(pg.groups), NEW to \in Shown(pg.groups),
           NEW k \in 1 .. Len(Without(pg.cols[to], {c})) + 1
    PROVE  Columns(pg.groups, Dropped(pg, c, from, to, k))
  <1> DEFINE out == [pg.cols EXCEPT ![from] = Without(@, {c})]
  <1>1. Dropped(pg, c, from, to, k) = [out EXCEPT ![to] = InsertAt(@, k, c)]
    BY DEF Dropped
  <1>2. Columns(pg.groups, out)
    BY WithoutProperties DEF Columns
  <1>3. pg.cols[to] \in Seq(Connects) /\ out[to] \in Seq(Connects)
    BY <1>2 DEF Columns
  <1>4. Len(pg.cols[to]) \in Nat /\ Len(out[to]) \in Nat /\ Len(Without(pg.cols[to], {c})) \in Nat
    BY <1>3, WithoutProperties, LenProperties
  <1>5. k \in 1 .. Len(out[to]) + 1
    <2>1. out[to] = Without(pg.cols[to], {c}) \/ out[to] = pg.cols[to]
      BY DEF Columns
    <2>2. Len(Without(pg.cols[to], {c})) <= Len(pg.cols[to])
      BY <1>3, WithoutProperties
    <2> QED
      BY <1>4, <2>1, <2>2
  <1>6. InsertAt(out[to], k, c) \in Seq(Connects)
    BY <1>3, <1>5, InsertProperties
  <1> HIDE DEF out
  <1> QED
    BY <1>1, <1>2, <1>6 DEF Columns

LEMMA MergedType ==
    ASSUME Shapes, NEW pg, GroupTable(pg.groups), Columns(pg.groups, pg.cols),
           NEW to \in Shown(pg.groups), NEW k \in Nat \ {0}
    PROVE  Columns(pg.groups, Merged(pg, to, k))
  <1> DEFINE out == [key \in DOMAIN pg.cols |-> Without(pg.cols[key], pg.sel)]
             at == IF k - 1 <= Len(out[to]) THEN k - 1 ELSE Len(out[to])
             blk == Block(pg, pg.sel)
             new == SubSeq(out[to], 1, at) \o blk \o SubSeq(out[to], at + 1, Len(out[to]))
  <1>1. Merged(pg, to, k) = [out EXCEPT ![to] = new]
    BY DEF Merged
  <1>2. Columns(pg.groups, out)
    BY WithoutProperties DEF Columns
  <1>3. blk \in Seq(Connects)
    BY BlockType
  <1>4. out[to] \in Seq(Connects)
    BY <1>2 DEF Columns
  <1> HIDE DEF out, blk
  <1>5. Len(out[to]) \in Nat /\ at \in 0 .. Len(out[to]) /\ \A i \in 1 .. Len(out[to]) : out[to][i] \in Connects
    BY <1>4, LenProperties
  <1> HIDE DEF at
  <1>6. SubSeq(out[to], 1, at) \in Seq(Connects)
    BY <1>5, SubSeqProperties
  <1>7. SubSeq(out[to], at + 1, Len(out[to])) \in Seq(Connects)
    BY <1>5, SubSeqProperties
  <1>8. new \in Seq(Connects)
    BY <1>3, <1>6, <1>7, ConcatProperties
  <1> HIDE DEF new
  <1> QED
    BY <1>1, <1>2, <1>8 DEF Columns

(* The order that is sent has every connect once.                          *)
LEMMA AllIdsOnce ==
    ASSUME Shapes, NEW pg, Table(pg.rows), GroupTable(pg.groups), Columns(pg.groups, pg.cols)
    PROVE  LET ids == AllIds(pg)
               s == Cards(pg)
               rest == IF Len(s) # Cardinality(DOMAIN pg.rows)
                       THEN ByOrder(pg.rows, DOMAIN pg.rows \ Range(s)) ELSE <<>>
           IN
           /\ ids \in Seq(Connects)
           /\ \A i, j \in DOMAIN ids : ids[i] = ids[j] => i = j
           /\ ids = Firsts(s \o rest, [c \in Connects |-> c])
           /\ rest \in Seq(Connects)
  <1> DEFINE s == Cards(pg)
             left_ == DOMAIN pg.rows \ Range(s)
             rest == IF Len(s) # Cardinality(DOMAIN pg.rows) THEN ByOrder(pg.rows, left_) ELSE <<>>
             id == [c \in Connects |-> c]
             ids == Firsts(s \o rest, id)
  <1>1. AllIds(pg) = ids
    BY DEF AllIds
  <1>2. s \in Seq(Connects)
    BY CardsProperties
  <1>3. ByOrder(pg.rows, left_) \in Seq(Connects)
    <2>1. left_ \in SUBSET DOMAIN pg.rows
      OBVIOUS
    <2> HIDE DEF left_
    <2> QED
      BY <2>1, ByOrderProperties
  <1>4. rest \in Seq(Connects)
    <2> HIDE DEF s, left_
    <2> QED
      BY <1>3
  <1> HIDE DEF s, rest
  <1>5. s \o rest \in Seq(Connects)
    BY <1>2, <1>4, ConcatProperties
  <1>6. ids \in Seq(Connects) /\ Free(ids, id)
    <2> HIDE DEF id
    <2> QED
      BY <1>5, FirstsProperties
  <1> HIDE DEF ids
  <1>7. \A i \in DOMAIN ids : ids[i] \in Connects
    BY <1>6, LenProperties
  <1>8. \A i, j \in DOMAIN ids : ids[i] = ids[j] => i = j
    BY <1>6, <1>7 DEF Free
  <1> QED
    BY <1>1, <1>4, <1>6, <1>8 DEF ids, rest, s

-----------------------------------------------------------------------------
(* Types of the board.                                                     *)
PageFields == {"rows", "groups", "cols", "modes", "sel", "filter", "loading", "dirty", "tangled"}

PageBase(pg) ==
    /\ DOMAIN pg = PageFields
    /\ Table(pg.rows) /\ GroupTable(pg.groups)
    /\ pg.modes \in [GroupNames -> Modes] /\ pg.sel \subseteq Connects
    /\ pg.loading \in BOOLEAN /\ pg.dirty \in BOOLEAN /\ pg.tangled \in BOOLEAN

BoardOK(pg) == PageBase(pg) /\ Columns(pg.groups, pg.cols)

FlowFields == {"page", "kind", "pc", "wire", "failed", "quiet", "cols", "panel", "ids", "at", "snap", "old"}

RequestOK(r) ==
    /\ r.kind = "tags" => r.val \subseteq GroupNames
    /\ r.kind = "on"   => r.val \in BOOLEAN
    /\ r.kind = "name" => r.val \in Labels
    /\ r.kind = "json" => r.val \in {"feed", "edited"}

FlowOK(f) ==
    /\ DOMAIN f = FlowFields
    /\ f.page \in Pages
    /\ \A r \in f.wire : RequestOK(r)
    /\ \A i, j \in DOMAIN f.ids : f.ids[i] = f.ids[j] => i = j
    /\ f.at \in Nat \ {0}
    /\ f.pc = "answer" => Table(f.snap)
    /\ f.failed \in BOOLEAN /\ f.old \in BOOLEAN

(* The columns a drag will arrange are those of its page.                  *)
ColumnsKept(f, gs) == f.pc = "patch" /\ f.kind = "drag" => Columns(gs, f.cols)

FlowsOK ==
    /\ DOMAIN flow \subseteq FlowSlots
    /\ \A s \in DOMAIN flow : FlowOK(flow[s]) /\ ColumnsKept(flow[s], board[flow[s].page].groups)

BoardType ==
    /\ Table(row) /\ GroupTable(group)
    /\ DOMAIN board = Pages /\ \A p \in Pages : BoardOK(board[p])
    /\ FlowsOK

LEMMA NewFlowOK ==
    ASSUME NEW p \in Pages, NEW kind
    PROVE  FlowOK(NewFlow(p, kind)) /\ NewFlow(p, kind).page = p /\ NewFlow(p, kind).kind = kind
  BY DEF FlowOK, FlowFields, NewFlow

LEMMA RebuildType ==
    ASSUME Shapes, NEW pg, PageBase(pg)
    PROVE  /\ BoardOK(Rebuild(pg))
           /\ \A x \in PageFields \ {"cols"} : Rebuild(pg)[x] = pg[x]
  <1> DEFINE S == Shown(pg.groups)
             ids(key) == {c \in Visible(pg) : InColumn(pg, c, key)}
             cols == [key \in S |-> Arranged(pg, ByOrder(pg.rows, ids(key)), pg.modes[key])]
  <1>1. Range(Keys(pg)) = S
    BY KeysProperties DEF PageBase
  <1>2. Rebuild(pg) = [pg EXCEPT !.cols = cols]
    BY <1>1 DEF Rebuild
  <1>3. ASSUME NEW key \in S PROVE cols[key] \in Seq(Connects)
    <2>1. ids(key) \in SUBSET DOMAIN pg.rows
      BY DEF Visible
    <2>2. key \in GroupNames /\ pg.modes[key] \in Modes
      BY DEF PageBase, GroupTable, Shown
    <2>3. cols[key] = Arranged(pg, ByOrder(pg.rows, ids(key)), pg.modes[key])
      OBVIOUS
    <2> HIDE DEF ids, cols
    <2>4. ByOrder(pg.rows, ids(key)) \in Seq(ids(key))
      BY <2>1, ByOrderProperties DEF PageBase
    <2>5. ByOrder(pg.rows, ids(key)) \in Seq(DOMAIN pg.rows)
      BY <2>1, <2>4, SeqMonotonic
    <2>6. cols[key] \in Seq(DOMAIN pg.rows)
      BY <2>2, <2>3, <2>5, ArrangedProperties DEF PageBase
    <2> QED
      BY <2>6, SeqMonotonic DEF PageBase, Table
  <1>4. Columns(pg.groups, cols)
    BY <1>3 DEF Columns
  <1> HIDE DEF cols
  <1>5. \A x \in PageFields \ {"cols"} : Rebuild(pg)[x] = pg[x]
    BY <1>2 DEF PageBase
  <1>6. Rebuild(pg).cols = cols /\ DOMAIN Rebuild(pg) = DOMAIN pg
    BY <1>2 DEF PageBase, PageFields
  <1>7. BoardOK(Rebuild(pg))
    BY <1>2, <1>4, <1>6 DEF BoardOK, PageBase, PageFields
  <1> QED
    BY <1>5, <1>7

LEMMA BeginType ==
    ASSUME BoardType, NEW s, NEW p \in Pages, NEW kind, NEW pg, NEW f, NEW w,
           Begin(s, kind, p, pg, f, w),
           BoardOK(pg), FlowOK(f), f.page = p, ColumnsKept(f, pg.groups),
           pg.groups = board[p].groups \/ \A q \in DOMAIN flow : flow[q].page # p
    PROVE  BoardType'
  <1>1. /\ s \in FlowSlots \ DOMAIN flow
        /\ flow' = [q \in DOMAIN flow \cup {s} |-> IF q = s THEN f ELSE flow[q]]
        /\ board' = [board EXCEPT ![p] = pg]
        /\ row' = row /\ group' = group
    BY DEF Begin
  <1>2. DOMAIN board' = Pages /\ \A q \in Pages : BoardOK(board'[q])
    BY <1>1 DEF BoardType
  <1>3. DOMAIN flow' \subseteq FlowSlots
    BY <1>1 DEF BoardType, FlowsOK
  <1>4. ASSUME NEW q \in DOMAIN flow'
        PROVE  FlowOK(flow'[q]) /\ ColumnsKept(flow'[q], board'[flow'[q].page].groups)
    <2>1. CASE q = s
      <3>1. flow'[q] = f /\ board'[f.page] = pg
        BY <2>1, <1>1 DEF BoardType
      <3> QED
        BY <3>1
    <2>2. CASE q # s
      <3>1. q \in DOMAIN flow /\ flow'[q] = flow[q] /\ flow[q].page \in Pages
        BY <2>2, <1>1 DEF BoardType, FlowsOK, FlowOK
      <3>2. board'[flow[q].page].groups = board[flow[q].page].groups
        BY <3>1, <1>1 DEF BoardType
      <3> QED
        BY <3>1, <3>2 DEF BoardType, FlowsOK
    <2> QED
      BY <2>1, <2>2
  <1> QED
    BY <1>1, <1>2, <1>3, <1>4 DEF BoardType, FlowsOK

LEMMA PersistOK ==
    ASSUME Shapes, NEW p \in Pages, NEW kind, NEW pg, BoardOK(pg)
    PROVE  LET f == PersistOrder(p, kind, pg) IN
           /\ FlowOK(f) /\ f.page = p /\ f.pc = "reorder" /\ f.kind = kind
           /\ f.wire = {} /\ ~ f.old /\ f.ids = AllIds(pg) /\ f.at = 1 /\ f.quiet
  <1>1. \A i, j \in DOMAIN AllIds(pg) : AllIds(pg)[i] = AllIds(pg)[j] => i = j
    BY AllIdsOnce DEF BoardOK, PageBase
  <1> QED
    BY <1>1 DEF FlowOK, FlowFields, PersistOrder, NewFlow

LEMMA DragType ==
    ASSUME Shapes, BoardType, NEW s, NEW p \in Pages, NEW c \in DOMAIN board[p].rows,
           NEW from \in DOMAIN board[p].cols, NEW to \in DOMAIN board[p].cols,
           NEW k \in 1 .. Len(Without(board[p].cols[to], {c})) + 1,
           Drag(s, p, c, from, to, k)
    PROVE  BoardType'
  <1> DEFINE pg == board[p]
             multi == c \in pg.sel /\ Cardinality(pg.sel) > 1 /\ pg.sel \subseteq Visible(pg)
             moved == IF multi THEN pg.sel ELSE {c}
             seen == Dropped(pg, c, from, to, k)
             cols == IF multi THEN Merged(pg, to, k) ELSE seen
             show == [pg EXCEPT !.cols = cols,
                          !.modes = [n \in GroupNames |-> IF n \in {from, to} THEN "panel" ELSE @[n]]]
             patch == [NewFlow(p, "drag") EXCEPT !.quiet = TRUE, !.cols = cols, !.panel = {from, to},
                          !.wire = {Req("tags", d, TagsFor(pg, d, to)) : d \in moved}]
  <1>1. BoardOK(pg) /\ from \in Shown(pg.groups) /\ to \in Shown(pg.groups) /\ c \in Connects
    BY DEF BoardType, BoardOK, PageBase, Columns, Table
  <1>2. PICK w : Begin(s, "drag", p, IF from = to THEN show ELSE pg,
                         IF from = to THEN PersistOrder(p, "drag", show) ELSE patch, w)
    BY DEF Drag, Edited
  <1>3. moved \subseteq DOMAIN pg.rows
    BY DEF Visible
  <1>4. Columns(pg.groups, cols)
    <2>1. PageBase(pg) /\ Columns(pg.groups, pg.cols) /\ k \in Nat \ {0}
      BY <1>1 DEF BoardOK
    <2>2. Columns(pg.groups, seen)
      BY <1>1, <2>1, DroppedType
    <2>3. Columns(pg.groups, Merged(pg, to, k))
      BY <1>1, <2>1, MergedType DEF PageBase
    <2> HIDE DEF seen, multi
    <2> QED
      BY <2>2, <2>3
  <1> HIDE DEF cols, moved
  <1>5. BoardOK(show) /\ show.groups = pg.groups
    BY <1>1, <1>4 DEF BoardOK, PageBase, PageFields, Modes
  <1>6. FlowOK(patch) /\ patch.page = p /\ patch.cols = cols
    <2>1. \A d \in moved : TagsFor(pg, d, to) \subseteq GroupNames
      <3>1. \A d \in moved : pg.rows[d].tags \subseteq GroupNames
        BY <1>1, <1>3 DEF BoardOK, PageBase, Table, Rows
      <3>2. to \in GroupNames
        BY <1>1 DEF BoardOK, PageBase, Shown, GroupTable
      <3> QED
        BY <3>1, <3>2 DEF TagsFor
    <2>2. \A r \in {Req("tags", d, TagsFor(pg, d, to)) : d \in moved} : RequestOK(r)
      BY <2>1 DEF RequestOK, Req
    <2> QED
      BY <2>2 DEF FlowOK, FlowFields, NewFlow
  <1> DEFINE f == IF from = to THEN PersistOrder(p, "drag", show) ELSE patch
             pg2 == IF from = to THEN show ELSE pg
  <1> HIDE DEF show, patch
  <1>7. /\ BoardOK(pg2) /\ pg2.groups = pg.groups
        /\ FlowOK(f) /\ f.page = p /\ ColumnsKept(f, pg2.groups)
    <2>1. CASE from = to
      BY <2>1, <1>5, PersistOK DEF ColumnsKept
    <2>2. CASE from # to
      BY <2>2, <1>1, <1>4, <1>6 DEF ColumnsKept
    <2> QED
      BY <2>1, <2>2
  <1>8. Begin(s, "drag", p, pg2, f, w)
    BY <1>2 DEF show, patch
  <1> HIDE DEF f, pg2, pg
  <1> QED
    BY <1>7, <1>8, BeginType DEF pg

LEMMA SortPickType ==
    ASSUME Shapes, BoardType, NEW s, NEW p \in Pages, NEW key \in DOMAIN board[p].cols,
           NEW mode \in Modes, SortPick(s, p, key, mode)
    PROVE  BoardType'
  <1> DEFINE base == [board[p] EXCEPT !.modes[key] = mode]
             pg == Rebuild(base)
  <1>1. BoardOK(board[p])
    BY DEF BoardType
  <1>2. PageBase(base) /\ base.groups = board[p].groups
    BY <1>1 DEF BoardOK, PageBase, PageFields
  <1>3. BoardOK(pg) /\ pg.groups = board[p].groups
    <2> HIDE DEF base
    <2> QED
      BY <1>2, RebuildType DEF PageFields
  <1>4. PICK w : Begin(s, "sort", p, pg, PersistOrder(p, "sort", pg), w)
    BY DEF SortPick
  <1> HIDE DEF pg
  <1> DEFINE f == PersistOrder(p, "sort", pg)
  <1>5. FlowOK(f) /\ f.page = p /\ ColumnsKept(f, pg.groups)
    BY <1>3, PersistOK DEF ColumnsKept
  <1> HIDE DEF f
  <1>6. Begin(s, "sort", p, pg, f, w)
    BY <1>4 DEF f
  <1> QED
    BY <1>3, <1>5, <1>6, BeginType

LEMMA ShuffleType ==
    ASSUME Shapes, BoardType, NEW s, NEW p \in Pages, NEW key \in DOMAIN board[p].cols,
           NEW ids \in SetToSeqs(Range(board[p].cols[key])), Shuffle(s, p, key, ids)
    PROVE  BoardType'
  <1> DEFINE pg == [board[p] EXCEPT !.cols[key] = ids, !.modes[key] = "panel"]
  <1>1. BoardOK(board[p])
    BY DEF BoardType
  <1>2. ids \in Seq(Connects)
    <2>1. board[p].cols[key] \in Seq(Connects)
      BY <1>1 DEF BoardOK, Columns
    <2>2. /\ Range(board[p].cols[key]) \subseteq Connects
      BY <2>1, LenProperties DEF Range
    <2> DEFINE R == Range(board[p].cols[key])
    <2>3. ids \in [1 .. Cardinality(R) -> R]
      BY DEF SetToSeqs
    <2>4. Cardinality(R) \in Nat
      <3>1. IsFiniteSet(R)
        BY <2>2, FS_Subset DEF Shapes
      <3> QED
        BY <3>1, FS_CardinalityType
    <2>5. \E l \in Nat : ids \in [1 .. l -> Connects]
      <3> HIDE DEF R
      <3>1. R \subseteq Connects
        BY <2>2 DEF R
      <3> QED
        BY <2>3, <2>4, <3>1
    <2> QED
      BY <2>5, SeqDef
  <1>3. BoardOK(pg) /\ pg.groups = board[p].groups
    BY <1>1, <1>2 DEF BoardOK, PageBase, PageFields, Columns, Modes
  <1>4. PICK w : Begin(s, "sort", p, pg, PersistOrder(p, "sort", pg), w)
    BY DEF Shuffle
  <1> HIDE DEF pg
  <1> DEFINE f == PersistOrder(p, "sort", pg)
  <1>5. FlowOK(f) /\ f.page = p /\ ColumnsKept(f, pg.groups)
    BY <1>3, PersistOK DEF ColumnsKept
  <1> HIDE DEF f
  <1>6. Begin(s, "sort", p, pg, f, w)
    BY <1>4 DEF f
  <1> QED
    BY <1>3, <1>5, <1>6, BeginType

LEMMA BulkType ==
    ASSUME Shapes, BoardType, NEW s, NEW p \in Pages, NEW n \in GroupNames, NEW adding \in BOOLEAN,
           Bulk(s, p, {n}, adding)
    PROVE  BoardType'
  <1> DEFINE pg == board[p]
             f == [NewFlow(p, "bulk") EXCEPT
                      !.wire = {Req("tags", c, BulkTags(pg, c, {n}, adding)) : c \in pg.sel}]
  <1>1. BoardOK(pg)
    BY DEF BoardType
  <1>2. PICK w : Begin(s, "bulk", p, pg, f, w)
    BY DEF Bulk, Edited
  <1>3. \A c \in Connects : BulkTags(pg, c, {n}, adding) \subseteq GroupNames
    BY <1>1 DEF BulkTags, BoardOK, PageBase, Table, Rows
  <1>4. FlowOK(f) /\ f.page = p /\ ColumnsKept(f, pg.groups)
    <2>1. \A r \in {Req("tags", c, BulkTags(pg, c, {n}, adding)) : c \in pg.sel} : RequestOK(r)
      BY <1>1, <1>3 DEF RequestOK, Req, BoardOK, PageBase
    <2> QED
      BY <2>1 DEF FlowOK, FlowFields, NewFlow, ColumnsKept
  <1> HIDE DEF f
  <1> QED
    BY <1>1, <1>2, <1>4, BeginType

LEMMA CardChangeType ==
    ASSUME Shapes, BoardType, NEW s, NEW p \in Pages, NEW c \in Connects, NEW what, NEW value,
           ChangeCard(s, p, c, what, value),
           \/ what \in {"toggle", "remove"}
           \/ what = "name" /\ value \in Labels
           \/ what = "json" /\ value = "edited"
    PROVE  BoardType'
  <1> DEFINE pg == board[p]
             f == [NewFlow(p, what) EXCEPT !.wire = {Req(what, c, value)}]
  <1>1. BoardOK(pg)
    BY DEF BoardType
  <1>2. PICK w : Begin(s, what, p, pg, f, w)
    BY DEF ChangeCard, Edited
  <1>4. FlowOK(f) /\ f.page = p /\ ColumnsKept(f, pg.groups)
    <2>1. RequestOK(Req(what, c, value))
      BY DEF RequestOK, Req
    <2> QED
      BY <2>1 DEF FlowOK, FlowFields, NewFlow, ColumnsKept
  <1>5. pg.groups = board[p].groups
    OBVIOUS
  <1> HIDE DEF f, pg
  <1> QED
    BY <1>1, <1>2, <1>4, <1>5, BeginType

LEMMA RefreshType ==
    ASSUME Shapes, BoardType, NEW s, NEW p \in Pages, Refresh(s, p)
    PROVE  BoardType'
  <1> DEFINE pg == Tangle(p, [board[p] EXCEPT !.loading = TRUE])
             f == [NewFlow(p, "refresh") EXCEPT !.pc = "load"]
  <1>1. BoardOK(board[p])
    BY DEF BoardType
  <1>2. Begin(s, "refresh", p, pg, f, {})
    BY DEF Refresh
  <1>3. BoardOK(pg) /\ pg.groups = board[p].groups
    BY <1>1 DEF BoardOK, PageBase, PageFields, Tangle, Loading
  <1>4. FlowOK(f) /\ f.page = p /\ ColumnsKept(f, pg.groups)
    BY DEF FlowOK, FlowFields, NewFlow, ColumnsKept
  <1> HIDE DEF f, pg
  <1> QED
    BY <1>2, <1>3, <1>4, BeginType

LEMMA OpenType ==
    ASSUME Shapes, BoardType, NEW s, NEW p \in Pages, Open(s, p)
    PROVE  BoardType'
  <1> DEFINE base == [board[p] EXCEPT !.rows = <<>>, !.groups = group, !.sel = {},
                         !.filter = NoFilter, !.modes = [n \in GroupNames |-> "panel"],
                         !.loading = TRUE]
             pg == Rebuild(base)
             f == [NewFlow(p, "open") EXCEPT !.pc = "load"]
  <1>1. BoardOK(board[p]) /\ GroupTable(group)
    BY DEF BoardType
  <1>2. Begin(s, "open", p, pg, f, {}) /\ \A q \in DOMAIN flow : flow[q].page # p
    BY DEF Open
  <1>3. PageBase(base)
    <2>1. Table(<<>>)
      BY DEF Table
    <2> QED
      BY <1>1, <2>1 DEF BoardOK, PageBase, PageFields, Modes
  <1>4. BoardOK(pg)
    <2> HIDE DEF base
    <2> QED
      BY <1>3, RebuildType
  <1>5. FlowOK(f) /\ f.page = p /\ ColumnsKept(f, pg.groups)
    BY DEF FlowOK, FlowFields, NewFlow, ColumnsKept
  <1> HIDE DEF f, pg
  <1> QED
    BY <1>2, <1>4, <1>5, BeginType

(* A step that leaves the flows in place, or takes some away.              *)
LEMMA FlowStepType ==
    ASSUME BoardType, Table(row'), GroupTable(group'),
           DOMAIN board' = Pages, \A p \in Pages : BoardOK(board'[p]) /\ board'[p].groups = board[p].groups,
           DOMAIN flow' \subseteq DOMAIN flow,
           \A s \in DOMAIN flow' : FlowOK(flow'[s]) /\ ColumnsKept(flow'[s], board[flow'[s].page].groups)
    PROVE  BoardType'
  <1>1. \A s \in DOMAIN flow' : board'[flow'[s].page].groups = board[flow'[s].page].groups
    BY DEF FlowOK
  <1>2. FlowsOK'
    BY <1>1 DEF FlowsOK, BoardType
  <1> QED
    BY <1>2 DEF BoardType

LEMMA FlowKept ==
    ASSUME BoardType, NEW s \in DOMAIN flow
    PROVE  /\ FlowOK(flow[s]) /\ ColumnsKept(flow[s], board[flow[s].page].groups)
           /\ flow[s].page \in Pages /\ BoardOK(board[flow[s].page])
           /\ DOMAIN flow[s] = FlowFields
  BY DEF BoardType, FlowsOK, FlowOK

(* A flow that ends, or waits for its last answers only.                   *)
LEMMA EndedOK ==
    ASSUME BoardType, NEW s \in DOMAIN flow
    PROVE  LET fs == Ended(s) IN
           /\ DOMAIN fs \subseteq DOMAIN flow
           /\ \A q \in DOMAIN fs : /\ FlowOK(fs[q]) /\ ColumnsKept(fs[q], board[fs[q].page].groups)
                                   /\ fs[q].page = flow[q].page
  <1>1. CASE flow[s].wire = {}
    <2>1. Ended(s) = Restrict(flow, DOMAIN flow \ {s})
      BY <1>1 DEF Ended
    <2> QED
      BY <2>1, FlowKept DEF Restrict
  <1>2. CASE flow[s].wire # {}
    <2> DEFINE g == [flow[s] EXCEPT !.pc = "gone"]
    <2>1. Ended(s) = [flow EXCEPT ![s] = g]
      BY <1>2 DEF Ended
    <2>2. FlowOK(g) /\ ColumnsKept(g, board[g.page].groups) /\ g.page = flow[s].page
      BY FlowKept DEF FlowOK, FlowFields, ColumnsKept
    <2> HIDE DEF g
    <2> QED
      BY <2>1, <2>2, FlowKept
  <1> QED
    BY <1>1, <1>2

LEMMA OlderOK ==
    ASSUME NEW fs, NEW p, NEW q \in DOMAIN fs, FlowOK(fs[q])
    PROVE  LET g == Older(fs, p)[q] IN
           /\ DOMAIN Older(fs, p) = DOMAIN fs
           /\ FlowOK(g) /\ g.page = fs[q].page /\ g.pc = fs[q].pc /\ g.kind = fs[q].kind
           /\ g.cols = fs[q].cols
           /\ g.old = (fs[q].old \/ (fs[q].page = p /\ fs[q].pc = "answer"))
           /\ fs[q].page # p \/ fs[q].pc # "answer" => g = fs[q]
           /\ \A x \in FlowFields \ {"old"} : g[x] = fs[q][x]
  <1>1. Older(fs, p)[q] = IF fs[q].page = p /\ fs[q].pc = "answer"
                            THEN [fs[q] EXCEPT !.old = TRUE] ELSE fs[q]
    BY DEF Older
  <1>2. DOMAIN Older(fs, p) = DOMAIN fs
    BY DEF Older
  <1>3. DOMAIN fs[q] = FlowFields /\ fs[q].old \in BOOLEAN
    BY DEF FlowOK
  <1>4. CASE fs[q].page = p /\ fs[q].pc = "answer"
    <2> DEFINE g == [fs[q] EXCEPT !.old = TRUE]
    <2>1. /\ FlowOK(g) /\ g.page = fs[q].page /\ g.pc = fs[q].pc /\ g.kind = fs[q].kind
          /\ g.cols = fs[q].cols /\ g.old
          /\ \A x \in FlowFields \ {"old"} : g[x] = fs[q][x]
      BY <1>3 DEF FlowOK, FlowFields
    <2>2. Older(fs, p)[q] = g
      BY <1>1, <1>4
    <2> HIDE DEF g
    <2>3. g.old = (fs[q].old \/ (fs[q].page = p /\ fs[q].pc = "answer"))
      <3>1. g.old = TRUE
        BY <1>3, <2>1 DEF FlowOK
      <3> QED
        BY <3>1, <1>4
    <2> QED
      BY <1>2, <1>4, <2>1, <2>2, <2>3
  <1>5. CASE ~ (fs[q].page = p /\ fs[q].pc = "answer")
    <2>1. Older(fs, p)[q] = fs[q]
      BY <1>1, <1>5
    <2>2. fs[q].old = (fs[q].old \/ (fs[q].page = p /\ fs[q].pc = "answer"))
      BY <1>3, <1>5
    <2> QED
      BY <1>2, <1>5, <2>1, <2>2
  <1> QED
    BY <1>4, <1>5

(* A request is taken off the wire, another perhaps put on it.             *)
LEMMA HandledType ==
    ASSUME BoardType, NEW s \in DOMAIN flow, NEW r \in flow[s].wire, NEW ok \in BOOLEAN, NEW more,
           \A q \in more : RequestOK(q), Handled(s, r, ok, more), Table(row')
    PROVE  BoardType'
  <1> DEFINE f == [flow[s] EXCEPT !.wire = (@ \ {r}) \cup more, !.failed = @ \/ ~ ok]
             fs == [flow EXCEPT ![s] = f]
  <1>1. /\ flow' = IF f.pc = "gone" /\ f.wire = {} THEN Restrict(flow, DOMAIN flow \ {s})
                   ELSE IF ok /\ more = {} THEN Older(fs, f.page) ELSE fs
        /\ board' = [board EXCEPT ![f.page].dirty = @ \/ (ok /\ more = {})]
        /\ group' = group
    BY DEF Handled
  <1>2. /\ FlowOK(f) /\ f.page = flow[s].page /\ f.page \in Pages
        /\ ColumnsKept(f, board[f.page].groups)
    BY FlowKept DEF FlowOK, FlowFields, ColumnsKept
  <1> HIDE DEF f
  <1>3. /\ DOMAIN board' = Pages
        /\ \A p \in Pages : BoardOK(board'[p]) /\ board'[p].groups = board[p].groups
    <2>1. board' = [board EXCEPT ![f.page].dirty = @ \/ (ok /\ more = {})]
      BY <1>1
    <2> QED
      BY <1>2, <2>1 DEF BoardType, BoardOK, PageBase, PageFields
  <1>4. /\ DOMAIN fs = DOMAIN flow
        /\ \A q \in DOMAIN flow : FlowOK(fs[q]) /\ ColumnsKept(fs[q], board[fs[q].page].groups)
    BY <1>2, FlowKept
  <1> HIDE DEF fs
  <1>5. /\ DOMAIN Older(fs, f.page) = DOMAIN flow
        /\ \A q \in DOMAIN flow : LET g == Older(fs, f.page)[q] IN
              FlowOK(g) /\ ColumnsKept(g, board[g.page].groups)
    <2>1. DOMAIN Older(fs, f.page) = DOMAIN flow
      BY <1>4 DEF Older
    <2>2. ASSUME NEW q \in DOMAIN flow
          PROVE  LET g == Older(fs, f.page)[q] IN FlowOK(g) /\ ColumnsKept(g, board[g.page].groups)
      <3> DEFINE g == Older(fs, f.page)[q]
      <3>1. /\ FlowOK(g) /\ g.page = fs[q].page /\ g.pc = fs[q].pc /\ g.kind = fs[q].kind
            /\ g.cols = fs[q].cols
        BY <1>4, OlderOK
      <3> HIDE DEF g
      <3>2. ColumnsKept(g, board[g.page].groups)
        BY <1>4, <3>1 DEF ColumnsKept
      <3> QED
        BY <3>1, <3>2 DEF g
    <2> QED
      BY <2>1, <2>2
  <1>6. /\ DOMAIN flow' \subseteq DOMAIN flow
        /\ \A q \in DOMAIN flow' : FlowOK(flow'[q]) /\ ColumnsKept(flow'[q], board[flow'[q].page].groups)
    <2>1. CASE f.pc = "gone" /\ f.wire = {}
      BY <1>1, <2>1, FlowKept DEF Restrict
    <2>2. CASE ~ (f.pc = "gone" /\ f.wire = {})
      BY <1>1, <1>4, <1>5, <2>2
    <2> QED
      BY <2>1, <2>2
  <1>7. GroupTable(group')
    BY <1>1 DEF BoardType
  <1> QED
    BY <1>3, <1>6, <1>7, FlowStepType

LEMMA RowField ==
    ASSUME Table(row), NEW c \in DOMAIN row, NEW x, NEW v,
           \/ x = "order" /\ v \in Nat
           \/ x = "tags" /\ v \in (SUBSET GroupNames) \ {{}}
           \/ x = "on" /\ v \in BOOLEAN
           \/ x = "name" /\ v \in Labels
           \/ x = "json" /\ v \in {"feed", "edited"}
    PROVE  Table([row EXCEPT ![c][x] = v])
  <1> DEFINE t == [row[c] EXCEPT ![x] = v]
  <1>1. row[c] \in Rows
    BY DEF Table
  <1>2. t \in Rows
    BY <1>1 DEF Rows
  <1>3. [row EXCEPT ![c][x] = v] = [row EXCEPT ![c] = t]
    OBVIOUS
  <1> HIDE DEF t
  <1> QED
    BY <1>2, <1>3 DEF Table

LEMMA NormalizedType ==
    ASSUME Shapes, NEW names, names \subseteq GroupNames
    PROVE  Normalized(names) \in (SUBSET GroupNames) \ {{}}
  BY DEF Normalized, Shapes

LEMMA ServerType ==
    ASSUME Shapes, BoardType, NEW s \in DOMAIN flow, Server(s)
    PROVE  BoardType'
  <1>1. Table(row) /\ GroupTable(group)
    BY DEF BoardType
  <1>2. \A r \in flow[s].wire : RequestOK(r)
    BY FlowKept DEF FlowOK
  <1>3. ASSUME NEW r \in flow[s].wire, SetConnectGroups(s, r) PROVE BoardType'
    <2> DEFINE names == Normalized(r.val)
               ok == r.id \in DOMAIN row /\ Cardinality(names \cap MainsOf(group)) <= 1
    <2>1. /\ r.kind = "tags" /\ Handled(s, r, ok, {})
          /\ row' = IF ok THEN [row EXCEPT ![r.id].tags = names] ELSE row
      BY <1>3 DEF SetConnectGroups
    <2>2. names \in (SUBSET GroupNames) \ {{}}
      BY <1>2, <2>1, NormalizedType DEF RequestOK
    <2> HIDE DEF names
    <2>3. Table(row')
      BY <1>1, <2>1, <2>2, RowField
    <2>4. ok \in BOOLEAN
      OBVIOUS
    <2>5. \A q \in {} : RequestOK(q)
      OBVIOUS
    <2>6. Handled(s, r, ok, {})
      BY <2>1
    <2> HIDE DEF ok
    <2> QED
      BY <2>3, <2>4, <2>5, <2>6, HandledType
  <1>4. ASSUME NEW r \in flow[s].wire, ReadStatus(s, r) PROVE BoardType'
    <2> DEFINE ok == r.id \in DOMAIN row
               more == IF ok THEN {Req("on", r.id, ~ row[r.id].on)} ELSE {}
    <2>1. Handled(s, r, ok, more) /\ row' = row
      BY <1>4 DEF ReadStatus
    <2>2. \A q \in more : RequestOK(q)
      <3>1. ASSUME ok PROVE (~ row[r.id].on) \in BOOLEAN
        <4>1. row[r.id].on \in BOOLEAN
          BY <1>1, <3>1 DEF Table, Rows
        <4>2. \A v \in BOOLEAN : (~ v) \in BOOLEAN
          OBVIOUS
        <4> QED
          BY <4>1, <4>2
      <3>2. \A v \in BOOLEAN : RequestOK(Req("on", r.id, v))
        BY DEF RequestOK, Req
      <3> QED
        BY <3>1, <3>2
    <2>3. ok \in BOOLEAN
      OBVIOUS
    <2> HIDE DEF ok, more
    <2> QED
      BY <1>1, <2>1, <2>2, <2>3, HandledType
  <1>5. ASSUME NEW r \in flow[s].wire, WriteField(s, r) PROVE BoardType'
    <2> DEFINE ok == r.id \in DOMAIN row
    <2>1. /\ r.kind \in {"on", "name", "json"} /\ Handled(s, r, ok, {})
          /\ row' = IF ok THEN [row EXCEPT ![r.id][r.kind] = r.val] ELSE row
      BY <1>5 DEF WriteField
    <2>2. Table(row')
      BY <1>1, <1>2, <2>1, RowField DEF RequestOK
    <2>3. ok \in BOOLEAN
      OBVIOUS
    <2>5. \A q \in {} : RequestOK(q)
      OBVIOUS
    <2>6. Handled(s, r, ok, {})
      BY <2>1
    <2> HIDE DEF ok
    <2> QED
      BY <2>2, <2>3, <2>5, <2>6, HandledType
  <1>6. ASSUME NEW r \in flow[s].wire, RemoveConnect(s, r) PROVE BoardType'
    <2> DEFINE ok == r.id \in DOMAIN row
    <2>1. Handled(s, r, ok, {}) /\ row' = Restrict(row, DOMAIN row \ {r.id})
      BY <1>6 DEF RemoveConnect
    <2>2. Table(row')
      BY <1>1, <2>1 DEF Table, Restrict
    <2>3. ok \in BOOLEAN
      OBVIOUS
    <2> HIDE DEF ok
    <2> QED
      BY <2>1, <2>2, <2>3, HandledType
  <1>7. ASSUME WriteOrder(s) PROVE BoardType'
    <2> DEFINE f == flow[s]
               c == f.ids[f.at]
               last == f.at = Len(f.ids)
               g == [f EXCEPT !.at = @ + 1, !.pc = IF last THEN "load" ELSE @]
               fs == [flow EXCEPT ![s] = g]
               pg == [(IF last THEN Tangle(f.page, board[f.page]) ELSE board[f.page]) EXCEPT !.dirty = TRUE]
    <2>1. /\ f.pc = "reorder" /\ group' = group
          /\ row' = IF c \in DOMAIN row THEN [row EXCEPT ![c].order = f.at] ELSE row
          /\ flow' = Older(fs, f.page)
          /\ board' = [board EXCEPT ![f.page] = pg]
      BY <1>7 DEF WriteOrder
    <2>2. /\ FlowOK(f) /\ f.page \in Pages /\ BoardOK(board[f.page])
          /\ ColumnsKept(f, board[f.page].groups)
      BY FlowKept
    <2>3. FlowOK(g) /\ g.page = f.page /\ ColumnsKept(g, board[g.page].groups)
      BY <2>1, <2>2 DEF FlowOK, FlowFields, ColumnsKept
    <2>4. BoardOK(pg) /\ pg.groups = board[f.page].groups
      BY <2>2 DEF BoardOK, PageBase, PageFields, Tangle, Loading
    <2>5. Table(row')
      BY <1>1, <2>1, <2>2, RowField DEF FlowOK
    <2> HIDE DEF pg, g
    <2>6. /\ DOMAIN fs = DOMAIN flow
          /\ \A q \in DOMAIN flow : FlowOK(fs[q]) /\ ColumnsKept(fs[q], board[fs[q].page].groups)
      BY <2>3, FlowKept
    <2> HIDE DEF fs
    <2>7. /\ DOMAIN flow' = DOMAIN flow
          /\ \A q \in DOMAIN flow : FlowOK(flow'[q]) /\ ColumnsKept(flow'[q], board[flow'[q].page].groups)
      <3>1. DOMAIN flow' = DOMAIN flow
        BY <2>1, <2>6 DEF Older
      <3>2. ASSUME NEW q \in DOMAIN flow
            PROVE  FlowOK(flow'[q]) /\ ColumnsKept(flow'[q], board[flow'[q].page].groups)
        <4>1. /\ FlowOK(flow'[q]) /\ flow'[q].page = fs[q].page /\ flow'[q].pc = fs[q].pc
              /\ flow'[q].kind = fs[q].kind /\ flow'[q].cols = fs[q].cols
          BY <2>1, <2>6, OlderOK
        <4> QED
          BY <2>6, <4>1 DEF ColumnsKept
      <3> QED
        BY <3>1, <3>2
    <2>8. /\ DOMAIN board' = Pages
          /\ \A p \in Pages : BoardOK(board'[p]) /\ board'[p].groups = board[p].groups
      BY <2>1, <2>2, <2>4 DEF BoardType
    <2> HIDE DEF f
    <2> QED
      BY <1>1, <2>1, <2>5, <2>7, <2>8, FlowStepType
  <1>8. ASSUME AnswerLoad(s) PROVE BoardType'
    <2> DEFINE g == [flow[s] EXCEPT !.pc = "answer", !.snap = row]
    <2>1. /\ flow' = [flow EXCEPT ![s] = g]
          /\ row' = row /\ group' = group /\ board' = board
      BY <1>8 DEF AnswerLoad
    <2>2. FlowOK(g) /\ g.page = flow[s].page /\ ColumnsKept(g, board[g.page].groups)
      BY <1>1, FlowKept DEF FlowOK, FlowFields, ColumnsKept
    <2> HIDE DEF g
    <2>3. \A p \in Pages : BoardOK(board'[p])
      BY <2>1 DEF BoardType
    <2> QED
      BY <1>1, <2>1, <2>2, <2>3, FlowKept, FlowStepType DEF BoardType
  <1>9. ASSUME WriteGroupOrder(s) PROVE BoardType'
    <2> DEFINE f == flow[s]
               n == f.ids[f.at]
    <2>1. /\ f.pc = "groups" /\ row' = row /\ board' = board
          /\ group' = [group EXCEPT ![n].order = f.at - 1]
          /\ flow' = IF f.at = Len(f.ids) THEN Ended(s) ELSE [flow EXCEPT ![s].at = @ + 1]
      BY <1>9 DEF WriteGroupOrder
    <2>2. f.at - 1 \in Nat
      BY FlowKept DEF FlowOK
    <2>3. GroupTable(group')
      <3>1. ASSUME NEW m \in DOMAIN group
            PROVE  /\ group'[m] \in GroupRecord /\ group'[m].born = group[m].born
                   /\ group'[m].main = group[m].main
        <4>1. group[m] \in GroupRecord
          BY <1>1 DEF GroupTable
        <4>2. group'[m] = IF m = n THEN [group[m] EXCEPT !.order = f.at - 1] ELSE group[m]
          BY <2>1
        <4> HIDE DEF n, f
        <4> QED
          BY <2>2, <4>1, <4>2 DEF GroupRecord
      <3>2. DOMAIN group' = DOMAIN group /\ group' = [m \in DOMAIN group |-> group'[m]]
        BY <2>1
      <3> QED
        BY <1>1, <3>1, <3>2 DEF GroupTable
    <2>4. /\ DOMAIN flow' \subseteq DOMAIN flow
          /\ \A q \in DOMAIN flow' : FlowOK(flow'[q]) /\ ColumnsKept(flow'[q], board[flow'[q].page].groups)
      <3>1. CASE f.at = Len(f.ids)
        BY <2>1, <3>1, EndedOK
      <3>2. CASE f.at # Len(f.ids)
        <4> DEFINE g == [f EXCEPT !.at = @ + 1]
        <4>1. flow' = [flow EXCEPT ![s] = g]
          BY <2>1, <3>2
        <4>2. FlowOK(g) /\ g.page = f.page /\ ColumnsKept(g, board[g.page].groups)
          BY FlowKept DEF FlowOK, FlowFields, ColumnsKept
        <4> HIDE DEF g
        <4> QED
          BY <4>1, <4>2, FlowKept
      <3> QED
        BY <3>1, <3>2
    <2>5. /\ DOMAIN board' = Pages
          /\ \A p \in Pages : BoardOK(board'[p]) /\ board'[p].groups = board[p].groups
      BY <2>1 DEF BoardType
    <2> QED
      BY <1>1, <2>1, <2>3, <2>4, <2>5, FlowStepType
  <1> QED
    BY <1>3, <1>4, <1>5, <1>6, <1>7, <1>8, <1>9 DEF Server

(* The page goes on with a flow, or puts it aside.                         *)
LEMMA GoesOnType ==
    ASSUME BoardType, NEW s \in DOMAIN flow, row' = row, group' = group,
           NEW pg, BoardOK(pg), pg.groups = board[flow[s].page].groups,
           board' = [board EXCEPT ![flow[s].page] = pg],
           \/ flow' = Ended(s)
           \/ \E g : /\ flow' = [flow EXCEPT ![s] = g]
                     /\ FlowOK(g) /\ g.page = flow[s].page /\ g.pc # "patch"
    PROVE  BoardType'
  <1>1. flow[s].page \in Pages
    BY FlowKept
  <1>2. /\ DOMAIN board' = Pages
        /\ \A p \in Pages : BoardOK(board'[p]) /\ board'[p].groups = board[p].groups
    BY <1>1 DEF BoardType
  <1>3. /\ DOMAIN flow' \subseteq DOMAIN flow
        /\ \A q \in DOMAIN flow' : FlowOK(flow'[q]) /\ ColumnsKept(flow'[q], board[flow'[q].page].groups)
    <2>1. CASE flow' = Ended(s)
      BY <2>1, EndedOK
    <2>2. ASSUME NEW g, flow' = [flow EXCEPT ![s] = g],
                 FlowOK(g), g.page = flow[s].page, g.pc # "patch"
          PROVE  <1>3!1 /\ <1>3!2
      BY <2>2, FlowKept DEF ColumnsKept
    <2> QED
      BY <2>1, <2>2
  <1>4. Table(row') /\ GroupTable(group')
    BY DEF BoardType
  <1> QED
    BY <1>2, <1>3, <1>4, FlowStepType

LEMMA PatchedType ==
    ASSUME Shapes, BoardType, NEW s \in DOMAIN flow, Patched(s)
    PROVE  BoardType'
  <1> DEFINE f == flow[s]
             pg == board[f.page]
             arranged == [pg EXCEPT !.cols = f.cols,
                              !.modes = [n \in GroupNames |-> IF n \in f.panel THEN "panel" ELSE @[n]]]
             waits == [Tangle(f.page, pg) EXCEPT !.loading = TRUE,
                           !.sel = IF f.kind = "bulk" THEN {} ELSE @]
  <1>1. /\ f.pc = "patch" /\ row' = row /\ group' = group
        /\ IF f.kind = "drag"
           THEN /\ board' = [board EXCEPT ![f.page] = arranged]
                /\ flow' = [flow EXCEPT ![s] = PersistOrder(f.page, "drag", arranged)]
           ELSE /\ board' = [board EXCEPT ![f.page] = waits]
                /\ flow' = [flow EXCEPT ![s].pc = "load"]
    BY DEF Patched
  <1>2. FlowOK(f) /\ ColumnsKept(f, pg.groups) /\ f.page \in Pages /\ BoardOK(pg)
    BY FlowKept
  <1>3. CASE f.kind = "drag"
    <2>1. BoardOK(arranged) /\ arranged.groups = pg.groups
      BY <1>1, <1>2, <1>3 DEF ColumnsKept, BoardOK, PageBase, PageFields, Modes
    <2> DEFINE g == PersistOrder(f.page, "drag", arranged)
    <2>2. board' = [board EXCEPT ![f.page] = arranged] /\ flow' = [flow EXCEPT ![s] = g]
      BY <1>1, <1>3
    <2> HIDE DEF arranged
    <2>3. FlowOK(g) /\ g.page = f.page /\ g.pc # "patch"
      BY <1>2, <2>1, PersistOK
    <2> HIDE DEF g
    <2> QED
      BY <1>1, <2>1, <2>2, <2>3, GoesOnType
  <1>4. CASE f.kind # "drag"
    <2>1. BoardOK(waits) /\ waits.groups = pg.groups
      BY <1>2 DEF BoardOK, PageBase, PageFields, Tangle, Loading
    <2> DEFINE g == [f EXCEPT !.pc = "load"]
    <2>2. board' = [board EXCEPT ![f.page] = waits] /\ flow' = [flow EXCEPT ![s] = g]
      BY <1>1, <1>4
    <2> HIDE DEF waits
    <2>3. FlowOK(g) /\ g.page = f.page /\ g.pc # "patch"
      BY <1>2 DEF FlowOK, FlowFields
    <2> HIDE DEF g
    <2> QED
      BY <1>1, <2>1, <2>2, <2>3, GoesOnType
  <1> QED
    BY <1>3, <1>4

LEMMA PatchFailedType ==
    ASSUME Shapes, BoardType, NEW s \in DOMAIN flow, PatchFailed(s)
    PROVE  BoardType'
  <1> DEFINE f == flow[s]
             pg == [board[f.page] EXCEPT !.tangled = TRUE]
             g == [f EXCEPT !.pc = "load"]
  <1>1. /\ f.pc = "patch" /\ row' = row /\ group' = group
        /\ board' = [board EXCEPT ![f.page] = pg]
        /\ flow' = IF f.kind = "drag" THEN [flow EXCEPT ![s] = g] ELSE Ended(s)
    BY DEF PatchFailed
  <1>2. FlowOK(f) /\ BoardOK(board[f.page])
    BY FlowKept
  <1>3. BoardOK(pg) /\ pg.groups = board[f.page].groups
    BY <1>2 DEF BoardOK, PageBase, PageFields
  <1>4. FlowOK(g) /\ g.page = f.page /\ g.pc # "patch"
    BY <1>2 DEF FlowOK, FlowFields
  <1> HIDE DEF g, pg
  <1> QED
    BY <1>1, <1>3, <1>4, GoesOnType

LEMMA ApplyLoadType ==
    ASSUME Shapes, BoardType, NEW s \in DOMAIN flow, ApplyLoad(s)
    PROVE  BoardType'
  <1> DEFINE f == flow[s]
             base == [board[f.page] EXCEPT !.rows = f.snap, !.dirty = f.old,
                                           !.loading = @ /\ f.quiet]
             pg == Rebuild(base)
  <1>1. /\ f.pc = "answer" /\ row' = row /\ group' = group
        /\ board' = [board EXCEPT ![f.page] = pg]
        /\ flow' = Ended(s)
    BY DEF ApplyLoad
  <1>2. FlowOK(f) /\ BoardOK(board[f.page])
    BY FlowKept
  <1>3. PageBase(base) /\ base.groups = board[f.page].groups
    <2>1. Table(f.snap) /\ f.old \in BOOLEAN
      BY <1>1, <1>2 DEF FlowOK
    <2> HIDE DEF f
    <2> QED
      BY <1>2, <2>1 DEF BoardOK, PageBase, PageFields
  <1> HIDE DEF base
  <1>4. BoardOK(pg) /\ pg.groups = board[f.page].groups
    BY <1>3, RebuildType DEF PageFields
  <1> HIDE DEF pg
  <1> QED
    BY <1>1, <1>4, GoesOnType

LEMMA SelectType ==
    ASSUME Shapes, BoardType, NEW p \in Pages, NEW ids \in SUBSET DOMAIN board[p].rows,
           NEW on \in BOOLEAN, Select(p, ids, on)
    PROVE  BoardType'
  <1>1. /\ board' = [board EXCEPT ![p].sel = IF on THEN @ \cup ids ELSE @ \ ids]
        /\ row' = row /\ group' = group /\ flow' = flow
    BY DEF Select
  <1>2. ids \subseteq Connects
    BY DEF BoardType, BoardOK, PageBase, Table
  <1>3. \A q \in Pages : BoardOK(board'[q]) /\ board'[q].groups = board[q].groups
    BY <1>1, <1>2 DEF BoardType, BoardOK, PageBase, PageFields
  <1> QED
    BY <1>1, <1>3, FlowKept, FlowStepType DEF BoardType

LEMMA SetFilterType ==
    ASSUME Shapes, BoardType, NEW p \in Pages, NEW f, SetFilter(p, f)
    PROVE  BoardType'
  <1> DEFINE base == [board[p] EXCEPT !.filter = f]
             pg == Rebuild(base)
  <1>1. /\ board' = [board EXCEPT ![p] = pg]
        /\ row' = row /\ group' = group /\ flow' = flow
    BY DEF SetFilter
  <1>2. PageBase(base) /\ base.groups = board[p].groups
    BY DEF BoardType, BoardOK, PageBase, PageFields
  <1> HIDE DEF base
  <1>3. BoardOK(pg) /\ pg.groups = board[p].groups
    BY <1>2, RebuildType DEF PageFields
  <1> HIDE DEF pg
  <1>4. \A q \in Pages : BoardOK(board'[q]) /\ board'[q].groups = board[q].groups
    BY <1>1, <1>3 DEF BoardType
  <1> QED
    BY <1>1, <1>4, FlowKept, FlowStepType DEF BoardType

LEMMA SyncAddsType ==
    ASSUME Shapes, BoardType, NEW c \in Connects, SyncAdds(c)
    PROVE  BoardType'
  <1>1. PICK l \in Labels :
          row' = [d \in DOMAIN row \cup {c} |->
                    IF d \in DOMAIN row THEN row[d]
                    ELSE [order |-> 0, tags |-> {Ungrouped}, on |-> TRUE, name |-> l,
                          json |-> "feed"]]
    BY DEF SyncAdds
  <1>2. group' = group /\ flow' = flow /\ board' = board
    BY DEF SyncAdds, Elsewhere
  <1>3. Table(row')
    <2>1. [order |-> 0, tags |-> {Ungrouped}, on |-> TRUE, name |-> l, json |-> "feed"] \in Rows
      BY DEF Rows, Shapes
    <2> QED
      BY <1>1, <2>1 DEF BoardType, Table
  <1> QED
    BY <1>2, <1>3, FlowKept, FlowStepType DEF BoardType

LEMMA SyncDeletesType ==
    ASSUME Shapes, BoardType, NEW c \in Connects, SyncDeletes(c)
    PROVE  BoardType'
  <1>1. row' = Restrict(row, DOMAIN row \ {c}) /\ group' = group /\ flow' = flow /\ board' = board
    BY DEF SyncDeletes, Elsewhere
  <1>2. Table(row')
    BY <1>1 DEF BoardType, Table, Restrict
  <1> QED
    BY <1>1, <1>2, FlowKept, FlowStepType DEF BoardType

LEMMA SetMainType ==
    ASSUME Shapes, BoardType, NEW n \in GroupNames, NEW main \in BOOLEAN, SetMain(n, main)
    PROVE  BoardType'
  <1>1. /\ group' = [group EXCEPT ![n].main = main] /\ row' = row /\ flow' = flow /\ board' = board
        /\ n \in DOMAIN group \ {Ungrouped}
    BY DEF SetMain, Elsewhere
  <1>2. GroupTable(group')
    <2>1. GroupTable(group)
      BY DEF BoardType
    <2>2. ASSUME NEW m \in DOMAIN group
          PROVE  /\ group'[m] \in GroupRecord /\ group'[m].born = group[m].born
                 /\ m # n => group'[m].main = group[m].main
      <3>1. group[m] \in GroupRecord
        BY <2>1 DEF GroupTable
      <3>2. group'[m] = IF m = n THEN [group[m] EXCEPT !.main = main] ELSE group[m]
        BY <1>1
      <3> QED
        BY <3>1, <3>2 DEF GroupRecord
    <2>3. DOMAIN group' = DOMAIN group /\ group' = [m \in DOMAIN group |-> group'[m]]
      BY <1>1
    <2> QED
      BY <1>1, <2>1, <2>2, <2>3 DEF GroupTable
  <1> QED
    BY <1>1, <1>2, FlowKept, FlowStepType DEF BoardType

LEMMA ReorderGroupsType ==
    ASSUME Shapes, BoardType, NEW s \in FlowSlots, NEW p \in Pages, NEW ids \in SetToSeqs(DOMAIN group),
           ReorderGroups(s, p, ids)
    PROVE  BoardType'
  <1> DEFINE g == [NewFlow(p, "groups") EXCEPT !.pc = "groups", !.ids = ids]
  <1>1. /\ flow' = [q \in DOMAIN flow \cup {s} |-> IF q = s THEN g ELSE flow[q]]
        /\ row' = row /\ group' = group /\ board' = board
    BY DEF ReorderGroups, Elsewhere
  <1>2. \A i, j \in DOMAIN ids : ids[i] = ids[j] => i = j
    BY DEF SetToSeqs
  <1>3. FlowOK(g) /\ ColumnsKept(g, board[g.page].groups)
    BY <1>2 DEF FlowOK, FlowFields, NewFlow, ColumnsKept
  <1> HIDE DEF g
  <1>4. FlowsOK'
    BY <1>1, <1>3 DEF BoardType, FlowsOK
  <1> QED
    BY <1>1, <1>4 DEF BoardType

LEMMA BoardInitType ==
    ASSUME BoardInit
    PROVE  BoardType
  <1>1. Shapes
    BY ShapesGiven
  <1>2. Table(row)
    <2>1. /\ row = [c \in DOMAIN InitDocs |-> NormalizeLegacy(InitDocs[c])]
          /\ DOMAIN InitDocs \subseteq Connects
      BY BoardAssumption DEF BoardInit, BoardAssumption
    <2>2. ASSUME NEW c \in DOMAIN InitDocs PROVE NormalizeLegacy(InitDocs[c]) \in Rows
      <3> DEFINE d == InitDocs[c]
      <3>1. /\ d.name \in Labels /\ d.json \in {"feed", "edited"}
            /\ "order" \in DOMAIN d => d.order \in Nat
            /\ "on" \in DOMAIN d => d.on \in BOOLEAN
            /\ "tags" \in DOMAIN d => d.tags \subseteq GroupNames
        BY BoardAssumption DEF BoardAssumption
      <3> DEFINE order == IF "order" \in DOMAIN d THEN d["order"] ELSE 0
                 on == IF "on" \in DOMAIN d THEN d["on"] ELSE TRUE
                 stored == IF "tags" \in DOMAIN d THEN d["tags"] ELSE {}
                 tags == IF stored = {} THEN {Ungrouped} ELSE stored
      <3>2. order \in Nat /\ on \in BOOLEAN
        BY <3>1
      <3>3. tags \in (SUBSET GroupNames) \ {{}}
        BY <3>1, <1>1 DEF Shapes
      <3>4. NormalizeLegacy(d) = [order |-> order, on |-> on, tags |-> tags, name |-> d.name, json |-> d.json]
        BY DEF NormalizeLegacy
      <3> HIDE DEF order, on, tags, d
      <3>5. NormalizeLegacy(d) \in Rows
        BY <3>1, <3>2, <3>3, <3>4 DEF Rows
      <3> QED
        BY <3>5 DEF d
    <2> QED
      BY <2>1, <2>2 DEF Table
  <1>3. GroupTable(group)
    <2>1. GroupTable(InitGroups)
      BY BoardAssumption DEF BoardAssumption, GroupTable, GroupRecord
    <2>2. group = SortOrderBackfill(InitGroups)
      BY DEF BoardInit
    <2> DEFINE place(n) == Cardinality({m \in DOMAIN InitGroups : InitGroups[m].born < InitGroups[n].born})
    <2>3. \A n \in DOMAIN InitGroups : place(n) \in Nat
      <3>1. IsFiniteSet(DOMAIN InitGroups)
        BY <1>1, <2>1, FS_Subset DEF Shapes, GroupTable
      <3> QED
        BY <3>1, FS_Subset, FS_CardinalityType
    <2>4. \/ group = InitGroups
          \/ group = [n \in DOMAIN InitGroups |-> [InitGroups[n] EXCEPT !.order = place(n)]]
      BY <2>2 DEF SortOrderBackfill
    <2> HIDE DEF place
    <2>5. CASE group = [n \in DOMAIN InitGroups |-> [InitGroups[n] EXCEPT !.order = place(n)]]
      <3>1. ASSUME NEW m \in DOMAIN InitGroups
            PROVE  /\ group[m] \in GroupRecord /\ group[m].born = InitGroups[m].born
                   /\ group[m].main = InitGroups[m].main
        <4>1. InitGroups[m] \in GroupRecord
          BY <2>1 DEF GroupTable
        <4> QED
          BY <4>1, <2>3, <2>5 DEF GroupRecord
      <3>2. DOMAIN group = DOMAIN InitGroups /\ group = [m \in DOMAIN InitGroups |-> group[m]]
        BY <2>5
      <3> QED
        BY <2>1, <3>1, <3>2 DEF GroupTable
    <2> QED
      BY <2>1, <2>4, <2>5
  <1> DEFINE base == [rows |-> row, groups |-> group, cols |-> <<>>,
                   modes |-> [n \in GroupNames |-> "panel"], sel |-> {}, filter |-> NoFilter,
                   loading |-> FALSE, dirty |-> FALSE, tangled |-> FALSE]
  <1>4. board = [p \in Pages |-> Rebuild(base)] /\ flow = <<>>
    BY DEF BoardInit
  <1>5. PageBase(base)
    BY <1>2, <1>3 DEF PageBase, PageFields, Modes
  <1> HIDE DEF base
  <1>6. BoardOK(Rebuild(base))
    BY <1>1, <1>5, RebuildType
  <1>7. FlowsOK
    <2>1. DOMAIN flow = {}
      BY <1>4
    <2> QED
      BY <2>1 DEF FlowsOK
  <1> QED
    BY <1>2, <1>3, <1>4, <1>6, <1>7 DEF BoardType

LEMMA BoardStepType ==
    ASSUME Shapes, BoardType, [BoardNext]_(boardVars)
    PROVE  BoardType'
  <1>1. CASE UNCHANGED boardVars
    BY <1>1 DEF boardVars, BoardType, FlowsOK
  <1>2. ASSUME NEW s \in FlowSlots, NEW p \in Pages, Gesture(s, p) PROVE BoardType'
    <2>1. ASSUME NEW c \in DOMAIN board[p].rows, NEW from \in DOMAIN board[p].cols,
                 NEW to \in DOMAIN board[p].cols,
                 NEW k \in 1 .. (Len(Without(board[p].cols[to], {c})) + 1),
                 Drag(s, p, c, from, to, k)
          PROVE  BoardType'
      BY <2>1, DragType
    <2>2. ASSUME NEW key \in DOMAIN board[p].cols, NEW mode \in Modes, SortPick(s, p, key, mode)
          PROVE  BoardType'
      BY <2>2, SortPickType
    <2>3. ASSUME NEW key \in DOMAIN board[p].cols,
                 NEW ids \in SetToSeqs(Range(board[p].cols[key])), Shuffle(s, p, key, ids)
          PROVE  BoardType'
      BY <2>3, ShuffleType
    <2>4. ASSUME NEW n \in GroupNames, NEW adding \in BOOLEAN, Bulk(s, p, {n}, adding)
          PROVE  BoardType'
      BY <2>4, BulkType
    <2>5. ASSUME NEW c \in Connects,
                 \/ ChangeCard(s, p, c, "toggle", TRUE)
                 \/ \E l \in Labels : ChangeCard(s, p, c, "name", l)
                 \/ ChangeCard(s, p, c, "json", "edited")
                 \/ ChangeCard(s, p, c, "remove", TRUE)
          PROVE  BoardType'
      <3>1. CASE ChangeCard(s, p, c, "toggle", TRUE)
        BY <3>1, CardChangeType
      <3>2. ASSUME NEW l \in Labels, ChangeCard(s, p, c, "name", l) PROVE BoardType'
        BY <3>2, CardChangeType
      <3>3. CASE ChangeCard(s, p, c, "json", "edited")
        BY <3>3, CardChangeType
      <3>4. CASE ChangeCard(s, p, c, "remove", TRUE)
        BY <3>4, CardChangeType
      <3> QED
        BY <2>5, <3>1, <3>2, <3>3, <3>4
    <2>6. CASE Refresh(s, p)
      BY <2>6, RefreshType
    <2>7. CASE Open(s, p)
      BY <2>7, OpenType
    <2> QED
      BY <1>2, <2>1, <2>2, <2>3, <2>4, <2>5, <2>6, <2>7 DEF Gesture
  <1>3. ASSUME NEW s \in DOMAIN flow,
               Server(s) \/ Patched(s) \/ PatchFailed(s) \/ ApplyLoad(s)
        PROVE  BoardType'
    BY <1>3, ServerType, PatchedType, PatchFailedType, ApplyLoadType
  <1>4. ASSUME NEW p \in Pages, NEW on \in BOOLEAN, NEW ids \in SUBSET DOMAIN board[p].rows,
               Select(p, ids, on)
        PROVE  BoardType'
    BY <1>4, SelectType
  <1>5. ASSUME NEW p \in Pages, NEW f \in Filters, SetFilter(p, f) PROVE BoardType'
    BY <1>5, SetFilterType
  <1>6. ASSUME Others PROVE BoardType'
    <2>1. ASSUME NEW c \in Connects, SyncAdds(c) \/ SyncDeletes(c) PROVE BoardType'
      BY <2>1, SyncAddsType, SyncDeletesType
    <2>2. ASSUME NEW n \in GroupNames, NEW main \in BOOLEAN, SetMain(n, main) PROVE BoardType'
      BY <2>2, SetMainType
    <2>3. ASSUME NEW s \in FlowSlots, NEW p \in Pages, NEW ids \in SetToSeqs(DOMAIN group),
                 ReorderGroups(s, p, ids)
          PROVE  BoardType'
      BY <2>3, ReorderGroupsType
    <2> QED
      BY <1>6, <2>1, <2>2, <2>3 DEF Others
  <1> QED
    BY <1>1, <1>2, <1>3, <1>4, <1>5, <1>6 DEF BoardNext

LEMMA BoardTyped == BoardSpec => []BoardType
  <1>1. Shapes
    BY ShapesGiven
  <1>2. BoardInit => BoardType
    BY BoardInitType
  <1>3. BoardType /\ [BoardNext]_(boardVars) => BoardType'
    BY <1>1, BoardStepType
  <1> QED
    BY <1>2, <1>3, PTL DEF BoardSpec

(* Types of the board of connects; its pages have a column for every main  *)
(* group, and no order that is sent has a connect twice.                   *)
THEOREM BoardTypeCorrect == BoardSpec => []BoardTypeOK
  <1>1. ASSUME BoardType PROVE BoardTypeOK
    <2>1. Shapes
      BY ShapesGiven
    <2>2. \A p \in Pages : Range(Keys(board[p])) = DOMAIN board[p].cols
      BY <1>1, <2>1, KeysProperties DEF BoardType, BoardOK, PageBase, Columns
    <2>3. \A s \in DOMAIN flow : IsInjective(flow[s].ids)
      BY <1>1 DEF BoardType, FlowsOK, FlowOK, IsInjective
    <2> QED
      BY <1>1, <2>2, <2>3 DEF BoardType, FlowsOK, BoardOK, PageBase, Table, BoardTypeOK
  <1> QED
    BY <1>1, BoardTyped, PTL

-----------------------------------------------------------------------------
(* A page shows its own changes.  Unless it is tangled, at most one of its *)
(* lists is on the way; while that one is older than a change, some flow   *)
(* has its requests still to be answered and will ask for another; and a   *)
(* change not shown yet belongs to a flow that is not finished.            *)
OwnChanges(p) ==
    ~ board[p].tangled =>
        /\ \A s \in DOMAIN flow : flow[s].page = p =>
              /\ flow[s].pc # "gone"
              /\ flow[s].wire # {} => flow[s].pc = "patch"
              /\ flow[s].old => /\ flow[s].pc = "answer"
                                /\ \E t \in DOMAIN flow : /\ flow[t].page = p
                                                          /\ flow[t].pc \in {"patch", "reorder"}
        /\ \A s, t \in DOMAIN flow :
              /\ flow[s].page = p /\ flow[s].pc \in {"load", "answer"}
              /\ flow[t].page = p /\ flow[t].pc \in {"load", "answer"}
              => s = t
        /\ board[p].dirty =>
              \E s \in DOMAIN flow : /\ flow[s].page = p
                                     /\ flow[s].pc \in {"patch", "reorder", "load", "answer"}

Own == \A p \in Pages : OwnChanges(p)

LEMMA OwnElsewhere ==
    ASSUME NEW p, OwnChanges(p),
           board'[p].tangled = board[p].tangled, board'[p].dirty = board[p].dirty,
           \A s \in DOMAIN flow : flow[s].page = p => s \in DOMAIN flow' /\ flow'[s] = flow[s],
           \A s \in DOMAIN flow' : flow'[s].page = p => s \in DOMAIN flow /\ flow'[s] = flow[s]
    PROVE  OwnChanges(p)'
  BY DEF OwnChanges

LEMMA TangledOwn ==
    ASSUME NEW p, board'[p].tangled
    PROVE  OwnChanges(p)'
  BY DEF OwnChanges

LEMMA BeginOwn ==
    ASSUME BoardType, Own, NEW s, NEW p \in Pages, NEW kind, NEW pg, NEW f, NEW w,
           Begin(s, kind, p, pg, f, w), f.page = p, ~ f.old,
           f.pc \in {"patch", "reorder", "load"}, f.wire # {} => f.pc = "patch",
           pg.tangled \/ (pg.tangled = board[p].tangled /\ (f.pc = "load" => ~ Loading(p)))
    PROVE  Own'
  <1>1. /\ s \notin DOMAIN flow
        /\ flow' = [q \in DOMAIN flow \cup {s} |-> IF q = s THEN f ELSE flow[q]]
        /\ board' = [board EXCEPT ![p] = pg]
    BY DEF Begin
  <1>2. SUFFICES ASSUME NEW q \in Pages PROVE OwnChanges(q)'
    BY DEF Own
  <1>3. OwnChanges(q)
    BY DEF Own
  <1>4. CASE q # p
    BY <1>1, <1>3, <1>4, OwnElsewhere DEF BoardType
  <1>5. CASE q = p /\ pg.tangled
    <2>1. board'[q].tangled
      BY <1>1, <1>5 DEF BoardType
    <2> QED
      BY <2>1, TangledOwn
  <1>6. CASE q = p /\ ~ pg.tangled
    <2>1. board'[p] = pg /\ ~ board[p].tangled
      BY <1>1, <1>6 DEF BoardType
    <2>2. /\ DOMAIN flow' = DOMAIN flow \cup {s} /\ flow'[s] = f
          /\ \A t \in DOMAIN flow : flow'[t] = flow[t] /\ t # s
      BY <1>1
    <2>3. f.pc = "load" => \A t \in DOMAIN flow : ~ (flow[t].page = p /\ flow[t].pc \in {"load", "answer"})
      BY <1>6 DEF Loading
    <2> QED
      BY <1>3, <1>6, <2>1, <2>2, <2>3 DEF OwnChanges
  <1> QED
    BY <1>4, <1>5, <1>6

(* Steps of one flow: the others keep their place and, unless they are     *)
(* marked as old, stay as they are.                                        *)
LEMMA HandledOwn ==
    ASSUME BoardType, Own, NEW s \in DOMAIN flow, NEW r \in flow[s].wire, NEW ok \in BOOLEAN, NEW more,
           Handled(s, r, ok, more)
    PROVE  Own'
  <1> DEFINE f == [flow[s] EXCEPT !.wire = (@ \ {r}) \cup more, !.failed = @ \/ ~ ok]
             fs == [flow EXCEPT ![s] = f]
             p == flow[s].page
  <1>1. /\ flow' = IF f.pc = "gone" /\ f.wire = {} THEN Restrict(flow, DOMAIN flow \ {s})
                   ELSE IF ok /\ more = {} THEN Older(fs, f.page) ELSE fs
        /\ board' = [board EXCEPT ![f.page].dirty = @ \/ (ok /\ more = {})]
    BY DEF Handled
  <1>2. /\ DOMAIN flow[s] = FlowFields /\ p \in Pages /\ BoardOK(board[p])
    BY FlowKept
  <1>3. /\ f.page = p /\ f.pc = flow[s].pc /\ f.old = flow[s].old
    BY <1>2 DEF FlowFields
  <1>4. board' = [board EXCEPT ![p].dirty = @ \/ (ok /\ more = {})]
    BY <1>1, <1>3
  <1> HIDE DEF f
  <1>5. SUFFICES ASSUME NEW q \in Pages PROVE OwnChanges(q)'
    BY DEF Own
  <1>6. OwnChanges(q)
    BY DEF Own
  <1>7. /\ board'[q].tangled = board[q].tangled
        /\ q # p => board'[q].dirty = board[q].dirty
    BY <1>2, <1>4 DEF BoardType, BoardOK, PageBase, PageFields
  <1>8. \A t \in DOMAIN flow : FlowOK(flow[t]) /\ DOMAIN flow[t] = FlowFields
    BY FlowKept
  <1>9. CASE q # p
    <2>1. \A t \in DOMAIN flow : flow[t].page = q => t # s /\ t \in DOMAIN flow' /\ flow'[t] = flow[t]
      BY <1>1, <1>3, <1>9 DEF Restrict, Older
    <2>2. \A t \in DOMAIN flow' : flow'[t].page = q => t \in DOMAIN flow /\ flow'[t] = flow[t]
      <3>1. DOMAIN flow' \subseteq DOMAIN flow
        BY <1>1 DEF Restrict, Older
      <3>2. flow'[s].page = p \/ s \notin DOMAIN flow'
        <4>1. CASE f.pc = "gone" /\ f.wire = {}
          BY <1>1, <4>1 DEF Restrict
        <4>2. CASE ~ (f.pc = "gone" /\ f.wire = {}) /\ ~ (ok /\ more = {})
          BY <1>1, <1>3, <4>2
        <4>3. CASE ~ (f.pc = "gone" /\ f.wire = {}) /\ ok /\ more = {}
          <5>1. flow'[s] = IF f.page = p /\ f.pc = "answer" THEN [f EXCEPT !.old = TRUE] ELSE f
            BY <1>1, <1>3, <4>3 DEF Older
          <5> QED
            BY <5>1, <1>3
        <4> QED
          BY <4>1, <4>2, <4>3
      <3>3. \A t \in DOMAIN flow' : t # s => flow'[t].page = flow[t].page
        <4>1. CASE f.pc = "gone" /\ f.wire = {}
          BY <1>1, <4>1 DEF Restrict
        <4>2. CASE ~ (f.pc = "gone" /\ f.wire = {}) /\ ~ (ok /\ more = {})
          BY <1>1, <1>3, <4>2
        <4>3. CASE ~ (f.pc = "gone" /\ f.wire = {}) /\ ok /\ more = {}
          <5>1. \A t \in DOMAIN flow : t # s =>
                   flow'[t] = IF flow[t].page = p /\ flow[t].pc = "answer" THEN [flow[t] EXCEPT !.old = TRUE] ELSE flow[t]
            BY <1>1, <1>3, <4>3 DEF Older
          <5> QED
            BY <5>1, <3>1, <1>8 DEF FlowFields
        <4> QED
          BY <4>1, <4>2, <4>3
      <3> QED
        BY <1>9, <2>1, <3>1, <3>2, <3>3
    <2> QED
      BY <1>6, <1>7, <1>9, <2>1, <2>2, OwnElsewhere
  <1>10. CASE q = p /\ board[p].tangled
    BY <1>7, <1>10, TangledOwn
  <1>11. CASE q = p /\ ~ board[p].tangled
    <2>1. f.pc = "patch" /\ ~ flow[s].old
      BY <1>3, <1>6, <1>11 DEF OwnChanges
    <2>2. flow' = IF ok /\ more = {} THEN Older(fs, p) ELSE fs
      BY <1>1, <1>3, <2>1
    <2>3. /\ DOMAIN fs = DOMAIN flow /\ fs[s] = f /\ \A t \in DOMAIN flow : t # s => fs[t] = flow[t]
      OBVIOUS
    <2> HIDE DEF fs
    <2>4. /\ DOMAIN flow' = DOMAIN flow
          /\ \A t \in DOMAIN flow : /\ flow'[t].page = fs[t].page /\ flow'[t].pc = fs[t].pc
                                    /\ flow'[t].wire = fs[t].wire
                                    /\ flow'[t].old => fs[t].old \/ (fs[t].page = p /\ fs[t].pc = "answer")
      <3>1. CASE ok /\ more = {}
        <4>1. \A t \in DOMAIN flow : DOMAIN fs[t] = FlowFields
          BY <1>8, <1>2, <2>3 DEF f
        <4>2. /\ DOMAIN flow' = DOMAIN flow
              /\ \A t \in DOMAIN flow : flow'[t] = IF fs[t].page = p /\ fs[t].pc = "answer"
                                                   THEN [fs[t] EXCEPT !.old = TRUE] ELSE fs[t]
          BY <2>2, <2>3, <3>1 DEF Older
        <4> QED
          BY <4>1, <4>2 DEF FlowFields
      <3>2. CASE ~ (ok /\ more = {})
        BY <2>2, <2>3, <3>2
      <3> QED
        BY <3>1, <3>2
    <2>5. flow'[s].page = p /\ flow'[s].pc = "patch"
      BY <1>3, <2>1, <2>3, <2>4
    <2>6. \A t \in DOMAIN flow : flow'[t].page = flow[t].page /\ flow'[t].pc = flow[t].pc
      BY <1>3, <2>3, <2>4
    <2>7. \A t \in DOMAIN flow : t # s => flow'[t].wire = flow[t].wire
      BY <2>3, <2>4
    <2>8. \A t \in DOMAIN flow : flow'[t].page = p /\ flow'[t].old => flow[t].pc = "answer"
      BY <1>3, <1>6, <1>11, <2>3, <2>4 DEF OwnChanges
    <2>9. ~ board'[p].tangled
      BY <1>7, <1>11
    <2> QED
      BY <1>6, <1>11, <2>4, <2>5, <2>6, <2>7, <2>8, <2>9 DEF OwnChanges
  <1> QED
    BY <1>9, <1>10, <1>11

LEMMA EndedIs ==
    ASSUME NEW s \in DOMAIN flow
    PROVE  LET fs == Ended(s) IN
           /\ flow[s].wire = {} =>
                 DOMAIN fs = DOMAIN flow \ {s} /\ \A t \in DOMAIN fs : fs[t] = flow[t]
           /\ flow[s].wire # {} =>
                 /\ DOMAIN fs = DOMAIN flow /\ fs[s] = [flow[s] EXCEPT !.pc = "gone"]
                 /\ \A t \in DOMAIN flow : t # s => fs[t] = flow[t]
  BY DEF Ended, Restrict

(* A step that replaces or ends one flow, and touches the marks of its     *)
(* page only.                                                              *)
LEMMA OneFlowOwn ==
    ASSUME BoardType, Own, NEW s \in DOMAIN flow, NEW p, p = flow[s].page,
           \A q \in Pages \ {p} : board'[q] = board[q],
           \/ flow' = Ended(s)
           \/ \E g : g.page = p /\ flow' = [flow EXCEPT ![s] = g],
           board'[p].tangled \/ OwnChanges(p)'
    PROVE  Own'
  <1>1. DOMAIN flow[s] = FlowFields
    BY FlowKept
  <1>2. SUFFICES ASSUME NEW q \in Pages PROVE OwnChanges(q)'
    BY DEF Own
  <1>3. OwnChanges(q)
    BY DEF Own
  <1>4. CASE q = p
    BY <1>4, TangledOwn
  <1>5. CASE q # p
    <2>1. board'[q] = board[q]
      BY <1>5
    <2>2. /\ \A t \in DOMAIN flow : t # s => t \in DOMAIN flow' /\ flow'[t] = flow[t]
          /\ \A t \in DOMAIN flow' : t \in DOMAIN flow /\ (t = s => flow'[t].page = p)
      <3>1. CASE flow' = Ended(s)
        <4>1. CASE flow[s].wire = {}
          BY <3>1, <4>1, EndedIs
        <4>2. CASE flow[s].wire # {}
          <5>1. [flow[s] EXCEPT !.pc = "gone"].page = p
            BY <1>1 DEF FlowFields
          <5>2. /\ DOMAIN flow' = DOMAIN flow /\ flow'[s] = [flow[s] EXCEPT !.pc = "gone"]
                /\ \A t \in DOMAIN flow : t # s => flow'[t] = flow[t]
            BY <3>1, <4>2, EndedIs
          <5> QED
            BY <5>1, <5>2
        <4> QED
          BY <4>1, <4>2
      <3>2. ASSUME NEW g, g.page = p, flow' = [flow EXCEPT ![s] = g]
            PROVE  <2>2
        BY <3>2
      <3> QED
        BY <3>1, <3>2
    <2> QED
      BY <1>3, <1>5, <2>1, <2>2, OwnElsewhere
  <1> QED
    BY <1>4, <1>5

LEMMA WriteOrderOwn ==
    ASSUME BoardType, Own, NEW s \in DOMAIN flow, WriteOrder(s)
    PROVE  Own'
  <1> DEFINE f == flow[s]
             p == f.page
             last == f.at = Len(f.ids)
             g == [f EXCEPT !.at = @ + 1, !.pc = IF last THEN "load" ELSE @]
             fs == [flow EXCEPT ![s] = g]
             pg == [(IF last THEN Tangle(p, board[p]) ELSE board[p]) EXCEPT !.dirty = TRUE]
  <1>1. /\ f.pc = "reorder" /\ flow' = Older(fs, p)
        /\ board' = [board EXCEPT ![p] = pg]
    BY DEF WriteOrder
  <1>2. p \in Pages /\ DOMAIN f = FlowFields /\ BoardOK(board[p])
    BY FlowKept
  <1>3. /\ g.page = p /\ g.pc = (IF last THEN "load" ELSE "reorder") /\ g.wire = f.wire /\ g.old = f.old
        /\ DOMAIN g = FlowFields
    BY <1>1, <1>2 DEF FlowFields
  <1>4. /\ pg.dirty /\ pg.tangled = (board[p].tangled \/ (last /\ Loading(p)))
    BY <1>2 DEF BoardOK, PageBase, PageFields, Tangle, Loading
  <1> HIDE DEF g, pg
  <1>5. /\ DOMAIN fs = DOMAIN flow /\ fs[s] = g /\ \A t \in DOMAIN flow : t # s => fs[t] = flow[t]
    OBVIOUS
  <1> HIDE DEF fs
  <1>6. \A t \in DOMAIN flow : DOMAIN fs[t] = FlowFields /\ fs[t].page = flow[t].page
    BY <1>3, <1>5, FlowKept
  <1>7. /\ DOMAIN flow' = DOMAIN flow
        /\ \A t \in DOMAIN flow : flow'[t] = IF fs[t].page = p /\ fs[t].pc = "answer"
                                             THEN [fs[t] EXCEPT !.old = TRUE] ELSE fs[t]
    BY <1>1, <1>5 DEF Older
  <1>8. /\ \A t \in DOMAIN flow :
              /\ flow'[t].page = fs[t].page /\ flow'[t].pc = fs[t].pc /\ flow'[t].wire = fs[t].wire
              /\ flow'[t].old => fs[t].old \/ (fs[t].page = p /\ fs[t].pc = "answer")
        /\ \A t \in DOMAIN flow : flow[t].page # p => flow'[t] = flow[t]
    BY <1>3, <1>5, <1>6, <1>7 DEF FlowFields
  <1>9. SUFFICES ASSUME NEW q \in Pages PROVE OwnChanges(q)'
    BY DEF Own
  <1>10. OwnChanges(q)
    BY DEF Own
  <1>11. CASE q # p
    <2>1. board'[q] = board[q]
      BY <1>1, <1>11
    <2>2. \A t \in DOMAIN flow' : flow'[t].page = flow[t].page
      BY <1>6, <1>7, <1>8
    <2> QED
      BY <1>7, <1>8, <1>10, <1>11, <2>1, <2>2, OwnElsewhere
  <1>12. CASE q = p /\ pg.tangled
    <2>1. board'[p] = pg
      BY <1>1, <1>2 DEF BoardType
    <2> QED
      BY <1>12, <2>1, TangledOwn
  <1>13. CASE q = p /\ ~ pg.tangled
    <2>1. board'[p] = pg /\ ~ board[p].tangled
      BY <1>1, <1>2, <1>4, <1>13 DEF BoardType
    <2>2. f.wire = {} /\ ~ f.old
      BY <1>1, <1>10, <1>13, <2>1 DEF OwnChanges
    <2>3. last => \A t \in DOMAIN flow : ~ (flow[t].page = p /\ flow[t].pc \in {"load", "answer"})
      BY <1>4, <1>13 DEF Loading
    <2>4. \A t \in DOMAIN flow : /\ flow'[t].page = flow[t].page
                                 /\ t # s => flow'[t].pc = flow[t].pc /\ flow'[t].wire = flow[t].wire
      BY <1>5, <1>6, <1>8
    <2>5. flow'[s].page = p /\ flow'[s].pc = (IF last THEN "load" ELSE "reorder") /\ flow'[s].wire = {}
      BY <1>3, <1>5, <1>8, <2>2
    <2>6. \A t \in DOMAIN flow : flow'[t].page = p /\ flow'[t].old => t # s /\ flow[t].pc = "answer" /\ ~ last
      <3>1. ~ flow'[s].old
        BY <1>3, <1>5, <1>8, <2>2
      <3>2. \A t \in DOMAIN flow : t # s /\ flow'[t].page = p /\ flow'[t].old => flow[t].pc = "answer"
        BY <1>5, <1>8, <1>10, <1>13, <2>1, <2>4 DEF OwnChanges
      <3> QED
        BY <2>3, <2>4, <3>1, <3>2
    <2> HIDE DEF f, last
    <2>7. /\ \A t \in DOMAIN flow' : flow'[t].page = p =>
              /\ flow'[t].pc # "gone"
              /\ flow'[t].wire # {} => flow'[t].pc = "patch"
              /\ flow'[t].old => /\ flow'[t].pc = "answer"
                                 /\ \E u \in DOMAIN flow' : /\ flow'[u].page = p
                                                            /\ flow'[u].pc \in {"patch", "reorder"}
      <3> SUFFICES ASSUME NEW t \in DOMAIN flow, flow'[t].page = p
                   PROVE  /\ flow'[t].pc # "gone"
                          /\ flow'[t].wire # {} => flow'[t].pc = "patch"
                          /\ flow'[t].old => /\ flow'[t].pc = "answer"
                                             /\ \E u \in DOMAIN flow' : /\ flow'[u].page = p
                                                                        /\ flow'[u].pc \in {"patch", "reorder"}
        BY <1>7
      <3>1. t # s => flow'[t].pc # "gone" /\ (flow'[t].wire # {} => flow'[t].pc = "patch")
        BY <1>10, <1>13, <2>1, <2>4 DEF OwnChanges
      <3>2. t = s => flow'[t].pc # "gone" /\ flow'[t].wire = {}
        BY <2>5
      <3>3. flow'[t].old => flow'[t].pc = "answer" /\ flow'[s].pc = "reorder"
        BY <2>4, <2>5, <2>6
      <3> QED
        BY <1>7, <2>5, <3>1, <3>2, <3>3
    <2>8. \A t, u \in DOMAIN flow' :
              /\ flow'[t].page = p /\ flow'[t].pc \in {"load", "answer"}
              /\ flow'[u].page = p /\ flow'[u].pc \in {"load", "answer"}
              => t = u
      <3>1. CASE last
        BY <1>7, <2>3, <2>4, <3>1
      <3>2. CASE ~ last
        <4>1. flow'[s].pc = "reorder"
          BY <2>5, <3>2
        <4> QED
          BY <1>7, <1>10, <1>13, <2>1, <2>4, <4>1 DEF OwnChanges
      <3> QED
        BY <3>1, <3>2
    <2>9. \E t \in DOMAIN flow' : flow'[t].page = p /\ flow'[t].pc \in {"patch", "reorder", "load", "answer"}
      BY <1>7, <2>5
    <2> QED
      BY <1>13, <2>7, <2>8, <2>9 DEF OwnChanges
  <1> QED
    BY <1>11, <1>12, <1>13

LEMMA AnswerLoadOwn ==
    ASSUME BoardType, Own, NEW s \in DOMAIN flow, AnswerLoad(s)
    PROVE  Own'
  <1> PICK p : p = flow[s].page
    OBVIOUS
  <1> DEFINE g == [flow[s] EXCEPT !.pc = "answer", !.snap = row]
  <1>1. flow[s].pc = "load" /\ flow' = [flow EXCEPT ![s] = g] /\ board' = board
    BY DEF AnswerLoad
  <1>2. p \in Pages /\ DOMAIN flow[s] = FlowFields
    BY FlowKept
  <1>3. g.page = p /\ g.pc = "answer" /\ g.wire = flow[s].wire /\ g.old = flow[s].old
    BY <1>2 DEF FlowFields
  <1> HIDE DEF g
  <1>4. \A q \in Pages \ {p} : board'[q] = board[q]
    BY <1>1
  <1>5. OwnChanges(p)'
    <2>1. OwnChanges(p)
      BY <1>2 DEF Own
    <2>2. /\ DOMAIN flow' = DOMAIN flow /\ flow'[s] = g
          /\ \A t \in DOMAIN flow : t # s => flow'[t] = flow[t]
      BY <1>1
    <2>3. \A t \in DOMAIN flow : flow'[t].page = flow[t].page /\ flow'[t].old = flow[t].old
                                 /\ flow'[t].wire = flow[t].wire
      BY <1>3, <2>2
    <2>4. \A t \in DOMAIN flow : \/ flow'[t].pc = flow[t].pc
                                 \/ t = s /\ flow[t].pc = "load" /\ flow'[t].pc = "answer"
      BY <1>1, <1>3, <2>2
    <2> QED
      BY <1>1, <2>1, <2>2, <2>3, <2>4 DEF OwnChanges
  <1> QED
    BY <1>1, <1>3, <1>4, <1>5, OneFlowOwn

LEMMA WriteGroupOrderOwn ==
    ASSUME BoardType, Own, NEW s \in DOMAIN flow, WriteGroupOrder(s)
    PROVE  Own'
  <1> PICK p : p = flow[s].page
    OBVIOUS
  <1> DEFINE g == [flow[s] EXCEPT !.at = @ + 1]
  <1>1. /\ flow[s].pc = "groups" /\ board' = board
        /\ flow' = Ended(s) \/ flow' = [flow EXCEPT ![s] = g]
    BY DEF WriteGroupOrder
  <1>2. p \in Pages /\ DOMAIN flow[s] = FlowFields
    BY FlowKept
  <1>3. g.page = p /\ g.pc = flow[s].pc /\ g.wire = flow[s].wire /\ g.old = flow[s].old
    BY <1>2 DEF FlowFields
  <1> HIDE DEF g
  <1>4. \A q \in Pages \ {p} : board'[q] = board[q]
    BY <1>1
  <1>5. OwnChanges(p)'
    <2>1. OwnChanges(p)
      BY <1>2 DEF Own
    <2>2. CASE flow' = [flow EXCEPT ![s] = g]
      <3>1. /\ DOMAIN flow' = DOMAIN flow
            /\ \A t \in DOMAIN flow : /\ flow'[t].page = flow[t].page /\ flow'[t].old = flow[t].old
                                      /\ flow'[t].wire = flow[t].wire /\ flow'[t].pc = flow[t].pc
        BY <1>3, <2>2
      <3> QED
        BY <1>1, <2>1, <3>1 DEF OwnChanges
    <2>3. CASE flow' = Ended(s) /\ ~ board[p].tangled
      <3>1. flow[s].wire = {} /\ ~ flow[s].old
        BY <1>1, <2>1, <2>3 DEF OwnChanges
      <3>2. DOMAIN flow' = DOMAIN flow \ {s} /\ \A t \in DOMAIN flow' : flow'[t] = flow[t]
        BY <2>3, <3>1, EndedIs
      <3> QED
        BY <1>1, <2>1, <3>2 DEF OwnChanges
    <2>4. CASE board[p].tangled
      BY <1>1, <2>4, TangledOwn
    <2> QED
      BY <1>1, <2>2, <2>3, <2>4
  <1> QED
    BY <1>1, <1>3, <1>4, <1>5, OneFlowOwn

LEMMA PatchedOwn ==
    ASSUME BoardType, Own, NEW s \in DOMAIN flow, Patched(s)
    PROVE  Own'
  <1> PICK p : p = flow[s].page
    OBVIOUS
  <1> DEFINE f == flow[s]
             pg == board[p]
             arranged == [pg EXCEPT !.cols = f.cols,
                              !.modes = [n \in GroupNames |-> IF n \in f.panel THEN "panel" ELSE @[n]]]
             waits == [Tangle(p, pg) EXCEPT !.loading = TRUE,
                           !.sel = IF f.kind = "bulk" THEN {} ELSE @]
  <1>1. /\ f.pc = "patch" /\ f.wire = {}
        /\ IF f.kind = "drag"
           THEN /\ board' = [board EXCEPT ![p] = arranged]
                /\ flow' = [flow EXCEPT ![s] = PersistOrder(p, "drag", arranged)]
           ELSE /\ board' = [board EXCEPT ![p] = waits]
                /\ flow' = [flow EXCEPT ![s].pc = "load"]
    BY DEF Patched
  <1>2. p \in Pages /\ DOMAIN f = FlowFields /\ BoardOK(pg) /\ OwnChanges(p)
    BY FlowKept DEF Own
  <1>3. CASE f.kind = "drag"
    <2> DEFINE g == PersistOrder(p, "drag", arranged)
    <2>1. /\ g.page = p /\ g.pc = "reorder" /\ g.wire = {} /\ ~ g.old
      BY DEF PersistOrder, NewFlow
    <2>2. board' = [board EXCEPT ![p] = arranged] /\ flow' = [flow EXCEPT ![s] = g]
      BY <1>1, <1>3
    <2>3. arranged.tangled = pg.tangled /\ arranged.dirty = pg.dirty
      BY <1>2 DEF BoardOK, PageBase, PageFields
    <2> HIDE DEF arranged, g
    <2>4. OwnChanges(p)'
      <3>1. board'[p].tangled = board[p].tangled /\ board'[p].dirty = board[p].dirty
        BY <1>2, <2>2, <2>3 DEF BoardType
      <3>2. /\ DOMAIN flow' = DOMAIN flow /\ flow'[s] = g
            /\ \A t \in DOMAIN flow : t # s => flow'[t] = flow[t]
        BY <2>2
      <3> QED
        BY <1>1, <1>2, <2>1, <3>1, <3>2 DEF OwnChanges
    <2>5. \A q \in Pages \ {p} : board'[q] = board[q]
      BY <2>2
    <2> QED
      BY <2>1, <2>2, <2>4, <2>5, OneFlowOwn
  <1>4. CASE f.kind # "drag"
    <2> DEFINE g == [f EXCEPT !.pc = "load"]
    <2>1. g.page = p /\ g.pc = "load" /\ g.wire = {} /\ g.old = f.old
      BY <1>1, <1>2 DEF FlowFields
    <2>2. board' = [board EXCEPT ![p] = waits] /\ flow' = [flow EXCEPT ![s] = g]
      BY <1>1, <1>4
    <2>3. waits.tangled = (pg.tangled \/ Loading(p)) /\ waits.dirty = pg.dirty
      BY <1>2 DEF BoardOK, PageBase, PageFields, Tangle
    <2> HIDE DEF waits, g
    <2>4. ASSUME ~ waits.tangled PROVE OwnChanges(p)'
      <3>1. ~ board[p].tangled /\ board'[p].dirty = board[p].dirty
        BY <1>2, <2>2, <2>3, <2>4 DEF BoardType
      <3>2. /\ DOMAIN flow' = DOMAIN flow /\ flow'[s] = g
            /\ \A t \in DOMAIN flow : t # s => flow'[t] = flow[t]
        BY <2>2
      <3>3. \A t \in DOMAIN flow : ~ (flow[t].page = p /\ flow[t].pc \in {"load", "answer"})
        BY <2>3, <2>4 DEF Loading
      <3>4. \A t \in DOMAIN flow : flow[t].page = p => ~ flow[t].old
        BY <1>2, <3>1, <3>3 DEF OwnChanges
      <3> QED
        BY <1>1, <1>2, <2>1, <3>1, <3>2, <3>3, <3>4 DEF OwnChanges
    <2>5. board'[p] = waits /\ \A q \in Pages \ {p} : board'[q] = board[q]
      BY <1>2, <2>2 DEF BoardType
    <2> QED
      BY <2>1, <2>2, <2>4, <2>5, OneFlowOwn
  <1> QED
    BY <1>3, <1>4

LEMMA PatchFailedOwn ==
    ASSUME BoardType, Own, NEW s \in DOMAIN flow, PatchFailed(s)
    PROVE  Own'
  <1> PICK p : p = flow[s].page
    OBVIOUS
  <1> DEFINE pg == [board[p] EXCEPT !.tangled = TRUE]
             g == [flow[s] EXCEPT !.pc = "load"]
  <1>1. /\ board' = [board EXCEPT ![p] = pg]
        /\ flow' = [flow EXCEPT ![s] = g] \/ flow' = Ended(s)
    BY DEF PatchFailed
  <1>2. p \in DOMAIN board /\ pg.tangled /\ g.page = p
    BY FlowKept DEF BoardType, BoardOK, PageBase, PageFields, FlowFields
  <1> HIDE DEF pg, g
  <1>3. board'[p].tangled /\ \A q \in Pages \ {p} : board'[q] = board[q]
    BY <1>1, <1>2
  <1> QED
    BY <1>1, <1>2, <1>3, OneFlowOwn

LEMMA ApplyLoadOwn ==
    ASSUME Shapes, BoardType, Own, NEW s \in DOMAIN flow, ApplyLoad(s)
    PROVE  Own'
  <1> PICK p : p = flow[s].page
    OBVIOUS
  <1> DEFINE f == flow[s]
             base == [board[p] EXCEPT !.rows = f.snap, !.dirty = f.old,
                                      !.loading = @ /\ f.quiet]
             pg == Rebuild(base)
  <1>1. /\ f.pc = "answer" /\ flow' = Ended(s) /\ board' = [board EXCEPT ![p] = pg]
    BY DEF ApplyLoad
  <1>2. p \in Pages /\ DOMAIN f = FlowFields /\ BoardOK(board[p]) /\ FlowOK(f) /\ OwnChanges(p)
    BY FlowKept DEF Own
  <1>3. pg.tangled = board[p].tangled /\ pg.dirty = f.old
    <2>1. Table(f.snap) /\ f.old \in BOOLEAN
      BY <1>1, <1>2 DEF FlowOK
    <2>2. PageBase(base) /\ base.tangled = board[p].tangled /\ base.dirty = f.old
      <3> HIDE DEF f
      <3> QED
        BY <1>2, <2>1 DEF BoardOK, PageBase, PageFields
    <2> HIDE DEF base
    <2> QED
      BY <2>2, RebuildType DEF PageFields
  <1> HIDE DEF pg
  <1>4. ASSUME ~ pg.tangled PROVE OwnChanges(p)'
    <2>1. board'[p] = pg
      BY <1>1, <1>2 DEF BoardType
    <2>2. f.wire = {}
      BY <1>1, <1>2, <1>3, <1>4 DEF OwnChanges
    <2>3. DOMAIN flow' = DOMAIN flow \ {s} /\ \A t \in DOMAIN flow' : flow'[t] = flow[t]
      BY <1>1, <2>2, EndedIs
    <2>4. \A t \in DOMAIN flow : t # s /\ flow[t].page = p => flow[t].pc \notin {"load", "answer"} /\ ~ flow[t].old
      BY <1>1, <1>2, <1>3, <1>4 DEF OwnChanges
    <2>5. f.old => \E t \in DOMAIN flow : t # s /\ flow[t].page = p /\ flow[t].pc \in {"patch", "reorder"}
      BY <1>1, <1>2, <1>3, <1>4 DEF OwnChanges
    <2> QED
      BY <1>2, <1>3, <1>4, <2>1, <2>3, <2>4, <2>5 DEF OwnChanges
  <1>5. board'[p] = pg /\ \A q \in Pages \ {p} : board'[q] = board[q]
    BY <1>1, <1>2 DEF BoardType
  <1> QED
    BY <1>1, <1>4, <1>5, OneFlowOwn

LEMMA ServerOwn ==
    ASSUME BoardType, Own, NEW s \in DOMAIN flow, Server(s)
    PROVE  Own'
  <1>1. ASSUME NEW r \in flow[s].wire, SetConnectGroups(s, r) PROVE Own'
    <2> DEFINE ok == /\ r.id \in DOMAIN row
                     /\ Cardinality(Normalized(r.val) \cap MainsOf(group)) <= 1
    <2>1. Handled(s, r, ok, {}) /\ ok \in BOOLEAN
      BY <1>1 DEF SetConnectGroups
    <2> HIDE DEF ok
    <2> QED
      BY <2>1, HandledOwn
  <1>2. ASSUME NEW r \in flow[s].wire, ReadStatus(s, r) PROVE Own'
    <2> DEFINE ok == r.id \in DOMAIN row
               more == IF ok THEN {Req("on", r.id, ~ row[r.id].on)} ELSE {}
    <2>1. Handled(s, r, ok, more) /\ ok \in BOOLEAN
      BY <1>2 DEF ReadStatus
    <2> HIDE DEF ok, more
    <2> QED
      BY <2>1, HandledOwn
  <1>3. ASSUME NEW r \in flow[s].wire, WriteField(s, r) \/ RemoveConnect(s, r) PROVE Own'
    <2> DEFINE ok == r.id \in DOMAIN row
    <2>1. Handled(s, r, ok, {}) /\ ok \in BOOLEAN
      BY <1>3 DEF WriteField, RemoveConnect
    <2> HIDE DEF ok
    <2> QED
      BY <2>1, HandledOwn
  <1> QED
    BY <1>1, <1>2, <1>3, WriteOrderOwn, AnswerLoadOwn, WriteGroupOrderOwn DEF Server

LEMMA GestureOwn ==
    ASSUME Shapes, BoardType, Own, NEW s \in FlowSlots, NEW p \in Pages, Gesture(s, p)
    PROVE  Own'
  <1>1. BoardOK(board[p])
    BY DEF BoardType
  <1>2. ASSUME NEW kind, NEW pg, NEW f, NEW w, Begin(s, kind, p, pg, f, w),
               f.page = p, ~ f.old, f.pc = "patch" \/ (f.pc = "reorder" /\ f.wire = {}),
               pg.tangled = board[p].tangled
        PROVE  Own'
    BY <1>2, BeginOwn
  <1>3. \A kind : LET f == NewFlow(p, kind) IN
           f.page = p /\ ~ f.old /\ f.pc = "patch" /\ DOMAIN f = FlowFields
    BY DEF NewFlow, FlowFields
  <1>4. \A kind, pg : LET f == PersistOrder(p, kind, pg) IN
           f.page = p /\ ~ f.old /\ f.pc = "reorder" /\ f.wire = {}
    BY DEF PersistOrder, NewFlow
  <1>5. ASSUME NEW c \in DOMAIN board[p].rows, NEW from \in DOMAIN board[p].cols,
               NEW to \in DOMAIN board[p].cols,
               NEW k \in 1 .. (Len(Without(board[p].cols[to], {c})) + 1),
               Drag(s, p, c, from, to, k)
        PROVE  Own'
    <2> DEFINE pg == board[p]
               multi == c \in pg.sel /\ Cardinality(pg.sel) > 1 /\ pg.sel \subseteq Visible(pg)
               moved == IF multi THEN pg.sel ELSE {c}
               seen == Dropped(pg, c, from, to, k)
               cols == IF multi THEN Merged(pg, to, k) ELSE seen
               show == [pg EXCEPT !.cols = cols,
                          !.modes = [n \in GroupNames |-> IF n \in {from, to} THEN "panel" ELSE @[n]]]
               patch == [NewFlow(p, "drag") EXCEPT !.quiet = TRUE, !.cols = cols, !.panel = {from, to},
                          !.wire = {Req("tags", d, TagsFor(pg, d, to)) : d \in moved}]
    <2>1. PICK w : Begin(s, "drag", p, IF from = to THEN show ELSE pg,
                           IF from = to THEN PersistOrder(p, "drag", show) ELSE patch, w)
      BY <1>5 DEF Drag, Edited
    <2> HIDE DEF cols, moved
    <2>2. show.tangled = pg.tangled
      BY <1>1 DEF BoardOK, PageBase, PageFields
    <2>3. patch.page = p /\ ~ patch.old /\ patch.pc = "patch"
      BY <1>3 DEF FlowFields
    <2> HIDE DEF show, patch
    <2>4. CASE from = to
      <3>1. Begin(s, "drag", p, show, PersistOrder(p, "drag", show), w)
        BY <2>1, <2>4
      <3> QED
        BY <1>2, <1>4, <2>2, <3>1
    <2>5. CASE from # to
      <3>1. Begin(s, "drag", p, pg, patch, w)
        BY <2>1, <2>5
      <3> QED
        BY <1>2, <2>3, <3>1
    <2> QED
      BY <2>4, <2>5
  <1>6. ASSUME NEW key \in DOMAIN board[p].cols, NEW mode \in Modes, SortPick(s, p, key, mode)
        PROVE  Own'
    <2> DEFINE base == [board[p] EXCEPT !.modes[key] = mode]
               pg == Rebuild(base)
    <2>1. PICK w : Begin(s, "sort", p, pg, PersistOrder(p, "sort", pg), w)
      BY <1>6 DEF SortPick
    <2>2. PageBase(base) /\ base.tangled = board[p].tangled
      BY <1>1, <1>6 DEF BoardOK, PageBase, PageFields
    <2> HIDE DEF base
    <2>3. pg.tangled = board[p].tangled
      BY <2>2, RebuildType DEF PageFields
    <2> HIDE DEF pg
    <2> QED
      BY <1>2, <1>4, <2>1, <2>3
  <1>7. ASSUME NEW key \in DOMAIN board[p].cols, NEW ids, Shuffle(s, p, key, ids)
        PROVE  Own'
    <2> DEFINE pg == [board[p] EXCEPT !.cols[key] = ids, !.modes[key] = "panel"]
    <2>1. PICK w : Begin(s, "sort", p, pg, PersistOrder(p, "sort", pg), w)
      BY <1>7 DEF Shuffle
    <2>2. pg.tangled = board[p].tangled
      BY <1>1 DEF BoardOK, PageBase, PageFields
    <2> HIDE DEF pg
    <2> QED
      BY <1>2, <1>4, <2>1, <2>2
  <1>8. ASSUME NEW n \in GroupNames, NEW adding \in BOOLEAN, Bulk(s, p, {n}, adding)
        PROVE  Own'
    <2> DEFINE pg == board[p]
               wire == {Req("tags", c, BulkTags(pg, c, {n}, adding)) : c \in pg.sel}
               f == [NewFlow(p, "bulk") EXCEPT !.wire = wire]
    <2>1. PICK w : Begin(s, "bulk", p, pg, f, w)
      BY <1>8 DEF Bulk, Edited
    <2> HIDE DEF wire
    <2>2. f.page = p /\ ~ f.old /\ f.pc = "patch"
      BY <1>3 DEF FlowFields
    <2> HIDE DEF f
    <2> QED
      BY <1>2, <2>1, <2>2
  <1>9. ASSUME NEW c \in Connects, NEW what, NEW value, ChangeCard(s, p, c, what, value)
        PROVE  Own'
    <2> DEFINE f == [NewFlow(p, what) EXCEPT !.wire = {Req(what, c, value)}]
    <2>1. PICK w : Begin(s, what, p, board[p], f, w)
      BY <1>9 DEF ChangeCard, Edited
    <2>2. f.page = p /\ ~ f.old /\ f.pc = "patch"
      BY <1>3 DEF FlowFields
    <2> HIDE DEF f
    <2> QED
      BY <1>2, <2>1, <2>2
  <1>10. CASE Refresh(s, p)
    <2> DEFINE pg == Tangle(p, [board[p] EXCEPT !.loading = TRUE])
               f == [NewFlow(p, "refresh") EXCEPT !.pc = "load"]
    <2>1. Begin(s, "refresh", p, pg, f, {})
      BY <1>10 DEF Refresh
    <2>2. pg.tangled = (board[p].tangled \/ Loading(p))
      BY <1>1 DEF BoardOK, PageBase, PageFields, Tangle
    <2>3. f.page = p /\ ~ f.old /\ f.pc = "load" /\ f.wire = {}
      BY DEF NewFlow
    <2>4. pg.tangled \/ (pg.tangled = board[p].tangled /\ ~ Loading(p))
      BY <1>1, <2>2 DEF BoardOK, PageBase
    <2> HIDE DEF pg, f
    <2> QED
      BY <2>1, <2>3, <2>4, BeginOwn
  <1>11. CASE Open(s, p)
    <2> DEFINE base == [board[p] EXCEPT !.rows = <<>>, !.groups = group, !.sel = {},
                         !.filter = NoFilter, !.modes = [n \in GroupNames |-> "panel"],
                         !.loading = TRUE]
               pg == Rebuild(base)
               f == [NewFlow(p, "open") EXCEPT !.pc = "load"]
    <2>1. Begin(s, "open", p, pg, f, {}) /\ \A q \in DOMAIN flow : flow[q].page # p
      BY <1>11 DEF Open
    <2>2. PageBase(base) /\ base.tangled = board[p].tangled
      <3>1. Table(<<>>)
        BY DEF Table
      <3> QED
        BY <1>1, <3>1 DEF BoardType, BoardOK, PageBase, PageFields, Modes
    <2> HIDE DEF base
    <2>3. pg.tangled = board[p].tangled
      BY <2>2, RebuildType DEF PageFields
    <2>4. f.page = p /\ ~ f.old /\ f.pc = "load" /\ f.wire = {}
      BY DEF NewFlow
    <2>5. ~ Loading(p)
      BY <2>1 DEF Loading
    <2> HIDE DEF pg, f
    <2> QED
      BY <2>1, <2>3, <2>4, <2>5, BeginOwn
  <1> QED
    BY <1>5, <1>6, <1>7, <1>8, <1>9, <1>10, <1>11 DEF Gesture

LEMMA StepOwn ==
    ASSUME Shapes, BoardType, Own, [BoardNext]_(boardVars)
    PROVE  Own'
  <1>1. ASSUME flow' = flow, DOMAIN board' = Pages,
               \A p \in Pages : board'[p].tangled = board[p].tangled /\ board'[p].dirty = board[p].dirty
        PROVE  Own'
    BY <1>1, OwnElsewhere DEF Own
  <1>2. CASE UNCHANGED boardVars
    BY <1>1, <1>2 DEF boardVars, BoardType
  <1>3. ASSUME NEW s \in DOMAIN flow,
               Server(s) \/ Patched(s) \/ PatchFailed(s) \/ ApplyLoad(s)
        PROVE  Own'
    BY <1>3, ServerOwn, PatchedOwn, PatchFailedOwn, ApplyLoadOwn
  <1>4. ASSUME NEW p \in Pages, NEW on \in BOOLEAN, NEW ids, Select(p, ids, on) PROVE Own'
    <2>1. flow' = flow /\ board' = [board EXCEPT ![p].sel = IF on THEN @ \cup ids ELSE @ \ ids]
      BY <1>4 DEF Select
    <2>2. \A q \in Pages : board'[q].tangled = board[q].tangled /\ board'[q].dirty = board[q].dirty
      BY <2>1 DEF BoardType, BoardOK, PageBase, PageFields
    <2> QED
      BY <1>1, <2>1, <2>2 DEF BoardType
  <1>5. ASSUME NEW p \in Pages, NEW f, SetFilter(p, f) PROVE Own'
    <2> DEFINE base == [board[p] EXCEPT !.filter = f]
               pg == Rebuild(base)
    <2>1. flow' = flow /\ board' = [board EXCEPT ![p] = pg]
      BY <1>5 DEF SetFilter
    <2>2. PageBase(base) /\ base.tangled = board[p].tangled /\ base.dirty = board[p].dirty
      BY DEF BoardType, BoardOK, PageBase, PageFields
    <2> HIDE DEF base
    <2>3. pg.tangled = board[p].tangled /\ pg.dirty = board[p].dirty
      BY <2>2, RebuildType DEF PageFields
    <2> HIDE DEF pg
    <2>4. \A q \in Pages : board'[q].tangled = board[q].tangled /\ board'[q].dirty = board[q].dirty
      BY <2>1, <2>3 DEF BoardType
    <2> QED
      BY <1>1, <2>1, <2>4 DEF BoardType
  <1>6. ASSUME Others PROVE Own'
    <2>1. board' = board
      BY <1>6 DEF Others, SyncAdds, SyncDeletes, SetMain, ReorderGroups, Elsewhere
    <2>2. ASSUME NEW s \in FlowSlots, NEW p \in Pages, NEW ids, ReorderGroups(s, p, ids) PROVE Own'
      <3> DEFINE g == [NewFlow(p, "groups") EXCEPT !.pc = "groups", !.ids = ids]
      <3>1. /\ s \notin DOMAIN flow
            /\ flow' = [q \in DOMAIN flow \cup {s} |-> IF q = s THEN g ELSE flow[q]]
        BY <2>2 DEF ReorderGroups
      <3>2. g.page = p /\ g.pc = "groups" /\ g.wire = {} /\ ~ g.old
        BY DEF NewFlow
      <3> HIDE DEF g
      <3>3. /\ DOMAIN flow' = DOMAIN flow \cup {s} /\ flow'[s] = g
            /\ \A t \in DOMAIN flow : t # s /\ flow'[t] = flow[t]
        BY <3>1
      <3> SUFFICES ASSUME NEW q \in Pages PROVE OwnChanges(q)'
        BY DEF Own
      <3>4. OwnChanges(q)
        BY DEF Own
      <3> QED
        BY <2>1, <3>2, <3>3, <3>4 DEF OwnChanges
    <2>3. flow' = flow \/ \E s \in FlowSlots, p \in Pages : \E ids : ReorderGroups(s, p, ids)
      BY <1>6 DEF Others, SyncAdds, SyncDeletes, SetMain
    <2> QED
      BY <1>1, <2>1, <2>2, <2>3 DEF BoardType
  <1> QED
    BY <1>2, <1>3, <1>4, <1>5, <1>6, GestureOwn DEF BoardNext

LEMMA InitOwn ==
    ASSUME BoardInit
    PROVE  Own
  <1> DEFINE base == [rows |-> row, groups |-> group, cols |-> <<>>,
                   modes |-> [n \in GroupNames |-> "panel"], sel |-> {}, filter |-> NoFilter,
                   loading |-> FALSE, dirty |-> FALSE, tangled |-> FALSE]
  <1>1. board = [p \in Pages |-> Rebuild(base)] /\ flow = <<>>
    BY DEF BoardInit
  <1>2. BoardType /\ Shapes
    BY BoardInitType, ShapesGiven
  <1>3. PageBase(base) /\ ~ base.dirty
    BY <1>2 DEF BoardType, PageBase, PageFields, Modes
  <1> HIDE DEF base
  <1>4. ~ Rebuild(base).dirty
    BY <1>2, <1>3, RebuildType DEF PageFields
  <1>5. DOMAIN flow = {} /\ \A p \in Pages : ~ board[p].dirty
    BY <1>1, <1>4
  <1> QED
    BY <1>5 DEF Own, OwnChanges

(* A page without a flow shows all its own changes, unless two of its      *)
(* lists were on the way at once or a request failed.                      *)
THEOREM ShowsOwnChangesCorrect == BoardSpec => []ShowsOwnChanges
  <1>1. Shapes
    BY ShapesGiven
  <1>2. BoardInit => Own
    BY InitOwn
  <1>3. BoardType /\ Own /\ [BoardNext]_(boardVars) => Own'
    BY <1>1, StepOwn
  <1>4. Own => ShowsOwnChanges
    BY DEF Own, OwnChanges, ShowsOwnChanges
  <1> QED
    BY <1>2, <1>3, <1>4, BoardTyped, PTL DEF BoardSpec

-----------------------------------------------------------------------------
(* How columns are laid out: each connect where its tags put it.           *)
Lies(tbl, gs, c, key) ==
    IF key = Ungrouped THEN tbl[c].tags \cap MainsOf(gs) = {} ELSE key \in tbl[c].tags

LaidOut(tbl, gs, cols) ==
    \A key \in Shown(gs) :
        /\ \A i, j \in DOMAIN cols[key] : cols[key][i] = cols[key][j] => i = j
        /\ Range(cols[key]) = {c \in DOMAIN tbl : Lies(tbl, gs, c, key)}

(* No connect is in two main groups.                                       *)
OneMain(tbl, gs) ==
    \A c \in DOMAIN tbl : \A m, n \in tbl[c].tags \cap MainsOf(gs) : m = n

(* A sort by the mode leaves the list as it is.                            *)
Standing(tbl, ids, mode) ==
    \A i, j \in DOMAIN ids : i < j => ~ Precedes([rows |-> tbl], mode, ids[j], ids[i])

Shelved(pg) ==
    /\ LaidOut(pg.rows, pg.groups, pg.cols)
    /\ \A key \in Shown(pg.groups) : Standing(pg.rows, pg.cols[key], pg.modes[key])

LEMMA VisibleAll ==
    ASSUME Shapes, NEW pg, Table(pg.rows), pg.filter = NoFilter
    PROVE  Visible(pg) = DOMAIN pg.rows
  <1>1. /\ NoFilter.on = BOOLEAN /\ NoFilter.subs = Range(SubTitle)
        /\ NoFilter.names = Labels /\ NoFilter.tags = {}
    BY DEF NoFilter
  <1>2. ASSUME NEW c \in DOMAIN pg.rows
        PROVE  /\ pg.rows[c].on \in BOOLEAN /\ pg.rows[c].name \in Labels
               /\ SubTitle[c] \in Range(SubTitle)
    <2>1. pg.rows[c] \in Rows
      BY DEF Table
    <2>2. c \in DOMAIN SubTitle
      BY DEF Table, Shapes
    <2> QED
      BY <2>1, <2>2 DEF Rows, Range
  <1> QED
    BY <1>1, <1>2 DEF Visible

LEMMA ArrangedStands ==
    ASSUME Shapes, NEW pg, Table(pg.rows), NEW mode \in Modes, NEW ids \in Seq(DOMAIN pg.rows)
    PROVE  Standing(pg.rows, Arranged(pg, ids, mode), mode)
  <1> DEFINE ahead == SortPlaces(pg, ids, mode)
             at == Sorted(DOMAIN ids, ahead)
             r == Arranged(pg, ids, mode)
             before(i, j) == Precedes(pg, mode, ids[i], ids[j])
  <1>1. /\ Orders(DOMAIN ids, ahead)
        /\ at \in [DOMAIN ids -> DOMAIN ids]
        /\ r = [i \in DOMAIN ids |-> ids[at[i]]]
    BY ArrangedProperties
  <1>2. \A i, j \in DOMAIN ids : i < j => at[i] \in ahead[at[j]]
    <2>1. DOMAIN at = DOMAIN ids
      BY <1>1
    <2> HIDE DEF ahead
    <2> QED
      BY <1>1, <2>1, SortedProperties
  <1>3. \A i \in DOMAIN ids : ids[i] \in DOMAIN pg.rows
    BY LenProperties
  <1>4. \A i, j \in DOMAIN ids : i \in ahead[j] => before(i, j) \/ ~ before(j, i)
    BY DEF SortPlaces
  <1>5. \A i, j \in DOMAIN ids : i \in ahead[j] => ~ before(j, i)
    <2>1. \A i, j \in DOMAIN ids : before(i, j) \in BOOLEAN /\ ~ (before(i, j) /\ before(j, i))
      BY <1>3, PrecedesOrder
    <2> HIDE DEF ahead, before
    <2> QED
      BY <1>4, <2>1
  <1>6. \A c, d : Precedes([rows |-> pg.rows], mode, c, d) = Precedes(pg, mode, c, d)
    BY DEF Precedes
  <1> SUFFICES ASSUME NEW i \in DOMAIN r, NEW j \in DOMAIN r, i < j
               PROVE  ~ Precedes(pg, mode, r[j], r[i])
    BY <1>6 DEF Standing
  <1>7. i \in DOMAIN ids /\ j \in DOMAIN ids /\ r[i] = ids[at[i]] /\ r[j] = ids[at[j]]
    BY <1>1
  <1>8. at[i] \in DOMAIN ids /\ at[j] \in DOMAIN ids /\ at[i] \in ahead[at[j]]
    BY <1>1, <1>2, <1>7
  <1> HIDE DEF r, at, ahead
  <1> QED
    BY <1>5, <1>7, <1>8

LEMMA StandingArranged ==
    ASSUME Shapes, NEW pg, Table(pg.rows), NEW mode \in Modes, NEW ids \in Seq(DOMAIN pg.rows),
           Standing(pg.rows, ids, mode)
    PROVE  Arranged(pg, ids, mode) = ids
  <1> DEFINE ahead == SortPlaces(pg, ids, mode)
             n == Len(ids)
             t == [i \in 1 .. n |-> i]
             before(i, j) == Precedes(pg, mode, ids[i], ids[j])
  <1>1. n \in Nat /\ DOMAIN ids = 1 .. n /\ \A i \in DOMAIN ids : ids[i] \in DOMAIN pg.rows
    BY LenProperties
  <1>2. /\ Orders(DOMAIN ids, ahead)
        /\ Arranged(pg, ids, mode) = [i \in DOMAIN ids |-> ids[Sorted(DOMAIN ids, ahead)[i]]]
    BY ArrangedProperties
  <1>3. \A c, d : Precedes([rows |-> pg.rows], mode, c, d) = Precedes(pg, mode, c, d)
    BY DEF Precedes
  <1>4. \A i, j \in 1 .. n : i < j => i \in ahead[j]
    <2>1. \A i, j \in DOMAIN ids : i < j => ~ before(j, i)
      BY <1>3 DEF Standing
    <2>2. \A i, j \in DOMAIN ids : ~ before(j, i) /\ i < j => i \in ahead[j]
      BY DEF SortPlaces
    <2> HIDE DEF ahead, before, n
    <2> SUFFICES ASSUME NEW i \in 1 .. n, NEW j \in 1 .. n, i < j
                 PROVE  i \in ahead[j]
      OBVIOUS
    <2>3. i \in DOMAIN ids /\ j \in DOMAIN ids
      BY <1>1
    <2> QED
      BY <2>1, <2>2, <2>3
  <1>5. t = Sorted(DOMAIN ids, ahead)
    <2>1. t \in [1 .. n -> DOMAIN ids] /\ \A x \in DOMAIN ids : \E i \in 1 .. n : t[i] = x
      BY <1>1
    <2>2. \A i, j \in 1 .. n : i < j => t[i] \in ahead[t[j]]
      BY <1>4
    <2> DEFINE D == DOMAIN ids
    <2>3. n \in Nat /\ Orders(D, ahead) /\ t \in [1 .. n -> D] /\ \A x \in D : \E i \in 1 .. n : t[i] = x
      BY <1>1, <1>2, <2>1
    <2> HIDE DEF t, n, ahead, D
    <2>4. t = Sorted(D, ahead)
      BY <2>2, <2>3, SortedUnique, SMTT(40)
    <2> QED
      BY <2>4 DEF D
  <1>6. \A i \in DOMAIN ids : Sorted(DOMAIN ids, ahead)[i] = i
    BY <1>1, <1>5
  <1> HIDE DEF ahead
  <1>7. Arranged(pg, ids, mode) = [i \in DOMAIN ids |-> ids[i]]
    BY <1>2, <1>6
  <1> QED
    BY <1>7

(* What the watcher rebuilds is laid out and sorted.                       *)
LEMMA RebuiltShelved ==
    ASSUME Shapes, NEW pg, PageBase(pg), pg.filter = NoFilter
    PROVE  Shelved(Rebuild(pg))
  <1> DEFINE S == Shown(pg.groups)
             ids(key) == {c \in Visible(pg) : InColumn(pg, c, key)}
             s(key) == ByOrder(pg.rows, ids(key))
             new == Rebuild(pg)
  <1>1. Range(Keys(pg)) = S
    BY KeysProperties DEF PageBase
  <1>2. \A key \in S : new.cols[key] = Arranged(pg, s(key), pg.modes[key])
    BY <1>1 DEF Rebuild, PageBase, PageFields
  <1>3. new.rows = pg.rows /\ new.groups = pg.groups /\ new.modes = pg.modes
    BY RebuildType DEF PageFields
  <1> HIDE DEF new
  <1>4. ASSUME NEW key \in S
        PROVE  /\ ids(key) = {c \in DOMAIN pg.rows : Lies(pg.rows, pg.groups, c, key)}
               /\ pg.modes[key] \in Modes
               /\ s(key) \in Seq(DOMAIN pg.rows) /\ Range(s(key)) = ids(key)
               /\ \A i, j \in DOMAIN s(key) : s(key)[i] = s(key)[j] => i = j
    <2>1. ids(key) = {c \in DOMAIN pg.rows : Lies(pg.rows, pg.groups, c, key)}
      <3>1. Visible(pg) = DOMAIN pg.rows
        BY VisibleAll DEF PageBase
      <3> QED
        BY <3>1 DEF InColumn, Lies
    <2>2. pg.modes[key] \in Modes
      BY DEF PageBase, GroupTable, Shown
    <2>3. ids(key) \in SUBSET DOMAIN pg.rows
      BY <2>1
    <2> HIDE DEF ids
    <2>4. /\ s(key) \in Seq(ids(key)) /\ Range(s(key)) = ids(key)
          /\ \A i, j \in DOMAIN s(key) : s(key)[i] = s(key)[j] => i = j
      BY <2>3, ByOrderProperties DEF PageBase
    <2>5. s(key) \in Seq(DOMAIN pg.rows)
      BY <2>3, <2>4, SeqMonotonic
    <2> QED
      BY <2>1, <2>2, <2>4, <2>5
  <1> HIDE DEF ids, s
  <1>5. ASSUME NEW key \in S
        PROVE  /\ Standing(pg.rows, new.cols[key], pg.modes[key])
               /\ Range(new.cols[key]) = ids(key)
               /\ \A i, j \in DOMAIN new.cols[key] : new.cols[key][i] = new.cols[key][j] => i = j
    <2> DEFINE t == s(key)
               mode == pg.modes[key]
               at == Sorted(DOMAIN t, SortPlaces(pg, t, mode))
               r == Arranged(pg, t, mode)
    <2>1. t \in Seq(DOMAIN pg.rows) /\ mode \in Modes /\ Table(pg.rows)
      BY <1>4 DEF PageBase
    <2>2. Standing(pg.rows, r, mode)
      BY <2>1, ArrangedStands
    <2>3. /\ at \in [DOMAIN t -> DOMAIN t]
          /\ \A i, j \in DOMAIN t : at[i] = at[j] => i = j
          /\ r = [i \in DOMAIN t |-> t[at[i]]]
          /\ Range(r) = Range(t)
      BY <2>1, ArrangedProperties
    <2>4. \A i, j \in DOMAIN t : t[i] = t[j] => i = j
      BY <1>4
    <2> HIDE DEF at
    <2>5. \A i, j \in DOMAIN r : r[i] = r[j] => i = j
      BY <2>3, <2>4
    <2>6. new.cols[key] = r
      BY <1>2
    <2>7. Range(t) = ids(key)
      BY <1>4
    <2> HIDE DEF r, t
    <2> QED
      BY <2>2, <2>3, <2>5, <2>6, <2>7
  <1>6. \A key \in S : ids(key) = {c \in DOMAIN pg.rows : Lies(pg.rows, pg.groups, c, key)}
    BY <1>4
  <1>7. LaidOut(pg.rows, pg.groups, new.cols)
    BY <1>5, <1>6 DEF LaidOut
  <1>8. \A key \in S : Standing(pg.rows, new.cols[key], pg.modes[key])
    BY <1>5
  <1> QED
    BY <1>3, <1>7, <1>8 DEF Shelved, new

(* Columns whose cards ascend in the order stored, and which the modes     *)
(* leave as they are, are rebuilt as they were.                            *)
LEMMA RebuiltAs ==
    ASSUME Shapes, NEW pg, PageBase(pg), pg.filter = NoFilter,
           NEW cols, Columns(pg.groups, cols), LaidOut(pg.rows, pg.groups, cols),
           \A key \in Shown(pg.groups) :
              /\ Standing(pg.rows, cols[key], pg.modes[key])
              /\ \A i, j \in DOMAIN cols[key] :
                    i < j => pg.rows[cols[key][i]].order < pg.rows[cols[key][j]].order
    PROVE  Rebuild(pg).cols = cols
  <1> DEFINE S == Shown(pg.groups)
             ids(key) == {c \in Visible(pg) : InColumn(pg, c, key)}
             s(key) == ByOrder(pg.rows, ids(key))
  <1>1. Range(Keys(pg)) = S
    BY KeysProperties DEF PageBase
  <1>2. Rebuild(pg).cols = [key \in S |-> Arranged(pg, s(key), pg.modes[key])]
    BY <1>1 DEF Rebuild, PageBase, PageFields
  <1>3. ASSUME NEW key \in S PROVE Arranged(pg, s(key), pg.modes[key]) = cols[key]
    <2> DEFINE t == cols[key]
               T == ids(key)
               ahead == [b \in T |-> {a \in T : \/ pg.rows[a].order < pg.rows[b].order
                                                \/ pg.rows[a].order = pg.rows[b].order /\ a > b}]
    <2>1. T = Range(t) /\ T \in SUBSET DOMAIN pg.rows
      <3>1. Visible(pg) = DOMAIN pg.rows
        BY VisibleAll DEF PageBase
      <3> QED
        BY <3>1 DEF InColumn, Lies, LaidOut
    <2>2. t \in Seq(Connects)
      BY DEF Columns
    <2>3. s(key) = ByOrder(pg.rows, T)
      OBVIOUS
    <2> HIDE DEF T, s
    <2>3a. Orders(T, ahead) /\ ByOrder(pg.rows, T) = Sorted(T, ahead)
      BY <2>1, ByOrderProperties DEF PageBase
    <2>4. Len(t) \in Nat /\ DOMAIN t = 1 .. Len(t) /\ \A i \in DOMAIN t : t[i] \in T
      <3>1. Len(t) \in Nat /\ DOMAIN t = 1 .. Len(t)
        BY <2>2, LenProperties
      <3> HIDE DEF t
      <3> QED
        BY <3>1, <2>1 DEF Range
    <2>5. \A i, j \in DOMAIN t : i < j => t[i] \in ahead[t[j]]
      BY <2>4
    <2>6. \A x \in T : \E i \in DOMAIN t : t[i] = x
      <3> HIDE DEF t
      <3> QED
        BY <2>1 DEF Range
    <2>7. t \in [1 .. Len(t) -> T]
      <3>1. t \in [1 .. Len(t) -> Connects]
        BY <2>2, LenProperties
      <3> HIDE DEF t
      <3> QED
        BY <2>4, <3>1
    <2> HIDE DEF ahead
    <2>8. t = Sorted(T, ahead)
      <3> HIDE DEF t
      <3> QED
        BY <2>3a, <2>4, <2>5, <2>6, <2>7, SortedUnique
    <2>9. t \in Seq(DOMAIN pg.rows)
      <3> HIDE DEF t
      <3>1. t \in Seq(T)
        BY <2>4, <2>7, SeqDef
      <3> QED
        BY <2>1, <3>1, SeqMonotonic
    <2>10. pg.modes[key] \in Modes /\ Table(pg.rows) /\ Standing(pg.rows, t, pg.modes[key])
      BY DEF PageBase, GroupTable, Shown
    <2>11. Arranged(pg, t, pg.modes[key]) = t
      <3> HIDE DEF t
      <3> QED
        BY <2>9, <2>10, StandingArranged
    <2> QED
      BY <2>3, <2>3a, <2>8, <2>11
  <1>4. cols = [key \in S |-> cols[key]]
    BY DEF Columns
  <1> HIDE DEF s, S
  <1> QED
    BY <1>2, <1>3, <1>4

(* A connect lies in exactly one column.                                   *)
LEMMA LiesOnce ==
    ASSUME NEW tbl, NEW gs, GroupTable(gs), OneMain(tbl, gs), NEW c \in DOMAIN tbl
    PROVE  /\ \A m, n \in Shown(gs) : Lies(tbl, gs, c, m) /\ Lies(tbl, gs, c, n) => m = n
           /\ \E n \in Shown(gs) : Lies(tbl, gs, c, n)
  <1>1. MainsOf(gs) = Shown(gs) \ {Ungrouped} /\ Ungrouped \in Shown(gs)
    BY DEF MainsOf, Shown, GroupTable
  <1>2. \A m, n \in tbl[c].tags \cap MainsOf(gs) : m = n
    BY DEF OneMain
  <1> QED
    BY <1>1, <1>2 DEF Lies

(* Cards that are laid out, one after another: every connect once, and     *)
(* those of a column in its order.                                         *)
InTurn(ids, s) ==
    \A i, j \in DOMAIN s : i < j =>
        \E a, b \in DOMAIN ids : a < b /\ ids[a] = s[i] /\ ids[b] = s[j]

LEMMA CardsInTurn ==
    ASSUME Shapes, NEW pg, GroupTable(pg.groups), Columns(pg.groups, pg.cols),
           NEW tbl, LaidOut(tbl, pg.groups, pg.cols), OneMain(tbl, pg.groups)
    PROVE  LET ids == Cards(pg) IN
           /\ ids \in Seq(Connects)
           /\ \A i, j \in DOMAIN ids : ids[i] = ids[j] => i = j
           /\ Range(ids) = DOMAIN tbl
           /\ \A key \in Shown(pg.groups) : InTurn(ids, pg.cols[key])
  <1> DEFINE S == Shown(pg.groups)
             ks == Keys(pg)
             lists == [k \in DOMAIN ks |-> pg.cols[ks[k]]]
             ids == Cards(pg)
  <1>1. /\ ids = Joined(lists) /\ lists \in [1 .. Len(ks) -> Seq(Connects)]
        /\ Len(ks) \in Nat /\ DOMAIN ks = 1 .. Len(ks)
        /\ ids \in Seq(Connects)
        /\ Range(ids) = UNION {Range(pg.cols[k]) : k \in S}
    BY CardsProperties
  <1>2. /\ ks \in Seq(S) /\ Range(ks) = S
        /\ \A k, l \in DOMAIN ks : ks[k] = ks[l] => k = l
    BY KeysProperties
  <1>3. \A k \in DOMAIN ks : ks[k] \in S /\ lists[k] = pg.cols[ks[k]]
    BY <1>2, LenProperties
  <1>4. PICK at : JoinedBy(lists, at)
    BY <1>1, JoinedPlaces
  <1> DEFINE P == Places(lists)
             n == Cardinality(P)
  <1>5. /\ n \in Nat /\ at \in [1 .. n -> P]
        /\ \A i, j \in 1 .. n : i < j => Earlier(at[i], at[j])
        /\ \A x \in P : \E i \in 1 .. n : at[i] = x
        /\ ids = [i \in 1 .. n |-> lists[at[i][1]][at[i][2]]]
    BY <1>1, <1>4 DEF JoinedBy
  <1>6. DOMAIN lists = DOMAIN ks
    OBVIOUS
  <1>7. \A x \in P : \E k \in DOMAIN ks : \E i \in DOMAIN lists[k] : x = <<k, i>>
    BY <1>6 DEF Places
  <1>8. \A k \in DOMAIN ks : \A i \in DOMAIN lists[k] : <<k, i>> \in P
    BY <1>6 DEF Places
  <1>9. \A k \in DOMAIN ks : \A i \in DOMAIN lists[k] : k \in Nat /\ i \in Nat
    <2>1. \A k \in DOMAIN ks : lists[k] \in Seq(Connects)
      BY <1>1
    <2> HIDE DEF lists, ks
    <2> QED
      BY <1>1, <2>1, LenProperties
  <1> HIDE DEF P, n, ids, lists, ks
  <1>10. \A x \in P : ~ Earlier(x, x)
    BY <1>7, <1>9 DEF Earlier
  <1>11. \A i, j \in 1 .. n : at[i] = at[j] => i = j
    <2>1. \A i, j \in 1 .. n : i # j => i < j \/ j < i
      BY <1>5
    <2>2. \A i \in 1 .. n : at[i] \in P
      BY <1>5
    <2> QED
      BY <1>5, <1>10, <2>1, <2>2
  <1>12. \A k \in DOMAIN ks : /\ Range(lists[k]) = {c \in DOMAIN tbl : Lies(tbl, pg.groups, c, ks[k])}
                              /\ \A i, j \in DOMAIN lists[k] : lists[k][i] = lists[k][j] => i = j
    BY <1>3 DEF LaidOut
  <1>13. ASSUME NEW i \in DOMAIN ids, NEW j \in DOMAIN ids, ids[i] = ids[j] PROVE i = j
    <2>1. i \in 1 .. n /\ j \in 1 .. n /\ at[i] \in P /\ at[j] \in P
      BY <1>5
    <2>2. PICK k \in DOMAIN ks : \E x \in DOMAIN lists[k] : at[i] = <<k, x>>
      BY <1>7, <2>1
    <2>3. PICK x \in DOMAIN lists[k] : at[i] = <<k, x>>
      BY <2>2
    <2>4. PICK l \in DOMAIN ks : \E y \in DOMAIN lists[l] : at[j] = <<l, y>>
      BY <1>7, <2>1
    <2>5. PICK y \in DOMAIN lists[l] : at[j] = <<l, y>>
      BY <2>4
    <2>6. lists[k][x] = lists[l][y]
      BY <1>5, <1>13, <2>1, <2>3, <2>5
    <2> DEFINE c == lists[k][x]
    <2>7. c \in Range(lists[k]) /\ c \in Range(lists[l])
      BY <2>6 DEF Range
    <2>8. c \in DOMAIN tbl /\ Lies(tbl, pg.groups, c, ks[k]) /\ Lies(tbl, pg.groups, c, ks[l])
      BY <1>12, <2>7
    <2>9. k = l
      <3> HIDE DEF c
      <3>1. ks[k] = ks[l]
        BY <1>3, <2>8, LiesOnce
      <3> QED
        BY <1>2, <3>1
    <2>10. x = y
      BY <1>12, <2>6, <2>9
    <2> QED
      BY <1>11, <2>1, <2>3, <2>5, <2>9, <2>10
  <1>14. Range(ids) = DOMAIN tbl
    <2>1. \A k \in S : Range(pg.cols[k]) = {c \in DOMAIN tbl : Lies(tbl, pg.groups, c, k)}
      BY DEF LaidOut
    <2>2. \A c \in DOMAIN tbl : \E k \in S : Lies(tbl, pg.groups, c, k)
      BY LiesOnce
    <2>3. \A c : c \in Range(ids) <=> \E k \in S : c \in Range(pg.cols[k])
      BY <1>1
    <2> HIDE DEF S
    <2>4. \A c : c \in Range(ids) <=> c \in DOMAIN tbl
      BY <2>1, <2>2, <2>3
    <2> QED
      BY <2>4
  <1>15. ASSUME NEW key \in S PROVE InTurn(ids, pg.cols[key])
    <2>1. PICK k \in DOMAIN ks : ks[k] = key
      BY <1>2 DEF Range
    <2>2. lists[k] = pg.cols[key]
      BY <1>3, <2>1
    <2> SUFFICES ASSUME NEW i \in DOMAIN lists[k], NEW j \in DOMAIN lists[k], i < j
                 PROVE  \E a, b \in DOMAIN ids : a < b /\ ids[a] = lists[k][i] /\ ids[b] = lists[k][j]
      BY <2>2 DEF InTurn
    <2>3. PICK a \in 1 .. n : at[a] = <<k, i>>
      BY <1>5, <1>8
    <2>4. PICK b \in 1 .. n : at[b] = <<k, j>>
      BY <1>5, <1>8
    <2>5. i \in Nat /\ j \in Nat /\ k \in Nat
      BY <1>9
    <2>6. ~ Earlier(at[b], at[a]) /\ a # b
      BY <2>3, <2>4, <2>5 DEF Earlier
    <2>7. a < b
      BY <1>5, <2>6
    <2>8. a \in DOMAIN ids /\ b \in DOMAIN ids /\ ids[a] = lists[k][i] /\ ids[b] = lists[k][j]
      BY <1>5, <2>3, <2>4
    <2> QED
      BY <2>7, <2>8
  <1> QED
    BY <1>1, <1>13, <1>14, <1>15 DEF ids

(* The order sent is that of the cards.                                    *)
LEMMA AllIdsInTurn ==
    ASSUME Shapes, NEW pg, Table(pg.rows), GroupTable(pg.groups), Columns(pg.groups, pg.cols),
           NEW tbl, DOMAIN tbl = DOMAIN pg.rows,
           LaidOut(tbl, pg.groups, pg.cols), OneMain(tbl, pg.groups)
    PROVE  LET ids == AllIds(pg) IN
           /\ ids \in Seq(Connects)
           /\ \A i, j \in DOMAIN ids : ids[i] = ids[j] => i = j
           /\ Range(ids) = DOMAIN tbl
           /\ \A key \in Shown(pg.groups) : InTurn(ids, pg.cols[key])
  <1> DEFINE s == Cards(pg)
             id == [c \in Connects |-> c]
             rest == IF Len(s) # Cardinality(DOMAIN pg.rows)
                     THEN ByOrder(pg.rows, DOMAIN pg.rows \ Range(s)) ELSE <<>>
  <1>1. /\ s \in Seq(Connects)
        /\ \A i, j \in DOMAIN s : s[i] = s[j] => i = j
        /\ Range(s) = DOMAIN tbl
        /\ \A key \in Shown(pg.groups) : InTurn(s, pg.cols[key])
    BY CardsInTurn
  <1>2. AllIds(pg) = Firsts(s \o rest, id) /\ rest \in Seq(Connects)
    BY AllIdsOnce
  <1>3. DOMAIN rest = {}
    <2>1. DOMAIN pg.rows \ Range(s) = {}
      BY <1>1
    <2>2. ByOrder(pg.rows, {}) \in Seq({})
      BY ByOrderProperties
    <2>3. DOMAIN ByOrder(pg.rows, {}) = {}
      <3> DEFINE e == ByOrder(pg.rows, {})
      <3>1. \A i \in DOMAIN e : e[i] \in {}
        BY <2>2, LenProperties
      <3>2. \A i : i \notin DOMAIN e
        BY <3>1
      <3>3. DOMAIN e = {}
        <4> HIDE DEF e
        <4> QED
          BY <3>2
      <3> QED
        BY <3>3
    <2>4. DOMAIN << >> = {}
      OBVIOUS
    <2> HIDE DEF s
    <2> QED
      BY <2>1, <2>3, <2>4
  <1> HIDE DEF s, rest
  <1>4. \A i \in DOMAIN s : s[i] \in Connects /\ id[s[i]] = s[i]
    BY <1>1, LenProperties
  <1>5. Free(s, id)
    BY <1>1, <1>4 DEF Free
  <1> HIDE DEF id
  <1>6. Firsts(s \o rest, id) = s
    <2>1. \A i \in DOMAIN rest : \E j \in DOMAIN s : id[s[j]] = id[rest[i]]
      BY <1>3
    <2> QED
      BY <1>1, <1>2, <1>5, <2>1, FirstsOfConcat
  <1> QED
    BY <1>1, <1>2, <1>6

(* A list without some of its cards keeps the order of the others.         *)
LEMMA WithoutStands ==
    ASSUME NEW E, NEW ids \in Seq(E), NEW S, NEW tbl, NEW mode, Standing(tbl, ids, mode)
    PROVE  Standing(tbl, Without(ids, S), mode)
  <1> DEFINE P == {i \in DOMAIN ids : ids[i] \in Range(ids) \ S}
             r == Without(ids, S)
             n == Cardinality(P)
  <1>1. r = Kept(ids, P)
    BY DEF Without, Those
  <1>2. P \in SUBSET DOMAIN ids
    OBVIOUS
  <1> HIDE DEF P
  <1>3. PICK at : KeptBy(ids, P, at)
    BY <1>2, KeptPlaces
  <1>4. /\ n \in Nat /\ at \in [1 .. n -> P]
        /\ \A i, j \in 1 .. n : i < j => at[i] < at[j]
        /\ r = [k \in 1 .. n |-> ids[at[k]]]
    BY <1>1, <1>3 DEF KeptBy
  <1> HIDE DEF r, n
  <1> SUFFICES ASSUME NEW i \in DOMAIN r, NEW j \in DOMAIN r, i < j
               PROVE  ~ Precedes([rows |-> tbl], mode, r[j], r[i])
    BY DEF Standing, r
  <1>5. /\ i \in 1 .. n /\ j \in 1 .. n /\ r[i] = ids[at[i]] /\ r[j] = ids[at[j]]
        /\ at[i] < at[j]
    BY <1>4
  <1>6. at[i] \in DOMAIN ids /\ at[j] \in DOMAIN ids
    BY <1>2, <1>4, <1>5
  <1> QED
    BY <1>5, <1>6 DEF Standing

(* A list cut at a place, with others put in there.                        *)
Spliced(s, k, mid) == SubSeq(s, 1, k - 1) \o mid \o SubSeq(s, k, Len(s))

LEMMA CutList ==
    ASSUME NEW E, NEW s \in Seq(E), NEW k \in 1 .. Len(s) + 1
    PROVE  LET a == SubSeq(s, 1, k - 1)
               b == SubSeq(s, k, Len(s))
           IN
           /\ a \in Seq(E) /\ Len(a) = k - 1 /\ \A i \in 1 .. k - 1 : a[i] = s[i]
           /\ b \in Seq(E) /\ Len(b) = Len(s) - k + 1
           /\ \A i \in 1 .. Len(s) - k + 1 : b[i] = s[k + i - 1]
  <1>1. Len(s) \in Nat /\ \A i \in 1 .. Len(s) : s[i] \in E
    BY LenProperties
  <1>2. \A i \in 1 .. k - 1 : s[i] \in E
    BY <1>1
  <1>3. \A i \in k .. Len(s) : s[i] \in E
    BY <1>1
  <1> DEFINE a == SubSeq(s, 1, k - 1)
             b == SubSeq(s, k, Len(s))
  <1>4. /\ a \in Seq(E) /\ Len(a) = IF 1 <= k - 1 THEN k - 1 - 1 + 1 ELSE 0
        /\ \A i \in 1 .. k - 1 - 1 + 1 : a[i] = s[1 + i - 1]
    <2> HIDE DEF a
    <2>1. a = SubSeq(s, 1, k - 1) /\ 1 \in Int /\ k - 1 \in Int
      BY DEF a
    <2> QED
      BY <1>2, <2>1, SubSeqProperties
  <1>5. /\ b \in Seq(E) /\ Len(b) = IF k <= Len(s) THEN Len(s) - k + 1 ELSE 0
        /\ \A i \in 1 .. Len(s) - k + 1 : b[i] = s[k + i - 1]
    <2> HIDE DEF b
    <2>1. b = SubSeq(s, k, Len(s)) /\ k \in Int /\ Len(s) \in Int
      BY <1>1 DEF b
    <2> QED
      BY <1>3, <2>1, SubSeqProperties
  <1> HIDE DEF a, b
  <1>6. Len(a) = k - 1 /\ \A i \in 1 .. k - 1 : a[i] = s[i]
    BY <1>1, <1>4
  <1>7. Len(b) = Len(s) - k + 1
    BY <1>1, <1>5
  <1> QED
    BY <1>4, <1>5, <1>6, <1>7 DEF a, b

LEMMA SplicedProperties ==
    ASSUME NEW E, NEW s \in Seq(E), NEW mid \in Seq(E), NEW k \in 1 .. Len(s) + 1,
           \A i, j \in DOMAIN s : s[i] = s[j] => i = j,
           \A i, j \in DOMAIN mid : mid[i] = mid[j] => i = j,
           Range(s) \cap Range(mid) = {}
    PROVE  LET r == Spliced(s, k, mid) IN
           /\ r \in Seq(E) /\ Range(r) = Range(s) \cup Range(mid)
           /\ \A i, j \in DOMAIN r : r[i] = r[j] => i = j
  <1> DEFINE a == SubSeq(s, 1, k - 1)
             b == SubSeq(s, k, Len(s))
             am == a \o mid
             r == am \o b
             n == Len(s)
             m == Len(mid)
  <1>1. n \in Nat /\ DOMAIN s = 1 .. n /\ m \in Nat /\ DOMAIN mid = 1 .. m /\ k \in Nat /\ 1 <= k /\ k <= n + 1
    BY LenProperties
  <1>2. /\ a \in Seq(E) /\ Len(a) = k - 1 /\ \A i \in 1 .. k - 1 : a[i] = s[i]
        /\ b \in Seq(E) /\ Len(b) = n - k + 1
        /\ \A i \in 1 .. n - k + 1 : b[i] = s[k + i - 1]
    BY CutList
  <1> HIDE DEF a, b, n, m
  <1>3. /\ am \in Seq(E) /\ Len(am) = k - 1 + m
        /\ \A i \in 1 .. k - 1 + m : am[i] = IF i <= k - 1 THEN a[i] ELSE mid[i - (k - 1)]
    <2>1. a \in Seq(E) /\ Len(mid) = m
      BY <1>2 DEF m
    <2>2. /\ am \in Seq(E) /\ Len(am) = Len(a) + Len(mid)
          /\ \A i \in 1 .. Len(a) + Len(mid) : am[i] = IF i <= Len(a) THEN a[i] ELSE mid[i - Len(a)]
      <3>1. a \in Seq(E) /\ mid \in Seq(E)
        BY <2>1
      <3> QED
        BY <3>1, ConcatProperties
    <2>3. Len(a) = k - 1
      BY <1>2
    <2> HIDE DEF am
    <2> QED
      BY <2>1, <2>2, <2>3
  <1> HIDE DEF am
  <1>4. /\ r \in Seq(E) /\ Len(r) = n + m
        /\ \A i \in 1 .. n + m : r[i] = IF i <= k - 1 + m THEN am[i] ELSE b[i - (k - 1 + m)]
    <2>1. /\ r \in Seq(E) /\ Len(r) = Len(am) + Len(b)
          /\ \A i \in 1 .. Len(am) + Len(b) : r[i] = IF i <= Len(am) THEN am[i] ELSE b[i - Len(am)]
      <3>1. am \in Seq(E) /\ b \in Seq(E)
        BY <1>2, <1>3
      <3> QED
        BY <3>1, ConcatProperties
    <2>2. Len(am) + Len(b) = n + m
      BY <1>1, <1>2, <1>3
    <2> HIDE DEF r
    <2> QED
      BY <1>3, <2>1, <2>2
  <1>5. DOMAIN r = 1 .. n + m
    BY <1>4, LenProperties
  <1> HIDE DEF r
  <1>6. \A i \in 1 .. n + m :
            /\ i <= k - 1 => i \in DOMAIN s /\ r[i] = s[i]
            /\ i > k - 1 /\ i <= k - 1 + m => i - (k - 1) \in DOMAIN mid /\ r[i] = mid[i - (k - 1)]
            /\ i > k - 1 + m => i - m \in DOMAIN s /\ i - m >= k /\ r[i] = s[i - m]
    <2> SUFFICES ASSUME NEW i \in 1 .. n + m
                 PROVE  /\ i <= k - 1 => i \in DOMAIN s /\ r[i] = s[i]
                        /\ i > k - 1 /\ i <= k - 1 + m
                             => i - (k - 1) \in DOMAIN mid /\ r[i] = mid[i - (k - 1)]
                        /\ i > k - 1 + m => i - m \in DOMAIN s /\ i - m >= k /\ r[i] = s[i - m]
      OBVIOUS
    <2>1. CASE i <= k - 1
      <3>1. i \in 1 .. k - 1 /\ i \in 1 .. k - 1 + m /\ i <= k - 1 + m /\ i \in 1 .. n
        BY <1>1, <2>1
      <3>2. r[i] = am[i] /\ am[i] = a[i] /\ a[i] = s[i]
        BY <1>2, <1>3, <1>4, <2>1, <3>1
      <3> QED
        BY <1>1, <2>1, <3>1, <3>2
    <2>2. CASE i > k - 1 /\ i <= k - 1 + m
      <3>1. i \in 1 .. k - 1 + m /\ i - (k - 1) \in 1 .. m /\ ~ i <= k - 1
        BY <1>1, <2>2
      <3>2. r[i] = am[i] /\ am[i] = mid[i - (k - 1)]
        BY <1>3, <1>4, <2>2, <3>1
      <3> QED
        BY <1>1, <2>2, <3>1, <3>2
    <2>3. CASE i > k - 1 + m
      <3>1. i - (k - 1 + m) \in 1 .. n - k + 1 /\ k + (i - (k - 1 + m)) - 1 = i - m
        BY <1>1, <2>3
      <3>2. r[i] = b[i - (k - 1 + m)]
        BY <1>1, <1>4, <2>3
      <3>3. r[i] = s[i - m]
        BY <1>2, <3>1, <3>2
      <3> QED
        BY <1>1, <2>3, <3>3
    <2> QED
      BY <1>1, <2>1, <2>2, <2>3
  <1>7. \A i \in DOMAIN s : \E j \in DOMAIN r : r[j] = s[i]
    <2> SUFFICES ASSUME NEW i \in DOMAIN s PROVE \E j \in DOMAIN r : r[j] = s[i]
      OBVIOUS
    <2>1. CASE i <= k - 1
      BY <1>1, <1>5, <1>6, <2>1
    <2>2. CASE i > k - 1
      <3>1. i + m \in 1 .. n + m /\ i + m > k - 1 + m /\ (i + m) - m = i
        BY <1>1, <2>2
      <3>2. r[i + m] = s[(i + m) - m]
        BY <1>6, <3>1
      <3> QED
        BY <1>5, <3>1, <3>2
    <2> QED
      BY <1>1, <2>1, <2>2
  <1>8. \A i \in DOMAIN mid : \E j \in DOMAIN r : r[j] = mid[i]
    <2> SUFFICES ASSUME NEW i \in DOMAIN mid PROVE \E j \in DOMAIN r : r[j] = mid[i]
      OBVIOUS
    <2>1. /\ i + (k - 1) \in 1 .. n + m /\ i + (k - 1) > k - 1 /\ i + (k - 1) <= k - 1 + m
          /\ i + (k - 1) - (k - 1) = i
      BY <1>1
    <2>2. r[i + (k - 1)] = mid[i + (k - 1) - (k - 1)]
      BY <1>6, <2>1
    <2> QED
      BY <1>5, <2>1, <2>2
  <1>9. \A i \in DOMAIN r : (\E j \in DOMAIN s : r[i] = s[j]) \/ (\E j \in DOMAIN mid : r[i] = mid[j])
    <2> SUFFICES ASSUME NEW i \in DOMAIN r
                 PROVE  (\E j \in DOMAIN s : r[i] = s[j]) \/ (\E j \in DOMAIN mid : r[i] = mid[j])
      OBVIOUS
    <2>1. i \in 1 .. n + m /\ i \in Int
      BY <1>1, <1>5
    <2>2. i <= k - 1 \/ (i > k - 1 /\ i <= k - 1 + m) \/ i > k - 1 + m
      BY <1>1, <2>1
    <2> QED
      BY <1>6, <2>1, <2>2
  <1>10. Range(r) = Range(s) \cup Range(mid)
    <2>1. \A x : x \in Range(r) <=> x \in Range(s) \/ x \in Range(mid)
      BY <1>7, <1>8, <1>9 DEF Range
    <2> QED
      BY <2>1
  <1>11. ASSUME NEW i \in DOMAIN r, NEW j \in DOMAIN r, r[i] = r[j] PROVE i = j
    <2> DEFINE low(x)  == x <= k - 1
               in(x)   == x > k - 1 /\ x <= k - 1 + m
               high(x) == x > k - 1 + m
    <2>1. i \in 1 .. n + m /\ j \in 1 .. n + m /\ i \in Int /\ j \in Int /\ k \in Int /\ m \in Int
      BY <1>1, <1>5
    <2>2. (low(i) \/ in(i) \/ high(i)) /\ (low(j) \/ in(j) \/ high(j))
      BY <2>1
    <2>3. \A x \in DOMAIN s, y \in DOMAIN mid : s[x] # mid[y]
      BY DEF Range
    <2>4. CASE in(i) \/ in(j)
      <3>1. in(i) /\ in(j)
        BY <1>6, <1>11, <2>1, <2>2, <2>3, <2>4
      <3>2. /\ i - (k - 1) \in DOMAIN mid /\ j - (k - 1) \in DOMAIN mid
            /\ mid[i - (k - 1)] = mid[j - (k - 1)]
        BY <1>6, <1>11, <2>1, <3>1
      <3>3. i - (k - 1) = j - (k - 1)
        BY <3>2
      <3> QED
        BY <2>1, <3>3
    <2>5. CASE ~ in(i) /\ ~ in(j)
      <3> DEFINE p(x) == IF low(x) THEN x ELSE x - m
      <3>1. /\ p(i) \in DOMAIN s /\ s[p(i)] = r[i] /\ (high(i) => p(i) >= k)
            /\ p(j) \in DOMAIN s /\ s[p(j)] = r[j] /\ (high(j) => p(j) >= k)
        BY SMTT(40), <1>1, <1>6, <2>1, <2>2, <2>5
      <3>2. p(i) = p(j)
        <4> HIDE DEF p
        <4> QED
          BY <1>11, <3>1
      <3> QED
        BY <2>1, <2>2, <2>5, <3>1, <3>2
    <2> QED
      BY <2>4, <2>5
  <1> QED
    BY <1>4, <1>10, <1>11 DEF Spliced, r, am, a, b, n

(* Where a card is put in a list, what goes before it and after it are     *)
(* the parts of the list.                                                  *)
PlaceOf(t, c) == CHOOSE j \in DOMAIN t : t[j] = c

LEMMA InsertCuts ==
    ASSUME NEW E, NEW s \in Seq(E), NEW c \in E, c \notin Range(s), NEW k \in 1 .. Len(s) + 1,
           NEW S, Range(s) \cap S = {}
    PROVE  LET t == InsertAt(s, k, c)
               i == PlaceOf(t, c)
           IN
           /\ t = Spliced(s, k, <<c>>)
           /\ Without(SubSeq(t, 1, i - 1), S) = SubSeq(s, 1, k - 1)
           /\ Without(SubSeq(t, i + 1, Len(t)), S) = SubSeq(s, k, Len(s))
  <1> DEFINE t == InsertAt(s, k, c)
             a == SubSeq(s, 1, k - 1)
             b == SubSeq(s, k, Len(s))
             i == PlaceOf(t, c)
  <1>1. Len(s) \in Nat /\ DOMAIN s = 1 .. Len(s) /\ k \in Nat /\ 1 <= k /\ k <= Len(s) + 1
    BY LenProperties
  <1>2. /\ t \in Seq(E) /\ Len(t) = Len(s) + 1
        /\ \A j \in 1 .. k - 1 : t[j] = s[j]
        /\ t[k] = c
        /\ \A j \in k + 1 .. Len(s) + 1 : t[j] = s[j - 1]
    BY InsertProperties
  <1>3. /\ a \in Seq(E) /\ Len(a) = k - 1 /\ \A j \in 1 .. k - 1 : a[j] = s[j]
        /\ b \in Seq(E) /\ Len(b) = Len(s) - k + 1
        /\ \A j \in 1 .. Len(s) - k + 1 : b[j] = s[k + j - 1]
    BY CutList
  <1>4. t = Spliced(s, k, <<c>>)
    BY DEF InsertAt, Spliced
  <1> HIDE DEF t, a, b
  <1>5. DOMAIN t = 1 .. Len(s) + 1
    BY <1>2, LenProperties
  <1>6. \A j \in DOMAIN s : s[j] # c /\ s[j] \notin S
    BY DEF Range
  <1>7. i = k
    <2>1. k \in DOMAIN t /\ t[k] = c
      BY <1>1, <1>2, <1>5
    <2>2. ASSUME NEW j \in DOMAIN t, t[j] = c PROVE j = k
      <3>1. j \in Nat /\ j <= Len(s) + 1 /\ 1 <= j
        BY <1>1, <1>5
      <3>2. CASE j < k
        BY <1>1, <1>2, <1>6, <2>2, <3>1, <3>2
      <3>3. CASE j > k
        <4>1. j \in k + 1 .. Len(s) + 1 /\ j - 1 \in DOMAIN s
          BY <1>1, <3>1, <3>3
        <4> QED
          BY <1>2, <1>6, <2>2, <4>1
      <3> QED
        BY <1>1, <3>1, <3>2, <3>3
    <2> QED
      BY <2>1, <2>2 DEF PlaceOf
  <1>8. SubSeq(t, 1, k - 1) = a
    <2> DEFINE u == SubSeq(t, 1, k - 1)
    <2>1. u \in Seq(E) /\ Len(u) = k - 1 /\ \A j \in 1 .. k - 1 : u[j] = t[j]
      <3>1. k \in 1 .. Len(t) + 1
        BY <1>1, <1>2
      <3> QED
        BY <1>2, <3>1, CutList
    <2> HIDE DEF u
    <2>2. \A j \in 1 .. Len(u) : u[j] = a[j]
      BY <1>2, <1>3, <2>1
    <2>3. Len(u) = Len(a)
      BY <1>3, <2>1
    <2>4. u = a
      BY <1>3, <2>1, <2>2, <2>3, SeqEqual
    <2> QED
      BY <2>4 DEF u
  <1>9. SubSeq(t, k + 1, Len(t)) = b
    <2> DEFINE u == SubSeq(t, k + 1, Len(t))
    <2>1. /\ u \in Seq(E) /\ Len(u) = Len(t) - (k + 1) + 1
          /\ \A j \in 1 .. Len(t) - (k + 1) + 1 : u[j] = t[k + 1 + j - 1]
      <3>1. k + 1 \in 1 .. Len(t) + 1
        BY <1>1, <1>2
      <3> QED
        BY <1>2, <3>1, CutList
    <2> HIDE DEF u
    <2>2. Len(u) = Len(b) /\ Len(u) = Len(s) - k + 1
      BY <1>1, <1>2, <1>3, <2>1
    <2>3. ASSUME NEW j \in 1 .. Len(u) PROVE u[j] = b[j]
      <3>1. j \in 1 .. Len(t) - (k + 1) + 1 /\ j \in 1 .. Len(s) - k + 1
        BY <1>1, <1>2, <2>2
      <3>2. k + 1 + j - 1 \in k + 1 .. Len(s) + 1 /\ (k + 1 + j - 1) - 1 = k + j - 1
        BY <1>1, <3>1
      <3>3. u[j] = t[k + 1 + j - 1] /\ b[j] = s[k + j - 1]
        BY <1>3, <2>1, <3>1
      <3>4. t[k + 1 + j - 1] = s[(k + 1 + j - 1) - 1]
        BY <1>2, <3>2
      <3> QED
        BY <3>2, <3>3, <3>4
    <2>4. u = b
      BY <1>3, <2>1, <2>2, <2>3, SeqEqual
    <2> QED
      BY <2>4 DEF u
  <1>10. Range(a) \cap S = {} /\ Range(b) \cap S = {}
    <2>1. DOMAIN a = 1 .. k - 1 /\ DOMAIN b = 1 .. Len(s) - k + 1
      BY <1>1, <1>3, LenProperties
    <2>2. \A j \in DOMAIN a : a[j] \notin S
      BY <1>1, <1>3, <1>6, <2>1
    <2>3. ASSUME NEW j \in DOMAIN b PROVE k + j - 1 \in DOMAIN s /\ b[j] = s[k + j - 1]
      <3>1. j \in 1 .. Len(s) - k + 1
        BY <2>1
      <3>2. k + j - 1 \in 1 .. Len(s)
        BY <1>1, <3>1
      <3> QED
        BY <1>1, <1>3, <3>1, <3>2
    <2>4. \A j \in DOMAIN b : b[j] \notin S
      BY <1>6, <2>3
    <2> QED
      BY <2>2, <2>4 DEF Range
  <1>11. Without(a, S) = a /\ Without(b, S) = b
    BY <1>3, <1>10, WithoutProperties
  <1> HIDE DEF i
  <1> QED
    BY <1>4, <1>7, <1>8, <1>9, <1>11 DEF t, a, b, i

LEMMA InsertParts ==
    ASSUME NEW s \in Seq(Connects), NEW c \in Connects, c \notin Range(s),
           NEW k \in 1 .. Len(s) + 1, NEW S, Range(s) \cap S = {},
           NEW t, t = InsertAt(s, k, c), NEW i, i = PlaceOf(t, c)
    PROVE  /\ Without(SubSeq(t, 1, i - 1), S) = SubSeq(s, 1, k - 1)
           /\ Without(SubSeq(t, i + 1, Len(t)), S) = SubSeq(s, k, Len(s))
  BY ZenonT(40), InsertCuts

LEMMA NormalizedMains ==
    ASSUME NEW M, Ungrouped \notin M, NEW names
    PROVE  Normalized(names) \cap M = names \cap M
  BY DEF Normalized

(* Cards are dropped where the administrator saw them go; the tags sent    *)
(* for them put them there.                                                *)
DragMoves(pg, c) ==
    IF c \in pg.sel /\ Cardinality(pg.sel) > 1 /\ pg.sel \subseteq Visible(pg) THEN pg.sel ELSE {c}

DragSeveral(pg, c) == c \in pg.sel /\ Cardinality(pg.sel) > 1 /\ pg.sel \subseteq Visible(pg)

DragTags(pg, to, d) ==
    Normalized((pg.rows[d].tags \ MainsOf(pg.groups)) \cup (IF to = Ungrouped THEN {} ELSE {to}))

DragGoal(pg, c, from, to, k) ==
    LET seen  == Dropped(pg, c, from, to, k)
        moved == DragMoves(pg, c)
    IN [key \in DOMAIN pg.cols |->
          IF key # to THEN Without(pg.cols[key], moved)
          ELSE LET i == PlaceOf(seen[to], c) IN
               Without(SubSeq(seen[to], 1, i - 1), moved)
               \o (IF DragSeveral(pg, c) THEN Block(pg, moved) ELSE <<c>>)
               \o Without(SubSeq(seen[to], i + 1, Len(seen[to])), moved)]

DragColumns(pg, c, from, to, k) ==
    IF DragSeveral(pg, c) THEN Merged(pg, to, k) ELSE Dropped(pg, c, from, to, k)

DragPlain(pg, c, from, to) ==
    DragSeveral(pg, c) => from # to /\ DragMoves(pg, c) \cap Range(pg.cols[to]) = {}

LEMMA BlockProperties ==
    ASSUME Shapes, NEW pg, GroupTable(pg.groups), Columns(pg.groups, pg.cols),
           LaidOut(pg.rows, pg.groups, pg.cols), OneMain(pg.rows, pg.groups),
           NEW S \in SUBSET DOMAIN pg.rows
    PROVE  LET b == Block(pg, S) IN
           /\ b \in Seq(Connects) /\ Range(b) = S
           /\ \A i, j \in DOMAIN b : b[i] = b[j] => i = j
  <1> DEFINE s == Cards(pg)
             b == Those(s, S)
             id == [c \in Connects |-> c]
  <1>1. /\ s \in Seq(Connects) /\ Range(s) = DOMAIN pg.rows
        /\ \A i, j \in DOMAIN s : s[i] = s[j] => i = j
    BY CardsInTurn
  <1>2. Block(pg, S) = b
    BY DEF Block
  <1> HIDE DEF s
  <1>3. /\ b \in Seq(Connects)
        /\ \A k \in DOMAIN b : b[k] \in S /\ \E i \in DOMAIN s : b[k] = s[i]
        /\ \A i \in DOMAIN s : s[i] \in S => \E k \in DOMAIN b : b[k] = s[i]
        /\ Free(s, id) => Free(b, id)
    BY <1>1, ThoseProperties
  <1> HIDE DEF b
  <1>4. /\ \A i \in DOMAIN s : s[i] \in Connects /\ id[s[i]] = s[i]
        /\ \A i \in DOMAIN b : b[i] \in Connects /\ id[b[i]] = b[i]
    BY <1>1, <1>3, LenProperties
  <1>5. \A i, j \in DOMAIN b : b[i] = b[j] => i = j
    BY <1>1, <1>3, <1>4 DEF Free
  <1>6. Range(b) = S
    BY <1>1, <1>3 DEF Range
  <1> QED
    BY <1>2, <1>3, <1>5, <1>6

LEMMA DragGoalIs ==
    ASSUME Shapes, NEW pg, Table(pg.rows), GroupTable(pg.groups), Columns(pg.groups, pg.cols),
           pg.filter = NoFilter, LaidOut(pg.rows, pg.groups, pg.cols), OneMain(pg.rows, pg.groups),
           NEW from \in Shown(pg.groups), NEW to \in Shown(pg.groups),
           NEW c \in DOMAIN pg.rows, c \in Range(pg.cols[from]),
           NEW k \in 1 .. Len(Without(pg.cols[to], {c})) + 1, DragPlain(pg, c, from, to)
    PROVE  LET goal  == DragGoal(pg, c, from, to, k)
               moved == DragMoves(pg, c)
           IN
           /\ DragColumns(pg, c, from, to, k) = goal
           /\ Columns(pg.groups, goal)
           /\ moved \subseteq DOMAIN pg.rows /\ c \in moved
           /\ \A key \in Shown(pg.groups) \ {to} : goal[key] = Without(pg.cols[key], moved)
           /\ Range(goal[to]) = Range(pg.cols[to]) \cup moved
           /\ \A i, j \in DOMAIN goal[to] : goal[to][i] = goal[to][j] => i = j
  <1> DEFINE S     == Shown(pg.groups)
             moved == DragMoves(pg, c)
             several == DragSeveral(pg, c)
             base  == Without(pg.cols[to], moved)
             seen  == Dropped(pg, c, from, to, k)
             mid   == IF several THEN Block(pg, moved) ELSE <<c>>
             goal  == [key \in S |-> IF key = to THEN Spliced(base, k, mid)
                                     ELSE Without(pg.cols[key], moved)]
  <1>1. c \in moved /\ moved \subseteq DOMAIN pg.rows /\ c \in Connects
    <2>1. Visible(pg) = DOMAIN pg.rows
      BY VisibleAll
    <2> QED
      BY <2>1 DEF DragMoves, Table
  <1>2. \A key \in S : pg.cols[key] \in Seq(Connects)
    BY DEF Columns
  <1>3. \A key \in S \ {from} : c \notin Range(pg.cols[key])
    <2>1. \A key \in S : Range(pg.cols[key]) = {d \in DOMAIN pg.rows : Lies(pg.rows, pg.groups, d, key)}
      BY DEF LaidOut
    <2> QED
      BY <2>1, LiesOnce
  <1>4. several => moved = pg.sel /\ from # to /\ moved \cap Range(pg.cols[to]) = {}
    BY DEF DragPlain, DragSeveral, DragMoves
  <1>5. ~ several => moved = {c}
    BY DEF DragSeveral, DragMoves
  <1> HIDE DEF moved, several
  <1>6. /\ base \in Seq(Connects) /\ Range(base) = Range(pg.cols[to]) \ moved
        /\ \A i, j \in DOMAIN base : base[i] = base[j] => i = j
    <2>1. \A i, j \in DOMAIN pg.cols[to] : pg.cols[to][i] = pg.cols[to][j] => i = j
      BY DEF LaidOut
    <2> QED
      BY <1>2, <2>1, WithoutProperties
  <1>7. several => base = pg.cols[to]
    BY <1>2, <1>4, WithoutProperties
  <1>8. base = Without(pg.cols[to], {c})
    <2>1. CASE several
      <3>1. c \notin Range(pg.cols[to])
        BY <1>3, <1>4, <2>1
      <3>2. Without(pg.cols[to], {c}) = pg.cols[to]
        BY <1>2, <3>1, WithoutProperties
      <3> QED
        BY <1>7, <2>1, <3>2
    <2>2. CASE ~ several
      BY <1>5, <2>2
    <2> QED
      BY <2>1, <2>2
  <1> HIDE DEF base
  <1>9. k \in 1 .. Len(base) + 1 /\ c \notin Range(base)
    BY <1>1, <1>6, <1>8
  <1>10. /\ mid \in Seq(Connects) /\ Range(mid) = moved
         /\ \A i, j \in DOMAIN mid : mid[i] = mid[j] => i = j
    <2>1. CASE several
      BY <1>1, <2>1, BlockProperties
    <2>2. CASE ~ several
      <3>1. mid = <<c>>
        BY <2>2
      <3>2. <<c>> \in Seq(Connects) /\ DOMAIN <<c>> = {1} /\ <<c>>[1] = c
        BY <1>1
      <3> QED
        BY <1>5, <2>2, <3>1, <3>2 DEF Range
    <2> QED
      BY <2>1, <2>2
  <1>11. /\ Spliced(base, k, mid) \in Seq(Connects)
         /\ Range(Spliced(base, k, mid)) = Range(base) \cup moved
         /\ \A i, j \in DOMAIN Spliced(base, k, mid) :
               Spliced(base, k, mid)[i] = Spliced(base, k, mid)[j] => i = j
    <2>1. Range(base) \cap Range(mid) = {}
      BY <1>6, <1>10
    <2> HIDE DEF mid
    <2> QED
      BY <1>6, <1>9, <1>10, <2>1, SplicedProperties
  <1>12. seen[to] = InsertAt(base, k, c)
    <2> DEFINE out == [pg.cols EXCEPT ![from] = Without(@, {c})]
    <2>1. seen = [out EXCEPT ![to] = InsertAt(@, k, c)] /\ to \in DOMAIN out
      BY DEF Dropped, Columns
    <2>2. out[to] = base
      <3>1. CASE from = to
        BY <1>8, <3>1 DEF Columns
      <3>2. CASE from # to
        <4>1. c \notin Range(pg.cols[to])
          BY <1>3, <3>2
        <4>2. Without(pg.cols[to], {c}) = pg.cols[to]
          BY <1>2, <4>1, WithoutProperties
        <4>3. out[to] = pg.cols[to]
          BY <3>2 DEF Columns
        <4> QED
          BY <1>8, <4>2, <4>3
      <3> QED
        BY <3>1, <3>2
    <2> HIDE DEF out
    <2> QED
      BY <2>1, <2>2
  <1>13. DragGoal(pg, c, from, to, k) = goal
    <2> DEFINE t == seen[to]
               i == PlaceOf(t, c)
    <2>1. /\ Without(SubSeq(t, 1, i - 1), moved) = SubSeq(base, 1, k - 1)
          /\ Without(SubSeq(t, i + 1, Len(t)), moved) = SubSeq(base, k, Len(base))
      <3>1. Range(base) \cap moved = {}
        BY <1>6
      <3>2. t = InsertAt(base, k, c)
        BY <1>12
      <3>3. /\ base \in Seq(Connects) /\ c \in Connects /\ c \notin Range(base)
            /\ k \in 1 .. Len(base) + 1
        BY <1>1, <1>6, <1>9
      <3>4. i = PlaceOf(t, c)
        OBVIOUS
      <3> HIDE DEF t, i
      <3> QED
        BY <3>1, <3>2, <3>3, <3>4, InsertParts
    <2>2. DragGoal(pg, c, from, to, k) =
            [key \in S |-> IF key # to THEN Without(pg.cols[key], moved)
                           ELSE Without(SubSeq(t, 1, i - 1), moved) \o mid
                                \o Without(SubSeq(t, i + 1, Len(t)), moved)]
      BY DEF DragGoal, moved, several, Columns
    <2> HIDE DEF t, i, mid
    <2> QED
      BY <2>1, <2>2 DEF Spliced
  <1>14. DragColumns(pg, c, from, to, k) = goal
    <2>1. CASE several
      <3> DEFINE out == [key \in DOMAIN pg.cols |-> Without(pg.cols[key], pg.sel)]
                 at  == IF k - 1 <= Len(out[to]) THEN k - 1 ELSE Len(out[to])
      <3>1. DragColumns(pg, c, from, to, k) = Merged(pg, to, k)
        BY <2>1 DEF DragColumns, several
      <3>2. Merged(pg, to, k) = [out EXCEPT ![to] =
                SubSeq(@, 1, at) \o Block(pg, pg.sel) \o SubSeq(@, at + 1, Len(@))]
        BY DEF Merged
      <3>3. out[to] = base /\ DOMAIN out = S /\ pg.sel = moved
        BY <1>4, <2>1 DEF Columns, base
      <3>4. at = k - 1 /\ at + 1 = k
        <4>1. Len(base) \in Nat
          BY <1>6, LenProperties
        <4> HIDE DEF out
        <4> QED
          BY <1>9, <3>3, <4>1
      <3>5. \A key \in S : out[key] = Without(pg.cols[key], moved)
        BY <3>3
      <3> HIDE DEF out, at
      <3>6. Merged(pg, to, k) = [key \in S |-> IF key = to
                THEN SubSeq(base, 1, k - 1) \o Block(pg, moved) \o SubSeq(base, k, Len(base))
                ELSE out[key]]
        BY <3>2, <3>3, <3>4 DEF Columns, out
      <3>7. mid = Block(pg, moved)
        BY <2>1
      <3> QED
        BY <3>1, <3>5, <3>6, <3>7 DEF Spliced
    <2>2. CASE ~ several
      <3>1. DragColumns(pg, c, from, to, k) = seen
        BY <2>2 DEF DragColumns, several
      <3>2. mid = <<c>> /\ moved = {c}
        BY <1>5, <2>2
      <3>3. seen[to] = Spliced(base, k, mid)
        BY <1>12, <3>2 DEF InsertAt, Spliced
      <3>4. ASSUME NEW key \in S, key # to PROVE seen[key] = Without(pg.cols[key], moved)
        <4>1. CASE key = from
          BY <3>2, <3>4, <4>1 DEF Dropped, Columns
        <4>2. CASE key # from
          <5>1. seen[key] = pg.cols[key]
            BY <3>4, <4>2 DEF Dropped, Columns
          <5>2. c \notin Range(pg.cols[key])
            BY <1>3, <4>2
          <5> QED
            BY <1>2, <3>2, <5>1, <5>2, WithoutProperties
        <4> QED
          BY <4>1, <4>2
      <3>5. seen = [key \in S |-> seen[key]]
        BY DEF Dropped, Columns
      <3> HIDE DEF seen, mid
      <3> QED
        BY <3>1, <3>3, <3>4, <3>5
    <2> QED
      BY <2>1, <2>2
  <1>15. Columns(pg.groups, goal)
    <2>1. \A key \in S : goal[key] \in Seq(Connects)
      BY <1>2, <1>11, WithoutProperties
    <2> QED
      BY <2>1 DEF Columns
  <1>16. Range(base) \cup moved = Range(pg.cols[to]) \cup moved
    BY <1>6
  <1>17. goal[to] = Spliced(base, k, mid) /\ \A key \in S \ {to} : goal[key] = Without(pg.cols[key], moved)
    OBVIOUS
  <1> HIDE DEF goal, mid
  <1> QED
    BY <1>1, <1>11, <1>13, <1>14, <1>15, <1>16, <1>17 DEF moved

LEMMA AtMostOne ==
    ASSUME NEW S, IsFiniteSet(S)
    PROVE  Cardinality(S) <= 1 <=> \A m, n \in S : m = n
  <1>1. ASSUME Cardinality(S) <= 1, NEW m \in S, NEW n \in S, m # n PROVE FALSE
    <2>1. IsFiniteSet({m, n}) /\ Cardinality({m, n}) = 2
      <3>1. IsFiniteSet({m}) /\ Cardinality({m}) = 1
        BY FS_Singleton
      <3>2. IsFiniteSet({m} \cup {n}) /\ Cardinality({m} \cup {n}) = 2
        <4>1. n \notin {m}
          BY <1>1
        <4> QED
          BY <3>1, <4>1, FS_AddElement
      <3>3. {m} \cup {n} = {m, n}
        OBVIOUS
      <3> QED
        BY <3>2, <3>3
    <2>2. Cardinality({m, n}) <= Cardinality(S)
      BY <1>1, FS_Subset
    <2>3. Cardinality(S) \in Nat
      BY FS_CardinalityType
    <2> QED
      BY <1>1, <2>1, <2>2, <2>3
  <1>2. ASSUME \A m, n \in S : m = n PROVE Cardinality(S) <= 1
    <2>1. CASE S = {}
      BY <2>1, FS_EmptySet
    <2>2. CASE S # {}
      <3>1. PICK m : m \in S
        BY <2>2
      <3>2. S = {m}
        BY <1>2, <3>1
      <3> QED
        BY <3>2, FS_Singleton
    <2> QED
      BY <2>1, <2>2
  <1> QED
    BY <1>1, <1>2

(* Main groups of a connect, counted.                                      *)
LEMMA MainsCounted ==
    ASSUME Shapes, NEW gs, GroupTable(gs), NEW names
    PROVE  Cardinality(names \cap MainsOf(gs)) <= 1 <=> \A m, n \in names \cap MainsOf(gs) : m = n
  <1>1. IsFiniteSet(names \cap MainsOf(gs))
    <2>1. names \cap MainsOf(gs) \subseteq GroupNames
      BY DEF GroupTable, MainsOf
    <2> QED
      BY <2>1, FS_Subset DEF Shapes
  <1> QED
    BY <1>1, AtMostOne

LEMMA OneColumnEachIs ==
    ASSUME Shapes, NEW pg, GroupTable(pg.groups), OneColumnEach(pg)
    PROVE  OneMain(pg.rows, pg.groups)
  BY MainsCounted DEF OneColumnEach, OneMain

(* The cards that are moved lie in the column they are dropped in, and in  *)
(* no other; the rest lie where they were.                                 *)
DropsInto(N, pg, moved, to) ==
    /\ DOMAIN N = DOMAIN pg.rows
    /\ \A d \in moved : \A key \in Shown(pg.groups) : Lies(N, pg.groups, d, key) <=> key = to
    /\ \A d \in DOMAIN N \ moved : N[d].tags = pg.rows[d].tags
    /\ \A d \in moved : \A m, n \in N[d].tags \cap MainsOf(pg.groups) : m = n
    /\ \A d \in DOMAIN N : N[d].name = pg.rows[d].name

LEMMA DragLaid ==
    ASSUME Shapes, NEW pg, Table(pg.rows), GroupTable(pg.groups), Columns(pg.groups, pg.cols),
           pg.filter = NoFilter, Shelved(pg), OneMain(pg.rows, pg.groups),
           NEW from \in Shown(pg.groups), NEW to \in Shown(pg.groups),
           NEW c \in DOMAIN pg.rows, c \in Range(pg.cols[from]),
           NEW k \in 1 .. Len(Without(pg.cols[to], {c})) + 1, DragPlain(pg, c, from, to),
           NEW N, DropsInto(N, pg, DragMoves(pg, c), to)
    PROVE  LET goal == DragGoal(pg, c, from, to, k) IN
           /\ Columns(pg.groups, goal) /\ LaidOut(N, pg.groups, goal) /\ OneMain(N, pg.groups)
           /\ \A key \in Shown(pg.groups) \ {from, to} : Standing(N, goal[key], pg.modes[key])
  <1>a. LET g == DragGoal(pg, c, from, to, k)
            m == DragMoves(pg, c)
        IN
        /\ DragColumns(pg, c, from, to, k) = g
        /\ Columns(pg.groups, g)
        /\ m \subseteq DOMAIN pg.rows /\ c \in m
        /\ \A key \in Shown(pg.groups) \ {to} : g[key] = Without(pg.cols[key], m)
        /\ Range(g[to]) = Range(pg.cols[to]) \cup m
        /\ \A i, j \in DOMAIN g[to] : g[to][i] = g[to][j] => i = j
    <2>1. LaidOut(pg.rows, pg.groups, pg.cols)
      BY DEF Shelved
    <2> QED
      BY <2>1, DragGoalIs
  <1> PICK moved, goal : moved = DragMoves(pg, c)
                            /\ goal = DragGoal(pg, c, from, to, k)
    OBVIOUS
  <1>1. LaidOut(pg.rows, pg.groups, pg.cols) /\ \A key \in Shown(pg.groups) : Standing(pg.rows, pg.cols[key], pg.modes[key])
    BY DEF Shelved
  <1>2. /\ Columns(pg.groups, goal)
        /\ moved \subseteq DOMAIN pg.rows /\ c \in moved
        /\ \A key \in Shown(pg.groups) \ {to} : goal[key] = Without(pg.cols[key], moved)
        /\ Range(goal[to]) = Range(pg.cols[to]) \cup moved
        /\ \A i, j \in DOMAIN goal[to] : goal[to][i] = goal[to][j] => i = j
    BY <1>a
  <1> PICK S : S = Shown(pg.groups)
    OBVIOUS
  <1>3. \A key \in S : /\ pg.cols[key] \in Seq(Connects)
                       /\ \A i, j \in DOMAIN pg.cols[key] : pg.cols[key][i] = pg.cols[key][j] => i = j
                       /\ Range(pg.cols[key]) = {d \in DOMAIN pg.rows : Lies(pg.rows, pg.groups, d, key)}
    BY <1>1 DEF Columns, LaidOut
  <1>4. /\ DOMAIN N = DOMAIN pg.rows
        /\ \A d \in moved : \A key \in S : Lies(N, pg.groups, d, key) <=> key = to
        /\ \A d \in DOMAIN N \ moved : N[d].tags = pg.rows[d].tags
        /\ \A d \in moved : \A m, n \in N[d].tags \cap MainsOf(pg.groups) : m = n
        /\ \A d \in DOMAIN N : N[d].name = pg.rows[d].name
    BY DEF DropsInto
  <1>5. \A d \in DOMAIN N \ moved : \A key \in S : Lies(N, pg.groups, d, key) <=> Lies(pg.rows, pg.groups, d, key)
    BY <1>4 DEF Lies
  <1>6. ASSUME NEW key \in S
        PROVE  /\ \A i, j \in DOMAIN goal[key] : goal[key][i] = goal[key][j] => i = j
               /\ Range(goal[key]) = {d \in DOMAIN N : Lies(N, pg.groups, d, key)}
    <2>1. CASE key = to
      BY <1>2, <1>3, <1>4, <1>5, <2>1
    <2>2. CASE key # to
      <3>1. goal[key] = Without(pg.cols[key], moved)
        BY <1>2, <2>2
      <3>2. /\ Range(goal[key]) = Range(pg.cols[key]) \ moved
            /\ \A i, j \in DOMAIN goal[key] : goal[key][i] = goal[key][j] => i = j
        <4>1. PICK ids : ids = pg.cols[key]
          OBVIOUS
        <4>2. ids \in Seq(Connects) /\ \A i, j \in DOMAIN ids : ids[i] = ids[j] => i = j
          BY <1>3, <4>1
        <4>3. goal[key] = Without(ids, moved)
          BY <3>1, <4>1
        <4> QED
          BY <4>1, <4>2, <4>3, WithoutProperties
      <3> QED
        BY <1>2, <1>3, <1>4, <1>5, <2>2, <3>2
    <2> QED
      BY <2>1, <2>2
  <1>7. LaidOut(N, pg.groups, goal)
    BY <1>6 DEF LaidOut
  <1>8. OneMain(N, pg.groups)
    BY <1>4 DEF OneMain
  <1>9. ASSUME NEW key \in S \ {from, to} PROVE Standing(N, goal[key], pg.modes[key])
    <2>1. goal[key] = Without(pg.cols[key], moved) /\ Standing(pg.rows, goal[key], pg.modes[key])
      BY <1>1, <1>2, <1>3, WithoutStands
    <2>2. Range(goal[key]) \subseteq DOMAIN N
      BY <1>6
    <2>3. \A i, j \in DOMAIN goal[key] :
             /\ N[goal[key][i]].name = pg.rows[goal[key][i]].name
             /\ N[goal[key][j]].name = pg.rows[goal[key][j]].name
      BY <1>4, <2>2 DEF Range
    <2>4. ASSUME NEW i \in DOMAIN goal[key], NEW j \in DOMAIN goal[key], i < j
          PROVE  ~ Precedes([rows |-> N], pg.modes[key], goal[key][j], goal[key][i])
      <3>1. ~ Precedes([rows |-> pg.rows], pg.modes[key], goal[key][j], goal[key][i])
        BY <2>1, <2>4 DEF Standing
      <3>2. /\ N[goal[key][i]].name = pg.rows[goal[key][i]].name
            /\ N[goal[key][j]].name = pg.rows[goal[key][j]].name
        BY <2>3
      <3> QED
        BY <3>1, <3>2 DEF Precedes
    <2> QED
      BY <2>4 DEF Standing
  <1> QED
    BY <1>2, <1>7, <1>8, <1>9

LEMMA DragDropsInto ==
    ASSUME Shapes, NEW pg, Table(pg.rows), GroupTable(pg.groups), NEW moved \in SUBSET DOMAIN pg.rows,
           NEW to \in Shown(pg.groups),
           NEW N, N = [d \in DOMAIN pg.rows |-> IF d \in moved
                          THEN [pg.rows[d] EXCEPT !.tags = DragTags(pg, to, d)] ELSE pg.rows[d]]
    PROVE  DropsInto(N, pg, moved, to)
  <1>1. \A d \in DOMAIN pg.rows : DOMAIN pg.rows[d] = {"order", "tags", "on", "name", "json"}
    BY DEF Table, Rows
  <1>2. DOMAIN N = DOMAIN pg.rows /\ \A d \in DOMAIN N : N[d].name = pg.rows[d].name
    BY <1>1
  <1>3. \A d \in DOMAIN N \ moved : N[d] = pg.rows[d]
    OBVIOUS
  <1>4. ASSUME NEW d \in moved
        PROVE  /\ \A key \in Shown(pg.groups) : Lies(N, pg.groups, d, key) <=> key = to
               /\ \A m, n \in N[d].tags \cap MainsOf(pg.groups) : m = n
    <2>1. N[d].tags = DragTags(pg, to, d)
      BY <1>1
    <2>2. Ungrouped \notin MainsOf(pg.groups) /\ Shown(pg.groups) = MainsOf(pg.groups) \cup {Ungrouped}
      BY DEF MainsOf, Shown, GroupTable
    <2>3. N[d].tags \cap MainsOf(pg.groups) = IF to = Ungrouped THEN {} ELSE {to}
      <3> DEFINE names == (pg.rows[d].tags \ MainsOf(pg.groups)) \cup (IF to = Ungrouped THEN {} ELSE {to})
      <3>1. N[d].tags = Normalized(names)
        BY <2>1 DEF DragTags
      <3>2. names \cap MainsOf(pg.groups) = IF to = Ungrouped THEN {} ELSE {to}
        BY <2>2
      <3> HIDE DEF names
      <3> QED
        BY <2>2, <3>1, <3>2, NormalizedMains
    <2> QED
      BY SMTT(40), <2>2, <2>3 DEF Lies
  <1> QED
    BY <1>2, <1>3, <1>4 DEF DropsInto

-----------------------------------------------------------------------------
(* What the last gesture asked for, followed through its flow.  An order   *)
(* of 0 stands for any: the orders are what the gesture writes.            *)
Unplaced(tbl) == [c \in DOMAIN tbl |-> [tbl[c] EXCEPT !.order = 0]]

CarriedOut(x, r) ==
    CASE r.kind = "tags"   -> [x EXCEPT !.tags = Normalized(r.val), !.order = 0]
      [] r.kind = "toggle" -> [x EXCEPT !.on = ~ @, !.order = 0]
      [] OTHER             -> [x EXCEPT ![r.kind] = r.val, !.order = 0]

(* The requests still on their way lead from the table to what was asked,  *)
(* and none of them will be refused.                                       *)
Leads(wire, asked, tbl, gs) ==
    /\ asked = [c \in DOMAIN asked |-> asked[c]]
    /\ DOMAIN asked \subseteq DOMAIN tbl
    /\ \A r, q \in wire : r.id = q.id => r = q
    /\ \A r \in wire :
          /\ r.id \in DOMAIN tbl
          /\ r.kind \in {"tags", "toggle", "on", "name", "json", "remove"}
          /\ r.kind = "tags" => \A m, n \in Normalized(r.val) \cap MainsOf(gs) : m = n
          /\ r.kind = "remove" => r.id \notin DOMAIN asked
          /\ r.kind # "remove" => r.id \in DOMAIN asked /\ asked[r.id] = CarriedOut(tbl[r.id], r)
    /\ \A c \in DOMAIN tbl : (\A r \in wire : r.id # c)
          => c \in DOMAIN asked /\ asked[c] = [tbl[c] EXCEPT !.order = 0]

LEMMA LedThere ==
    ASSUME NEW asked, NEW tbl, NEW gs, Leads({}, asked, tbl, gs)
    PROVE  asked = Unplaced(tbl)
  <1>1. /\ asked = [c \in DOMAIN asked |-> asked[c]] /\ DOMAIN asked = DOMAIN tbl
        /\ \A c \in DOMAIN tbl : asked[c] = [tbl[c] EXCEPT !.order = 0]
    BY DEF Leads
  <1>2. Unplaced(tbl) = [c \in DOMAIN tbl |-> [tbl[c] EXCEPT !.order = 0]]
    BY DEF Unplaced
  <1> QED
    BY <1>1, <1>2

(* A request is carried out.                                               *)
LEMMA LeadsChange ==
    ASSUME NEW wire, NEW asked, NEW tbl, NEW gs, Leads(wire, asked, tbl, gs),
           NEW r \in wire, r.kind # "remove", NEW y, [y EXCEPT !.order = 0] = CarriedOut(tbl[r.id], r)
    PROVE  Leads(wire \ {r}, asked, [tbl EXCEPT ![r.id] = y], gs)
  <1> PICK t2 : t2 = [tbl EXCEPT ![r.id] = y]
    OBVIOUS
  <1>1. r.id \in DOMAIN tbl /\ r.id \in DOMAIN asked /\ asked[r.id] = CarriedOut(tbl[r.id], r)
    BY DEF Leads
  <1>2. DOMAIN t2 = DOMAIN tbl /\ t2[r.id] = y /\ \A c \in DOMAIN tbl \ {r.id} : t2[c] = tbl[c]
    BY <1>1
  <1>3. \A q \in wire \ {r} : q.id # r.id /\ q \in wire
    BY DEF Leads
  <1>4. ASSUME NEW q \in wire \ {r}
        PROVE  /\ q.id \in DOMAIN t2
               /\ q.kind \in {"tags", "toggle", "on", "name", "json", "remove"}
               /\ q.kind = "tags" => \A m, n \in Normalized(q.val) \cap MainsOf(gs) : m = n
               /\ q.kind = "remove" => q.id \notin DOMAIN asked
               /\ q.kind # "remove" => q.id \in DOMAIN asked /\ asked[q.id] = CarriedOut(t2[q.id], q)
    <2>1. /\ q.id \in DOMAIN tbl
          /\ q.kind \in {"tags", "toggle", "on", "name", "json", "remove"}
          /\ q.kind = "tags" => \A m, n \in Normalized(q.val) \cap MainsOf(gs) : m = n
          /\ q.kind = "remove" => q.id \notin DOMAIN asked
          /\ q.kind # "remove" => q.id \in DOMAIN asked /\ asked[q.id] = CarriedOut(tbl[q.id], q)
      BY DEF Leads
    <2>2. t2[q.id] = tbl[q.id]
      BY <1>2, <1>3, <2>1
    <2> QED
      BY <1>2, <2>1, <2>2
  <1>5. ASSUME NEW c \in DOMAIN t2, \A q \in wire \ {r} : q.id # c
        PROVE  c \in DOMAIN asked /\ asked[c] = [t2[c] EXCEPT !.order = 0]
    <2>1. CASE c = r.id
      BY <1>1, <1>2, <2>1
    <2>2. CASE c # r.id
      <3>1. \A q \in wire : q.id # c
        BY <1>5, <2>2
      <3> QED
        BY <1>2, <2>2, <3>1 DEF Leads
    <2> QED
      BY <2>1, <2>2
  <1>6. /\ asked = [c \in DOMAIN asked |-> asked[c]] /\ DOMAIN asked \subseteq DOMAIN t2
        /\ \A p, q \in wire \ {r} : p.id = q.id => p = q
    BY <1>2 DEF Leads
  <1> QED
    BY <1>4, <1>5, <1>6 DEF Leads

LEMMA LeadsRemoval ==
    ASSUME NEW wire, NEW asked, NEW tbl, NEW gs, Leads(wire, asked, tbl, gs),
           NEW r \in wire, r.kind = "remove"
    PROVE  Leads(wire \ {r}, asked, Restrict(tbl, DOMAIN tbl \ {r.id}), gs)
  <1> PICK t2 : t2 = Restrict(tbl, DOMAIN tbl \ {r.id})
    OBVIOUS
  <1>1. r.id \in DOMAIN tbl /\ r.id \notin DOMAIN asked
    BY DEF Leads
  <1>2. DOMAIN t2 = DOMAIN tbl \ {r.id} /\ \A c \in DOMAIN t2 : t2[c] = tbl[c]
    BY <1>1 DEF Restrict
  <1>3. \A q \in wire \ {r} : q.id # r.id /\ q \in wire
    BY DEF Leads
  <1>4. ASSUME NEW q \in wire \ {r}
        PROVE  /\ q.id \in DOMAIN t2
               /\ q.kind \in {"tags", "toggle", "on", "name", "json", "remove"}
               /\ q.kind = "tags" => \A m, n \in Normalized(q.val) \cap MainsOf(gs) : m = n
               /\ q.kind = "remove" => q.id \notin DOMAIN asked
               /\ q.kind # "remove" => q.id \in DOMAIN asked /\ asked[q.id] = CarriedOut(t2[q.id], q)
    <2>1. /\ q.id \in DOMAIN tbl
          /\ q.kind \in {"tags", "toggle", "on", "name", "json", "remove"}
          /\ q.kind = "tags" => \A m, n \in Normalized(q.val) \cap MainsOf(gs) : m = n
          /\ q.kind = "remove" => q.id \notin DOMAIN asked
          /\ q.kind # "remove" => q.id \in DOMAIN asked /\ asked[q.id] = CarriedOut(tbl[q.id], q)
      BY DEF Leads
    <2>2. q.id \in DOMAIN t2 /\ t2[q.id] = tbl[q.id]
      BY <1>2, <1>3, <2>1
    <2> QED
      BY <2>1, <2>2
  <1>5. ASSUME NEW c \in DOMAIN t2, \A q \in wire \ {r} : q.id # c
        PROVE  c \in DOMAIN asked /\ asked[c] = [t2[c] EXCEPT !.order = 0]
    <2>1. \A q \in wire : q.id # c
      BY <1>2, <1>5
    <2> QED
      BY <1>2, <2>1 DEF Leads
  <1>6. /\ asked = [c \in DOMAIN asked |-> asked[c]] /\ DOMAIN asked \subseteq DOMAIN t2
        /\ \A p, q \in wire \ {r} : p.id = q.id => p = q
    BY <1>1, <1>2 DEF Leads
  <1> QED
    BY <1>4, <1>5, <1>6 DEF Leads

(* toggleStatus has read the status, and will write its opposite.          *)
LEMMA LeadsRead ==
    ASSUME NEW wire, NEW asked, NEW tbl, NEW gs, Leads(wire, asked, tbl, gs), Table(tbl),
           NEW r \in wire, r.kind = "toggle"
    PROVE  Leads((wire \ {r}) \cup {Req("on", r.id, ~ tbl[r.id].on)}, asked, tbl, gs)
  <1> PICK q0 : q0 = Req("on", r.id, ~ tbl[r.id].on)
    OBVIOUS
  <1>1. q0.kind = "on" /\ q0.id = r.id /\ q0.val = ~ tbl[r.id].on
    BY DEF Req
  <1>2. /\ r.id \in DOMAIN tbl /\ r.id \in DOMAIN asked
        /\ asked[r.id] = [tbl[r.id] EXCEPT !.on = ~ @, !.order = 0]
    BY DEF Leads, CarriedOut
  <1>3. CarriedOut(tbl[r.id], q0) = [tbl[r.id] EXCEPT !.on = ~ @, !.order = 0]
    BY <1>1 DEF CarriedOut
  <1>4. \A q \in wire \ {r} : q.id # r.id /\ q \in wire
    BY DEF Leads
  <1> PICK w2 : w2 = (wire \ {r}) \cup {q0}
    OBVIOUS
  <1>5. \A p, q \in w2 : p.id = q.id => p = q
    BY <1>1, <1>4 DEF Leads
  <1>6. ASSUME NEW q \in w2
        PROVE  /\ q.id \in DOMAIN tbl
               /\ q.kind \in {"tags", "toggle", "on", "name", "json", "remove"}
               /\ q.kind = "tags" => \A m, n \in Normalized(q.val) \cap MainsOf(gs) : m = n
               /\ q.kind = "remove" => q.id \notin DOMAIN asked
               /\ q.kind # "remove" => q.id \in DOMAIN asked /\ asked[q.id] = CarriedOut(tbl[q.id], q)
    <2>1. CASE q = q0
      BY <1>1, <1>2, <1>3, <2>1
    <2>2. CASE q \in wire
      BY <2>2 DEF Leads
    <2> QED
      BY <2>1, <2>2
  <1>7. ASSUME NEW c \in DOMAIN tbl, \A q \in w2 : q.id # c
        PROVE  c \in DOMAIN asked /\ asked[c] = [tbl[c] EXCEPT !.order = 0]
    <2>1. \A q \in wire : q.id # c
      BY <1>1, <1>7
    <2> QED
      BY <2>1 DEF Leads
  <1>8. asked = [c \in DOMAIN asked |-> asked[c]] /\ DOMAIN asked \subseteq DOMAIN tbl
    BY DEF Leads
  <1> QED
    BY <1>5, <1>6, <1>7, <1>8 DEF Leads

(* The stored orders are those of the columns.                             *)
Placed(tbl, cols) ==
    \A key \in DOMAIN cols : \A i, j \in DOMAIN cols[key] :
        i < j => tbl[cols[key][i]].order < tbl[cols[key][j]].order

(* The order is being written, up to its at-th id.                         *)
Sends(f, w, tbl) ==
    /\ f.ids \in Seq(Connects) /\ f.at \in DOMAIN f.ids /\ Range(f.ids) = DOMAIN w.rows
    /\ \A i, j \in DOMAIN f.ids : f.ids[i] = f.ids[j] => i = j
    /\ \A a \in 1 .. f.at - 1 : tbl[f.ids[a]].order = a
    /\ \A key \in DOMAIN w.cols : InTurn(f.ids, w.cols[key])

(* The flow of the gesture, stage by stage.                                *)
SoloPatch(f, w, tbl, gs) ==
    /\ f.pc = "patch" /\ Leads(f.wire, w.rows, tbl, gs)
    /\ f.kind = "drag" <=> w.cols # <<>>
    /\ f.kind = "drag" => f.cols = w.cols

SoloOrder(f, w, tbl) == f.pc = "reorder" /\ w.cols # <<>> /\ Sends(f, w, tbl)

SoloLoad(f, w, tbl) ==
    /\ f.pc \in {"load", "answer"}
    /\ w.cols # <<>> => Placed(tbl, w.cols)
    /\ f.pc = "answer" => f.snap = tbl

SoloFlow(f, w, tbl, gs) ==
    /\ f.page = w.page /\ ~ f.failed
    /\ \/ SoloPatch(f, w, tbl, gs)
       \/ /\ SoloOrder(f, w, tbl) \/ SoloLoad(f, w, tbl)
          /\ f.wire = {} /\ w.rows = Unplaced(tbl)

(* The columns asked for are whole, and in the order of their sort mode.   *)
Arranges(w, pg) ==
    /\ Columns(pg.groups, w.cols) /\ LaidOut(w.rows, pg.groups, w.cols) /\ OneMain(w.rows, pg.groups)
    /\ pg.filter = NoFilter /\ DOMAIN pg.rows = DOMAIN w.rows /\ DOMAIN w.rows # {}

ModeAfter(f, pg, key) == IF f.pc = "patch" /\ key \in f.panel THEN "panel" ELSE pg.modes[key]

InModes(f, w, pg) == \A key \in DOMAIN w.cols : Standing(w.rows, w.cols[key], ModeAfter(f, pg, key))

AtRest(w, tbl, pg) ==
    w.rows = Unplaced(tbl) /\ pg.rows = tbl /\ (w.cols # <<>> => pg.cols = w.cols)

Undisturbed(w, fs, tbl, gs, brd) ==
    /\ w.page \in Pages /\ brd[w.page].groups = gs
    /\ \A s, t \in DOMAIN fs : s = t
    /\ \A s \in DOMAIN fs : SoloFlow(fs[s], w, tbl, gs) /\ (w.cols # <<>> => InModes(fs[s], w, brd[w.page]))
    /\ w.cols # <<>> => Arranges(w, brd[w.page])
    /\ DOMAIN fs = {} => AtRest(w, tbl, brd[w.page])

Solo == \A w \in want : w.plain => Undisturbed(w, flow, row, group, board)

(* The columns of a page without filter are whole, unless its flow is      *)
(* about to have them built anew.                                          *)
Busy(p) == \E s \in DOMAIN flow : flow[s].page = p /\ flow[s].pc \in {"reorder", "load", "answer"}

Shelf == \A p \in Pages : Busy(p) \/ (board[p].filter = NoFilter => Shelved(board[p]))

WithOrder(tbl, c, n) == [tbl EXCEPT ![c].order = n]

LEMMA UnplacedSame ==
    ASSUME NEW tbl, Table(tbl)
    PROVE  /\ DOMAIN Unplaced(tbl) = DOMAIN tbl
           /\ \A d \in DOMAIN tbl : /\ Unplaced(tbl)[d].tags = tbl[d].tags
                                    /\ Unplaced(tbl)[d].name = tbl[d].name
  <1>1. \A d \in DOMAIN tbl : tbl[d] \in Rows /\ DOMAIN tbl[d] = {"order", "tags", "on", "name", "json"}
    BY DEF Table, Rows
  <1>2. DOMAIN Unplaced(tbl) = DOMAIN tbl /\ \A d \in DOMAIN tbl : Unplaced(tbl)[d] = [tbl[d] EXCEPT !.order = 0]
    BY DEF Unplaced
  <1> QED
    BY <1>1, <1>2

LEMMA UnplacedOrdered ==
    ASSUME NEW tbl, Table(tbl), NEW c \in DOMAIN tbl, NEW n
    PROVE  Unplaced(WithOrder(tbl, c, n)) = Unplaced(tbl)
  <1>1. \A d \in DOMAIN tbl : tbl[d] \in Rows /\ DOMAIN tbl[d] = {"order", "tags", "on", "name", "json"}
    BY DEF Table, Rows
  <1> PICK t2 : t2 = WithOrder(tbl, c, n)
    OBVIOUS
  <1>2. DOMAIN t2 = DOMAIN tbl /\ \A d \in DOMAIN tbl : [t2[d] EXCEPT !.order = 0] = [tbl[d] EXCEPT !.order = 0]
    BY <1>1 DEF WithOrder
  <1> QED
    BY <1>2 DEF Unplaced

(* Tables with the same tags and names are laid out alike.                 *)
LEMMA LaidOutAlike ==
    ASSUME NEW t1, NEW t2, NEW gs, NEW cols, LaidOut(t1, gs, cols), DOMAIN t1 = DOMAIN t2,
           \A c \in DOMAIN t1 : t1[c].tags = t2[c].tags
    PROVE  LaidOut(t2, gs, cols)
  BY DEF LaidOut, Lies

LEMMA OneMainAlike ==
    ASSUME NEW t1, NEW t2, NEW gs, OneMain(t1, gs), DOMAIN t1 = DOMAIN t2,
           \A c \in DOMAIN t1 : t1[c].tags = t2[c].tags
    PROVE  OneMain(t2, gs)
  BY DEF OneMain

LEMMA StandingAlike ==
    ASSUME NEW t1, NEW t2, NEW ids, NEW mode, Standing(t1, ids, mode),
           Range(ids) \subseteq DOMAIN t1, \A c \in DOMAIN t1 : t1[c].name = t2[c].name
    PROVE  Standing(t2, ids, mode)
  <1>1. SUFFICES ASSUME NEW i \in DOMAIN ids, NEW j \in DOMAIN ids, i < j
                 PROVE  ~ Precedes([rows |-> t2], mode, ids[j], ids[i])
    BY DEF Standing
  <1>2. ~ Precedes([rows |-> t1], mode, ids[j], ids[i])
    BY <1>1 DEF Standing
  <1>3. t1[ids[i]].name = t2[ids[i]].name /\ t1[ids[j]].name = t2[ids[j]].name
    BY DEF Range
  <1> QED
    BY <1>2, <1>3 DEF Precedes

(* One more order is written.                                              *)
LEMMA OrderWritten ==
    ASSUME NEW f, NEW w, NEW tbl, Table(tbl), DOMAIN w.rows = DOMAIN tbl, Sends(f, w, tbl),
           NEW t2, t2 = WithOrder(tbl, f.ids[f.at], f.at)
    PROVE  /\ f.ids[f.at] \in DOMAIN tbl
           /\ \A a \in 1 .. f.at : t2[f.ids[a]].order = a
           /\ f.at # Len(f.ids) => f.at + 1 \in DOMAIN f.ids
           /\ f.at = Len(f.ids) => Placed(t2, w.cols)
  <1>1. /\ f.ids \in Seq(Connects) /\ f.at \in DOMAIN f.ids /\ Range(f.ids) = DOMAIN tbl
        /\ \A i, j \in DOMAIN f.ids : f.ids[i] = f.ids[j] => i = j
        /\ \A a \in 1 .. f.at - 1 : tbl[f.ids[a]].order = a
        /\ \A key \in DOMAIN w.cols : InTurn(f.ids, w.cols[key])
    BY DEF Sends
  <1>2. Len(f.ids) \in Nat /\ DOMAIN f.ids = 1 .. Len(f.ids)
    BY <1>1, LenProperties
  <1>3. \A a \in DOMAIN f.ids : f.ids[a] \in DOMAIN tbl
    BY <1>1 DEF Range
  <1>4. \A d \in DOMAIN tbl : DOMAIN tbl[d] = {"order", "tags", "on", "name", "json"}
    BY DEF Table, Rows
  <1>5. /\ DOMAIN t2 = DOMAIN tbl /\ t2[f.ids[f.at]].order = f.at
        /\ \A d \in DOMAIN tbl \ {f.ids[f.at]} : t2[d] = tbl[d]
    BY <1>1, <1>3, <1>4 DEF WithOrder
  <1>6. ASSUME NEW a \in 1 .. f.at PROVE t2[f.ids[a]].order = a
    <2>1. CASE a = f.at
      BY <1>5, <2>1
    <2>2. CASE a # f.at
      <3>1. a \in 1 .. f.at - 1 /\ a \in DOMAIN f.ids
        BY <1>1, <1>2, <2>2
      <3>2. f.ids[a] \in DOMAIN tbl \ {f.ids[f.at]}
        BY <1>1, <1>3, <2>2, <3>1
      <3> QED
        BY <1>1, <1>5, <3>1, <3>2
    <2> QED
      BY <2>1, <2>2
  <1>7. ASSUME f.at = Len(f.ids) PROVE Placed(t2, w.cols)
    <2>1. \A a \in DOMAIN f.ids : t2[f.ids[a]].order = a
      BY <1>2, <1>6, <1>7
    <2> SUFFICES ASSUME NEW key \in DOMAIN w.cols, NEW i \in DOMAIN w.cols[key], NEW j \in DOMAIN w.cols[key],
                        i < j
                 PROVE  t2[w.cols[key][i]].order < t2[w.cols[key][j]].order
      BY DEF Placed
    <2>2. PICK a \in DOMAIN f.ids, b \in DOMAIN f.ids :
             a < b /\ f.ids[a] = w.cols[key][i] /\ f.ids[b] = w.cols[key][j]
      BY <1>1 DEF InTurn
    <2>3. t2[w.cols[key][i]].order = a /\ t2[w.cols[key][j]].order = b
      BY <2>1, <2>2
    <2> QED
      BY <2>2, <2>3
  <1> QED
    BY <1>1, <1>2, <1>3, <1>6, <1>7

SameShelf(pg, p2) ==
    /\ p2.rows = pg.rows /\ p2.groups = pg.groups /\ p2.cols = pg.cols
    /\ p2.modes = pg.modes /\ p2.filter = pg.filter

(* The only flow goes on to g, and its page keeps its cards.               *)
LEMMA GoesOnSolo ==
    ASSUME NEW w, Undisturbed(w, flow, row, group, board),
           NEW s \in DOMAIN flow, NEW g, DOMAIN flow' = DOMAIN flow, flow'[s] = g, group' = group,
           NEW p2, p2 = board'[w.page],
           p2.rows = board[w.page].rows, p2.groups = board[w.page].groups,
           p2.filter = board[w.page].filter,
           SoloFlow(g, w, row', group), w.cols # <<>> => InModes(g, w, p2)
    PROVE  Undisturbed(w, flow', row', group', board')
  <1> PICK pg : pg = board[w.page]
    OBVIOUS
  <1>1. /\ w.page \in Pages /\ pg.groups = group
        /\ \A t, u \in DOMAIN flow : t = u
        /\ w.cols # <<>> => Arranges(w, pg)
    BY DEF Undisturbed
  <1>2. w.cols # <<>> => Arranges(w, p2)
    BY <1>1 DEF Arranges
  <1>3. \A t, u \in DOMAIN flow' : t = u
    BY <1>1
  <1>4. \A t \in DOMAIN flow' : SoloFlow(flow'[t], w, row', group')
                               /\ (w.cols # <<>> => InModes(flow'[t], w, board'[w.page]))
    BY <1>1
  <1>5. DOMAIN flow' # {}
    OBVIOUS
  <1>6. w.page \in Pages /\ board'[w.page].groups = group'
    BY <1>1
  <1> QED
    BY <1>2, <1>3, <1>4, <1>5, <1>6 DEF Undisturbed

LEMMA HandledSolo ==
    ASSUME BoardType, NEW w, Undisturbed(w, flow, row, group, board),
           NEW s \in DOMAIN flow, NEW r \in flow[s].wire, NEW more,
           Handled(s, r, TRUE, more), Leads((flow[s].wire \ {r}) \cup more, w.rows, row', group)
    PROVE  Undisturbed(w, flow', row', group', board')
  <1> PICK old : old = flow[s]
    OBVIOUS
  <1> DEFINE f == [old EXCEPT !.wire = (@ \ {r}) \cup more, !.failed = @ \/ FALSE]
             fs == [flow EXCEPT ![s] = f]
  <1>1. DOMAIN old = FlowFields /\ w.page \in Pages /\ old.failed \in BOOLEAN
    BY FlowKept DEF FlowOK, Undisturbed
  <1>2. /\ SoloFlow(old, w, row, group) /\ \A t \in DOMAIN flow : t = s
        /\ w.cols # <<>> => InModes(old, w, board[w.page])
    BY DEF Undisturbed
  <1>3. old.page = w.page /\ ~ old.failed /\ SoloPatch(old, w, row, group)
    BY <1>2 DEF SoloFlow
  <1>4. old.pc = "patch"
    BY <1>3 DEF SoloPatch
  <1>5. /\ f.page = w.page /\ f.pc = "patch" /\ ~ f.failed /\ f.wire = (old.wire \ {r}) \cup more
        /\ f.kind = old.kind /\ f.cols = old.cols /\ f.panel = old.panel
    BY <1>1, <1>3, <1>4 DEF FlowFields
  <1>6. /\ flow' = IF f.pc = "gone" /\ f.wire = {} THEN Restrict(flow, DOMAIN flow \ {s})
                   ELSE IF more = {} THEN Older(fs, f.page) ELSE fs
        /\ board' = [board EXCEPT ![f.page].dirty = @ \/ more = {}]
        /\ group' = group
    BY DEF Handled
  <1> HIDE DEF f
  <1>7. flow' = Older(fs, w.page) \/ flow' = fs
    BY <1>5, <1>6
  <1>8. DOMAIN flow' = DOMAIN flow /\ flow'[s] = f
    <2>1. DOMAIN fs = DOMAIN flow /\ fs[s] = f
      OBVIOUS
    <2> HIDE DEF fs
    <2>2. CASE flow' = Older(fs, w.page)
      <3>1. DOMAIN flow' = DOMAIN fs /\ flow'[s] = IF fs[s].page = w.page /\ fs[s].pc = "answer"
                                                   THEN [fs[s] EXCEPT !.old = TRUE] ELSE fs[s]
        BY <2>1, <2>2 DEF Older
      <3> QED
        BY <1>5, <2>1, <3>1
    <2>3. CASE flow' = fs
      BY <2>1, <2>3
    <2> QED
      BY <1>7, <2>2, <2>3
  <1>9. SameShelf(board[w.page], board'[w.page])
    <2>1. board' = [board EXCEPT ![w.page].dirty = @ \/ more = {}]
      BY <1>5, <1>6
    <2>2. w.page \in DOMAIN board /\ DOMAIN board[w.page] = PageFields
      BY <1>1 DEF BoardType, BoardOK, PageBase
    <2> QED
      BY <2>1, <2>2 DEF SameShelf, PageFields
  <1>10. SoloFlow(f, w, row', group)
    <2>1. SoloPatch(f, w, row', group)
      BY <1>3, <1>5 DEF SoloPatch
    <2> QED
      BY <1>5, <2>1 DEF SoloFlow
  <1> PICK p2 : p2 = board'[w.page]
    OBVIOUS
  <1>11. w.cols # <<>> => InModes(f, w, p2)
    BY <1>2, <1>4, <1>5, <1>9 DEF InModes, ModeAfter, SameShelf
  <1> QED
    BY <1>6, <1>8, <1>9, <1>10, <1>11, GoesOnSolo DEF SameShelf

(* The server handles a request of the gesture, and refuses none.          *)
LEMMA RequestSolo ==
    ASSUME Shapes, BoardType, NEW w, Undisturbed(w, flow, row, group, board),
           NEW s \in DOMAIN flow, NEW r \in flow[s].wire,
           SetConnectGroups(s, r) \/ ReadStatus(s, r) \/ WriteField(s, r) \/ RemoveConnect(s, r)
    PROVE  Undisturbed(w, flow', row', group', board')
  <1> PICK wire : wire = flow[s].wire
    OBVIOUS
  <1>1. Leads(wire, w.rows, row, group)
    <2>1. SoloFlow(flow[s], w, row, group)
      BY DEF Undisturbed
    <2> QED
      BY <2>1 DEF SoloFlow, SoloPatch
  <1>2. /\ r.id \in DOMAIN row
        /\ r.kind = "tags" => \A m, n \in Normalized(r.val) \cap MainsOf(group) : m = n
    BY <1>1 DEF Leads
  <1>3. Table(row) /\ GroupTable(group) /\ DOMAIN row[r.id] = {"order", "tags", "on", "name", "json"}
    BY <1>2 DEF BoardType, Table, Rows
  <1>4. wire \cup {} = wire /\ (wire \ {r}) \cup {} = wire \ {r}
    OBVIOUS
  <1>5. CASE SetConnectGroups(s, r)
    <2>1. r.kind = "tags" /\ Cardinality(Normalized(r.val) \cap MainsOf(group)) <= 1
      BY <1>2, <1>3, <1>5, MainsCounted DEF SetConnectGroups
    <2>2. row' = [row EXCEPT ![r.id].tags = Normalized(r.val)] /\ Handled(s, r, TRUE, {})
      BY <1>2, <1>5, <2>1 DEF SetConnectGroups
    <2> PICK y : y = [row[r.id] EXCEPT !.tags = Normalized(r.val)]
      OBVIOUS
    <2>3. row' = [row EXCEPT ![r.id] = y]
      BY <2>2
    <2>4. [y EXCEPT !.order = 0] = CarriedOut(row[r.id], r)
      BY <1>3, <2>1 DEF CarriedOut
    <2>5. Leads(wire \ {r}, w.rows, row', group)
      BY <1>1, <2>1, <2>3, <2>4, LeadsChange
    <2> QED
      BY <1>4, <2>2, <2>5, HandledSolo
  <1>6. CASE ReadStatus(s, r)
    <2>1. r.kind = "toggle" /\ row' = row /\ Handled(s, r, TRUE, {Req("on", r.id, ~ row[r.id].on)})
      BY <1>2, <1>6 DEF ReadStatus
    <2>2. Leads((wire \ {r}) \cup {Req("on", r.id, ~ row[r.id].on)}, w.rows, row', group)
      BY <1>1, <1>3, <2>1, LeadsRead
    <2> QED
      BY <2>1, <2>2, HandledSolo
  <1>7. CASE WriteField(s, r)
    <2>1. /\ r.kind \in {"on", "name", "json"} /\ row' = [row EXCEPT ![r.id][r.kind] = r.val]
          /\ Handled(s, r, TRUE, {})
      BY <1>2, <1>7 DEF WriteField
    <2> PICK y : y = [row[r.id] EXCEPT ![r.kind] = r.val]
      OBVIOUS
    <2>2. row' = [row EXCEPT ![r.id] = y]
      BY <2>1
    <2>3. [y EXCEPT !.order = 0] = CarriedOut(row[r.id], r)
      <3>1. CarriedOut(row[r.id], r) = [row[r.id] EXCEPT ![r.kind] = r.val, !.order = 0]
        BY <2>1 DEF CarriedOut
      <3> QED
        BY <1>3, <2>1, <3>1
    <2>4. Leads(wire \ {r}, w.rows, row', group)
      <3>1. r.kind # "remove" /\ r \in wire
        BY <2>1
      <3>2. Leads(wire \ {r}, w.rows, [row EXCEPT ![r.id] = y], group)
        BY <1>1, <2>3, <3>1, LeadsChange
      <3> QED
        BY <2>2, <3>2
    <2> QED
      BY <1>4, <2>1, <2>4, HandledSolo
  <1>8. CASE RemoveConnect(s, r)
    <2>1. r.kind = "remove" /\ row' = Restrict(row, DOMAIN row \ {r.id}) /\ Handled(s, r, TRUE, {})
      BY <1>2, <1>8 DEF RemoveConnect
    <2>2. Leads(wire \ {r}, w.rows, row', group)
      BY <1>1, <2>1, LeadsRemoval
    <2> QED
      BY <1>4, <2>1, <2>2, HandledSolo
  <1> QED
    BY <1>5, <1>6, <1>7, <1>8

LEMMA SoloFlowOf ==
    ASSUME BoardType, NEW w, Undisturbed(w, flow, row, group, board), NEW s \in DOMAIN flow,
           NEW f, f = flow[s]
    PROVE  /\ SoloFlow(f, w, row, group) /\ \A t \in DOMAIN flow : t = s
           /\ f.page = w.page /\ ~ f.failed /\ DOMAIN f = FlowFields /\ FlowOK(f)
           /\ w.page \in Pages /\ board[w.page].groups = group /\ BoardOK(board[w.page])
           /\ Table(row) /\ GroupTable(group)
           /\ w.cols # <<>> => InModes(f, w, board[w.page]) /\ Arranges(w, board[w.page])
  <1>1. SoloFlow(f, w, row, group) /\ \A t \in DOMAIN flow : t = s
    BY DEF Undisturbed
  <1>2. f.page = w.page /\ ~ f.failed
    BY <1>1 DEF SoloFlow
  <1> QED
    BY <1>1, <1>2, FlowKept DEF Undisturbed, BoardType

LEMMA WriteOrderSolo ==
    ASSUME BoardType, NEW w, Undisturbed(w, flow, row, group, board), NEW s \in DOMAIN flow, WriteOrder(s)
    PROVE  Undisturbed(w, flow', row', group', board')
  <1> PICK f, pg : f = flow[s] /\ pg = board[w.page]
    OBVIOUS
  <1>1. /\ SoloFlow(f, w, row, group) /\ f.page = w.page /\ ~ f.failed /\ DOMAIN f = FlowFields
        /\ w.page \in Pages /\ BoardOK(pg) /\ Table(row)
        /\ w.cols # <<>> => InModes(f, w, pg)
    BY SoloFlowOf
  <1> DEFINE last == f.at = Len(f.ids)
             on == [f EXCEPT !.at = @ + 1, !.pc = IF last THEN "load" ELSE @]
             fs == [flow EXCEPT ![s] = on]
  <1>2. /\ f.pc = "reorder"
        /\ row' = IF f.ids[f.at] \in DOMAIN row THEN [row EXCEPT ![f.ids[f.at]].order = f.at] ELSE row
        /\ flow' = Older(fs, w.page) /\ group' = group
        /\ board' = [board EXCEPT ![w.page] =
              [(IF last THEN Tangle(w.page, board[w.page]) ELSE board[w.page]) EXCEPT !.dirty = TRUE]]
    BY <1>1 DEF WriteOrder
  <1>3. w.rows = Unplaced(row) /\ Sends(f, w, row) /\ f.wire = {} /\ w.cols # <<>>
    BY <1>1, <1>2 DEF SoloFlow, SoloPatch, SoloOrder, SoloLoad
  <1> PICK p2 : p2 = board'[w.page]
    OBVIOUS
  <1>4. p2.rows = pg.rows /\ p2.groups = pg.groups /\ p2.filter = pg.filter /\ p2.modes = pg.modes
    <2>1. w.page \in DOMAIN board /\ DOMAIN pg = PageFields
      BY <1>1 DEF BoardType, BoardOK, PageBase
    <2> QED
      BY <1>2, <2>1 DEF PageFields, Tangle
  <1>5. DOMAIN w.rows = DOMAIN row
    BY <1>1, <1>3, UnplacedSame
  <1> PICK t2 : t2 = WithOrder(row, f.ids[f.at], f.at)
    OBVIOUS
  <1>6. /\ f.ids[f.at] \in DOMAIN row
        /\ \A a \in 1 .. f.at : t2[f.ids[a]].order = a
        /\ f.at # Len(f.ids) => f.at + 1 \in DOMAIN f.ids
        /\ f.at = Len(f.ids) => Placed(t2, w.cols)
    BY <1>1, <1>3, <1>5, OrderWritten
  <1>7. row' = t2 /\ w.rows = Unplaced(row')
    <2>1. row' = t2
      BY <1>2, <1>6 DEF WithOrder
    <2> QED
      BY <1>1, <1>3, <1>6, <2>1, UnplacedOrdered
  <1>8. /\ on.page = w.page /\ ~ on.failed /\ on.wire = {} /\ on.at = f.at + 1 /\ on.ids = f.ids
        /\ on.pc = IF last THEN "load" ELSE "reorder"
    BY <1>1, <1>2, <1>3 DEF FlowFields
  <1> HIDE DEF on
  <1>9. DOMAIN flow' = DOMAIN flow /\ flow'[s] = on
    <2>1. DOMAIN fs = DOMAIN flow /\ fs[s] = on
      OBVIOUS
    <2> HIDE DEF fs
    <2>2. DOMAIN flow' = DOMAIN fs /\ flow'[s] = IF fs[s].page = w.page /\ fs[s].pc = "answer"
                                                 THEN [fs[s] EXCEPT !.old = TRUE] ELSE fs[s]
      BY <1>2, <2>1 DEF Older
    <2> QED
      BY <1>8, <2>1, <2>2
  <1>10. SoloFlow(on, w, row', group)
    <2>1. CASE last
      <3>1. SoloLoad(on, w, row')
        BY <1>6, <1>7, <1>8, <2>1 DEF SoloLoad
      <3> QED
        BY <1>7, <1>8, <3>1 DEF SoloFlow
    <2>2. CASE ~ last
      <3>1. f.at \in Nat
        BY <1>3, LenProperties DEF Sends
      <3>2. \A a \in 1 .. on.at - 1 : row'[on.ids[a]].order = a
        BY <1>6, <1>7, <1>8, <3>1
      <3>3. Sends(on, w, row')
        BY <1>3, <1>6, <1>8, <2>2, <3>2 DEF Sends
      <3> QED
        BY <1>3, <1>7, <1>8, <2>2, <3>3 DEF SoloFlow, SoloOrder
    <2> QED
      BY <2>1, <2>2
  <1>11. InModes(on, w, p2)
    BY <1>1, <1>2, <1>3, <1>4, <1>8 DEF InModes, ModeAfter
  <1> HIDE DEF fs
  <1> QED
    BY <1>2, <1>4, <1>9, <1>10, <1>11, GoesOnSolo

LEMMA AnswerLoadSolo ==
    ASSUME BoardType, NEW w, Undisturbed(w, flow, row, group, board), NEW s \in DOMAIN flow, AnswerLoad(s)
    PROVE  Undisturbed(w, flow', row', group', board')
  <1> PICK f, pg : f = flow[s] /\ pg = board[w.page]
    OBVIOUS
  <1>1. /\ SoloFlow(f, w, row, group) /\ f.page = w.page /\ ~ f.failed /\ DOMAIN f = FlowFields
        /\ w.cols # <<>> => InModes(f, w, pg)
    BY SoloFlowOf
  <1> PICK g : g = [f EXCEPT !.pc = "answer", !.snap = row]
    OBVIOUS
  <1>2. f.pc = "load" /\ flow' = [flow EXCEPT ![s] = g] /\ row' = row /\ group' = group /\ board' = board
    BY DEF AnswerLoad
  <1>3. w.rows = Unplaced(row) /\ f.wire = {} /\ (w.cols # <<>> => Placed(row, w.cols))
    BY <1>1, <1>2 DEF SoloFlow, SoloPatch, SoloOrder, SoloLoad
  <1>4. g.page = w.page /\ ~ g.failed /\ g.wire = {} /\ g.pc = "answer" /\ g.snap = row
    BY <1>1, <1>3 DEF FlowFields
  <1>5. SoloFlow(g, w, row', group)
    BY <1>2, <1>3, <1>4 DEF SoloFlow, SoloLoad
  <1>6. w.cols # <<>> => InModes(g, w, pg)
    BY <1>1, <1>2, <1>4 DEF InModes, ModeAfter
  <1>7. DOMAIN flow' = DOMAIN flow /\ flow'[s] = g /\ pg = board'[w.page]
    BY <1>2
  <1> QED
    BY <1>2, <1>5, <1>6, <1>7, GoesOnSolo

(* Every request is answered: the columns asked for are shown, and written *)
(* down as the order.                                                      *)
LEMMA PatchedSolo ==
    ASSUME Shapes, BoardType, NEW w, Undisturbed(w, flow, row, group, board), NEW s \in DOMAIN flow, Patched(s)
    PROVE  Undisturbed(w, flow', row', group', board')
  <1> PICK f, pg : f = flow[s] /\ pg = board[w.page]
    OBVIOUS
  <1>1. /\ SoloFlow(f, w, row, group) /\ f.page = w.page /\ ~ f.failed /\ DOMAIN f = FlowFields
        /\ w.page \in Pages /\ BoardOK(pg) /\ pg.groups = group
        /\ w.cols # <<>> => InModes(f, w, pg) /\ Arranges(w, pg)
    BY SoloFlowOf
  <1>2. /\ f.pc = "patch" /\ f.wire = {} /\ row' = row /\ group' = group
    BY DEF Patched
  <1>3. w.rows = Unplaced(row) /\ (f.kind = "drag" <=> w.cols # <<>>) /\ (f.kind = "drag" => f.cols = w.cols)
    <2>1. SoloPatch(f, w, row, group)
      BY <1>1, <1>2 DEF SoloFlow, SoloOrder, SoloLoad
    <2> QED
      BY <1>2, <2>1, LedThere DEF SoloPatch
  <1>4. w.page \in DOMAIN board /\ DOMAIN pg = PageFields
    BY <1>1 DEF BoardType, BoardOK, PageBase
  <1> PICK p2 : p2 = board'[w.page]
    OBVIOUS
  <1>5. CASE f.kind = "drag"
    <2>a. PICK p3 : p3 = [pg EXCEPT !.cols = f.cols,
                          !.modes = [n \in GroupNames |-> IF n \in f.panel THEN "panel" ELSE @[n]]]
      OBVIOUS
    <2> PICK g : g = PersistOrder(w.page, "drag", p3)
      OBVIOUS
    <2>1. board' = [board EXCEPT ![w.page] = p3] /\ flow' = [flow EXCEPT ![s] = g]
      BY <1>1, <1>5, <2>a DEF Patched
    <2>2. p2 = p3
      BY <1>4, <2>1
    <2>3. /\ p3.rows = pg.rows /\ p3.groups = pg.groups /\ p3.filter = pg.filter /\ p3.cols = w.cols
          /\ p3.modes = [n \in GroupNames |-> IF n \in f.panel THEN "panel" ELSE pg.modes[n]]
      BY <1>3, <1>4, <1>5, <2>a DEF PageFields
    <2>4. /\ g.page = w.page /\ ~ g.failed /\ g.wire = {} /\ g.pc = "reorder"
          /\ g.ids = AllIds(p3) /\ g.at = 1
      BY DEF PersistOrder, NewFlow
    <2>5. /\ Columns(pg.groups, w.cols) /\ LaidOut(w.rows, pg.groups, w.cols) /\ OneMain(w.rows, pg.groups)
          /\ DOMAIN pg.rows = DOMAIN w.rows /\ DOMAIN w.rows # {} /\ w.cols # <<>>
      BY <1>1, <1>3, <1>5 DEF Arranges
    <2>6. /\ g.ids \in Seq(Connects) /\ Range(g.ids) = DOMAIN w.rows
          /\ \A i, j \in DOMAIN g.ids : g.ids[i] = g.ids[j] => i = j
          /\ \A key \in Shown(pg.groups) : InTurn(g.ids, w.cols[key])
      <3>1. /\ Table(p3.rows) /\ GroupTable(p3.groups) /\ Columns(p3.groups, p3.cols)
            /\ DOMAIN w.rows = DOMAIN p3.rows
            /\ LaidOut(w.rows, p3.groups, p3.cols) /\ OneMain(w.rows, p3.groups)
        BY <1>1, <2>3, <2>5 DEF BoardOK, PageBase
      <3>2. LET ids == AllIds(p3) IN
            /\ ids \in Seq(Connects)
            /\ \A i, j \in DOMAIN ids : ids[i] = ids[j] => i = j
            /\ Range(ids) = DOMAIN w.rows
            /\ \A key \in Shown(p3.groups) : InTurn(ids, p3.cols[key])
        BY <3>1, AllIdsInTurn
      <3> QED
        BY <2>3, <2>4, <3>2
    <2>7. Sends(g, w, row)
      <3>1. 1 \in DOMAIN g.ids
        <4>1. PICK i \in DOMAIN g.ids : TRUE
          BY <2>5, <2>6 DEF Range
        <4>2. Len(g.ids) \in Nat /\ DOMAIN g.ids = 1 .. Len(g.ids)
          BY <2>6, LenProperties
        <4> QED
          BY <4>1, <4>2
      <3>2. DOMAIN w.cols = Shown(pg.groups)
        BY <2>5 DEF Columns
      <3> QED
        BY <2>4, <2>6, <3>1, <3>2 DEF Sends
    <2>8. SoloFlow(g, w, row', group)
      BY <1>2, <1>3, <2>4, <2>5, <2>7 DEF SoloFlow, SoloOrder
    <2>9. InModes(g, w, p2)
      <3>1. \A key \in DOMAIN w.cols : key \in GroupNames
        BY <1>1, <2>5 DEF Columns, Shown, BoardOK, PageBase, GroupTable
      <3>2. \A key \in DOMAIN w.cols : Standing(w.rows, w.cols[key], ModeAfter(f, pg, key))
        BY <1>1, <2>5 DEF InModes
      <3>3. ASSUME NEW key \in DOMAIN w.cols PROVE ModeAfter(g, p2, key) = ModeAfter(f, pg, key)
        <4>1. ModeAfter(g, p2, key) = p3.modes[key]
          BY <2>2, <2>4 DEF ModeAfter
        <4>2. ModeAfter(f, pg, key) = IF key \in f.panel THEN "panel" ELSE pg.modes[key]
          BY <1>2 DEF ModeAfter
        <4>3. p3.modes[key] = IF key \in f.panel THEN "panel" ELSE pg.modes[key]
          BY <2>3, <3>1
        <4> QED
          BY <4>1, <4>2, <4>3
      <3> QED
        BY <3>2, <3>3 DEF InModes
    <2>10. DOMAIN flow' = DOMAIN flow /\ flow'[s] = g
      BY <2>1
    <2> QED
      BY <1>2, <2>2, <2>3, <2>8, <2>9, <2>10, GoesOnSolo
  <1>6. CASE f.kind # "drag"
    <2> PICK g : g = [f EXCEPT !.pc = "load"]
      OBVIOUS
    <2>1. /\ board' = [board EXCEPT ![w.page] = [Tangle(w.page, board[w.page]) EXCEPT !.loading = TRUE,
                                                   !.sel = IF f.kind = "bulk" THEN {} ELSE @]]
          /\ flow' = [flow EXCEPT ![s] = g]
      BY <1>1, <1>6 DEF Patched
    <2>2. p2.rows = pg.rows /\ p2.groups = pg.groups /\ p2.filter = pg.filter
      BY <1>4, <2>1 DEF PageFields, Tangle
    <2>3. g.page = w.page /\ ~ g.failed /\ g.wire = {} /\ g.pc = "load"
      BY <1>1, <1>2 DEF FlowFields
    <2>4. w.cols = <<>>
      BY <1>3, <1>6
    <2>5. SoloFlow(g, w, row', group)
      BY <1>2, <1>3, <2>3, <2>4 DEF SoloFlow, SoloLoad
    <2>6. DOMAIN flow' = DOMAIN flow /\ flow'[s] = g
      BY <2>1
    <2> QED
      BY <1>2, <2>2, <2>4, <2>5, <2>6, GoesOnSolo
  <1> QED
    BY <1>5, <1>6

LEMMA ApplyLoadSolo ==
    ASSUME Shapes, BoardType, NEW w, Undisturbed(w, flow, row, group, board), NEW s \in DOMAIN flow, ApplyLoad(s)
    PROVE  Undisturbed(w, flow', row', group', board')
  <1> PICK f, pg : f = flow[s] /\ pg = board[w.page]
    OBVIOUS
  <1>1. /\ SoloFlow(f, w, row, group) /\ f.page = w.page /\ FlowOK(f) /\ Table(row)
        /\ w.page \in Pages /\ BoardOK(pg) /\ pg.groups = group /\ \A t \in DOMAIN flow : t = s
        /\ w.cols # <<>> => InModes(f, w, pg) /\ Arranges(w, pg)
    BY SoloFlowOf
  <1>a. PICK base : base = [pg EXCEPT !.rows = f.snap, !.dirty = f.old, !.loading = @ /\ f.quiet]
    OBVIOUS
  <1>2. /\ f.pc = "answer" /\ row' = row /\ group' = group
        /\ board' = [board EXCEPT ![w.page] = Rebuild(base)]
        /\ flow' = Ended(s)
    BY <1>a, <1>1 DEF ApplyLoad
  <1>3. w.rows = Unplaced(row) /\ f.wire = {} /\ (w.cols # <<>> => Placed(row, w.cols)) /\ f.snap = row
    BY <1>1, <1>2 DEF SoloFlow, SoloPatch, SoloOrder, SoloLoad
  <1>4. DOMAIN flow' = {}
    BY <1>1, <1>2, <1>3, EndedIs
  <1>5. /\ PageBase(base) /\ base.rows = row /\ base.groups = group /\ base.filter = pg.filter
        /\ base.modes = pg.modes
    <2>1. f.old \in BOOLEAN
      BY <1>1 DEF FlowOK
    <2> QED
      BY <1>a, <1>1, <1>3, <2>1 DEF BoardOK, PageBase, PageFields
  <1> PICK p2 : p2 = Rebuild(base)
    OBVIOUS
  <1>6. board'[w.page] = p2
    BY <1>1, <1>2 DEF BoardType
  <1>7. p2.rows = row /\ p2.groups = group /\ p2.filter = pg.filter
    <2>1. \A x \in PageFields \ {"cols"} : Rebuild(base)[x] = base[x]
      BY <1>5, RebuildType
    <2> QED
      BY <1>5, <2>1 DEF PageFields
  <1>8. ASSUME w.cols # <<>> PROVE p2.cols = w.cols /\ Arranges(w, p2)
    <2>1. /\ Columns(pg.groups, w.cols) /\ LaidOut(w.rows, pg.groups, w.cols) /\ OneMain(w.rows, pg.groups)
          /\ pg.filter = NoFilter /\ DOMAIN w.rows # {} /\ InModes(f, w, pg)
      BY <1>1, <1>8 DEF Arranges
    <2>2. /\ DOMAIN w.rows = DOMAIN row
          /\ \A d \in DOMAIN row : w.rows[d].tags = row[d].tags /\ w.rows[d].name = row[d].name
      BY <1>1, <1>3, UnplacedSame
    <2>3. LaidOut(row, base.groups, w.cols)
      BY <1>1, <1>5, <2>1, <2>2, LaidOutAlike
    <2>4. ASSUME NEW key \in Shown(base.groups)
          PROVE  /\ Standing(base.rows, w.cols[key], base.modes[key])
                 /\ \A i, j \in DOMAIN w.cols[key] :
                       i < j => base.rows[w.cols[key][i]].order < base.rows[w.cols[key][j]].order
      <3>1. key \in DOMAIN w.cols
        BY <1>1, <1>5, <2>1 DEF Columns
      <3>2. Standing(w.rows, w.cols[key], pg.modes[key])
        BY <1>2, <2>1, <3>1 DEF InModes, ModeAfter
      <3>3. Range(w.cols[key]) \subseteq DOMAIN w.rows
        BY <1>1, <1>5, <2>1 DEF LaidOut
      <3>4. Standing(row, w.cols[key], pg.modes[key])
        BY <2>2, <3>2, <3>3, StandingAlike
      <3>5. \A i, j \in DOMAIN w.cols[key] : i < j => row[w.cols[key][i]].order < row[w.cols[key][j]].order
        BY <1>3, <1>8, <3>1 DEF Placed
      <3> QED
        BY <1>5, <3>4, <3>5
    <2>5. Columns(base.groups, w.cols) /\ base.filter = NoFilter /\ LaidOut(base.rows, base.groups, w.cols)
      BY <1>1, <1>5, <2>1, <2>3
    <2>6. p2.cols = w.cols
      BY <1>5, <2>4, <2>5, RebuiltAs
    <2> QED
      BY <1>1, <1>7, <2>1, <2>2, <2>6 DEF Arranges
  <1>9. AtRest(w, row, p2)
    BY <1>3, <1>7, <1>8 DEF AtRest
  <1> QED
    BY <1>1, <1>2, <1>4, <1>6, <1>7, <1>8, <1>9 DEF Undisturbed

(* The columns of a page stay whole.                                       *)
Reloads == {"reorder", "load", "answer"}

BeginsFor(s, p) ==
    \E kind, pg, f, w : /\ Begin(s, kind, p, pg, f, w)
                        /\ f.page = p /\ (f.pc \in Reloads \/ pg = board[p])

LEMMA GestureBegins ==
    ASSUME NEW s, NEW p, Gesture(s, p)
    PROVE  BeginsFor(s, p)
  <1>1. \A kind : LET f == NewFlow(p, kind) IN
           f.page = p /\ f.pc = "patch" /\ DOMAIN f = FlowFields
    BY DEF NewFlow, FlowFields
  <1>2. \A kind, pg : LET f == PersistOrder(p, kind, pg) IN f.page = p /\ f.pc = "reorder"
    BY DEF PersistOrder, NewFlow
  <1>3. ASSUME NEW kind, NEW pg, NEW f, NEW w, Begin(s, kind, p, pg, f, w), f.page = p,
               f.pc \in Reloads \/ pg = board[p]
        PROVE  BeginsFor(s, p)
    BY <1>3 DEF BeginsFor
  <1>4. ASSUME NEW c, NEW from, NEW to, NEW k, Drag(s, p, c, from, to, k) PROVE BeginsFor(s, p)
    <2> DEFINE pg == board[p]
               cols == IF DragSeveral(pg, c) THEN Merged(pg, to, k) ELSE Dropped(pg, c, from, to, k)
               show == [pg EXCEPT !.cols = cols,
                          !.modes = [n \in GroupNames |-> IF n \in {from, to} THEN "panel" ELSE @[n]]]
               patch == [NewFlow(p, "drag") EXCEPT !.quiet = TRUE, !.cols = cols, !.panel = {from, to},
                          !.wire = {Req("tags", d, TagsFor(pg, d, to)) : d \in DragMoves(pg, c)}]
    <2>1. PICK w : Begin(s, "drag", p, IF from = to THEN show ELSE pg,
                           IF from = to THEN PersistOrder(p, "drag", show) ELSE patch, w)
      BY <1>4 DEF Drag, Edited, DragSeveral, DragMoves
    <2> HIDE DEF cols
    <2>2. patch.page = p
      BY <1>1 DEF FlowFields
    <2> HIDE DEF show, patch
    <2>3. CASE from = to
      <3>1. Begin(s, "drag", p, show, PersistOrder(p, "drag", show), w)
        BY <2>1, <2>3
      <3> QED
        BY <1>2, <1>3, <3>1 DEF Reloads
    <2>4. CASE from # to
      <3>1. Begin(s, "drag", p, pg, patch, w)
        BY <2>1, <2>4
      <3> QED
        BY <1>3, <2>2, <3>1
    <2> QED
      BY <2>3, <2>4
  <1>5. ASSUME NEW key, NEW mode, SortPick(s, p, key, mode) PROVE BeginsFor(s, p)
    <2>1. PICK pg, w : Begin(s, "sort", p, pg, PersistOrder(p, "sort", pg), w)
      BY <1>5 DEF SortPick
    <2> QED
      BY <1>2, <1>3, <2>1 DEF Reloads
  <1>6. ASSUME NEW key, NEW ids, Shuffle(s, p, key, ids) PROVE BeginsFor(s, p)
    <2>1. PICK pg, w : Begin(s, "sort", p, pg, PersistOrder(p, "sort", pg), w)
      BY <1>6 DEF Shuffle
    <2> QED
      BY <1>2, <1>3, <2>1 DEF Reloads
  <1>7. ASSUME NEW n, NEW adding, Bulk(s, p, {n}, adding) PROVE BeginsFor(s, p)
    <2> DEFINE wire == {Req("tags", c, BulkTags(board[p], c, {n}, adding)) : c \in board[p].sel}
               f == [NewFlow(p, "bulk") EXCEPT !.wire = wire]
    <2>1. PICK w : Begin(s, "bulk", p, board[p], f, w)
      BY <1>7 DEF Bulk, Edited
    <2> HIDE DEF wire
    <2>2. f.page = p
      BY <1>1 DEF FlowFields
    <2> HIDE DEF f
    <2> QED
      BY <1>3, <2>1, <2>2
  <1>8. ASSUME NEW c, NEW what, NEW value, ChangeCard(s, p, c, what, value) PROVE BeginsFor(s, p)
    <2> DEFINE f == [NewFlow(p, what) EXCEPT !.wire = {Req(what, c, value)}]
    <2>1. PICK w : Begin(s, what, p, board[p], f, w)
      BY <1>8 DEF ChangeCard, Edited
    <2>2. f.page = p
      BY <1>1 DEF FlowFields
    <2> HIDE DEF f
    <2> QED
      BY <1>3, <2>1, <2>2
  <1>9. CASE Refresh(s, p) \/ Open(s, p)
    <2> DEFINE f(kind) == [NewFlow(p, kind) EXCEPT !.pc = "load"]
    <2>1. PICK kind, pg : Begin(s, kind, p, pg, f(kind), {})
      BY <1>9 DEF Refresh, Open
    <2>2. f(kind).page = p /\ f(kind).pc = "load"
      BY <1>1 DEF FlowFields
    <2> HIDE DEF f
    <2> QED
      BY <1>3, <2>1, <2>2 DEF Reloads
  <1> QED
    BY <1>4, <1>5, <1>6, <1>7, <1>8, <1>9 DEF Gesture

ShelfAt(p) == Busy(p) \/ (board[p].filter = NoFilter => Shelved(board[p]))

LEMMA ShelfKept ==
    ASSUME NEW p, ShelfAt(p), SameShelf(board[p], board'[p]), Busy(p) => Busy(p)'
    PROVE  ShelfAt(p)'
  <1>1. /\ board'[p].rows = board[p].rows /\ board'[p].groups = board[p].groups
        /\ board'[p].cols = board[p].cols /\ board'[p].modes = board[p].modes
        /\ board'[p].filter = board[p].filter
    BY DEF SameShelf
  <1>2. Shelved(board[p]) => Shelved(board'[p])
    BY <1>1 DEF Shelved
  <1> QED
    BY <1>1, <1>2 DEF ShelfAt

LEMMA BeginShelf ==
    ASSUME BoardType, Shelf, NEW s, NEW p \in Pages, BeginsFor(s, p)
    PROVE  Shelf'
  <1>1. PICK kind, pg, f, w : /\ Begin(s, kind, p, pg, f, w)
                              /\ f.page = p /\ (f.pc \in Reloads \/ pg = board[p])
    BY DEF BeginsFor
  <1>2. /\ s \notin DOMAIN flow
        /\ flow' = [q \in DOMAIN flow \cup {s} |-> IF q = s THEN f ELSE flow[q]]
        /\ board' = [board EXCEPT ![p] = pg]
    BY <1>1 DEF Begin
  <1>3. \A t \in DOMAIN flow : t \in DOMAIN flow' /\ flow'[t] = flow[t]
    BY <1>2
  <1>4. SUFFICES ASSUME NEW q \in Pages PROVE ShelfAt(q)'
    BY DEF Shelf, ShelfAt
  <1>5. ShelfAt(q)
    BY DEF Shelf, ShelfAt
  <1>6. Busy(q) => Busy(q)'
    BY <1>3 DEF Busy
  <1>7. CASE board'[q] = board[q]
    <2>1. SameShelf(board[q], board'[q])
      BY <1>7 DEF SameShelf
    <2> QED
      BY <1>5, <1>6, <2>1, ShelfKept
  <1>8. CASE q = p /\ f.pc \in Reloads
    <2>1. s \in DOMAIN flow' /\ flow'[s] = f
      BY <1>2
    <2>2. Busy(q)'
      BY <1>1, <1>8, <2>1 DEF Busy, Reloads
    <2> QED
      BY <2>2 DEF ShelfAt
  <1>9. q # p \/ (pg = board[p] /\ p \in DOMAIN board) => board'[q] = board[q]
    BY <1>2
  <1> QED
    BY <1>1, <1>7, <1>8, <1>9 DEF BoardType

(* A step of one flow.                                                     *)
LEMMA OneFlowShelf ==
    ASSUME BoardType, Shelf, NEW s \in DOMAIN flow, NEW p, p = flow[s].page,
           \A q \in Pages \ {p} : board'[q] = board[q],
           \A t \in DOMAIN flow : t # s =>
              t \in DOMAIN flow' /\ flow'[t].page = flow[t].page /\ flow'[t].pc = flow[t].pc,
           \/ s \in DOMAIN flow' /\ flow'[s].page = p /\ flow'[s].pc \in Reloads
           \/ flow[s].pc \notin Reloads /\ SameShelf(board[p], board'[p])
           \/ board'[p].filter = NoFilter => Shelved(board'[p])
    PROVE  Shelf'
  <1>1. SUFFICES ASSUME NEW q \in Pages PROVE ShelfAt(q)'
    BY DEF Shelf, ShelfAt
  <1>2. ShelfAt(q)
    BY DEF Shelf, ShelfAt
  <1>3. CASE q # p
    <2>1. SameShelf(board[q], board'[q])
      BY <1>3 DEF SameShelf
    <2>2. Busy(q) => Busy(q)'
      BY <1>3 DEF Busy
    <2> QED
      BY <1>2, <2>1, <2>2, ShelfKept
  <1>4. CASE q = p
    <2>1. CASE s \in DOMAIN flow' /\ flow'[s].page = p /\ flow'[s].pc \in Reloads
      BY <1>4, <2>1 DEF ShelfAt, Busy, Reloads
    <2>2. CASE flow[s].pc \notin Reloads /\ SameShelf(board[p], board'[p])
      <3>1. Busy(q) => Busy(q)'
        BY <1>4, <2>2 DEF Busy, Reloads
      <3> QED
        BY <1>2, <1>4, <2>2, <3>1, ShelfKept
    <2>3. CASE board'[p].filter = NoFilter => Shelved(board'[p])
      BY <1>4, <2>3 DEF ShelfAt
    <2> QED
      BY <2>1, <2>2, <2>3
  <1> QED
    BY <1>3, <1>4

LEMMA EndedPlaces ==
    ASSUME BoardType, NEW s \in DOMAIN flow, flow' = Ended(s)
    PROVE  \A t \in DOMAIN flow : t # s =>
              t \in DOMAIN flow' /\ flow'[t].page = flow[t].page /\ flow'[t].pc = flow[t].pc
  BY EndedIs

LEMMA HandledShelf ==
    ASSUME BoardType, Shelf, NEW s \in DOMAIN flow, NEW r \in flow[s].wire, NEW ok \in BOOLEAN, NEW more,
           Handled(s, r, ok, more)
    PROVE  Shelf'
  <1> PICK p : p = flow[s].page
    OBVIOUS
  <1> DEFINE f == [flow[s] EXCEPT !.wire = (@ \ {r}) \cup more, !.failed = @ \/ ~ ok]
             fs == [flow EXCEPT ![s] = f]
  <1>1. /\ DOMAIN flow[s] = FlowFields /\ p \in Pages /\ BoardOK(board[p])
        /\ \A t \in DOMAIN flow : DOMAIN flow[t] = FlowFields
    BY FlowKept
  <1>2. f.page = p /\ f.pc = flow[s].pc /\ DOMAIN f = FlowFields
    BY <1>1 DEF FlowFields
  <1>3. /\ flow' = IF f.pc = "gone" /\ f.wire = {} THEN Restrict(flow, DOMAIN flow \ {s})
                   ELSE IF ok /\ more = {} THEN Older(fs, f.page) ELSE fs
        /\ board' = [board EXCEPT ![f.page].dirty = @ \/ (ok /\ more = {})]
    BY DEF Handled
  <1> HIDE DEF f
  <1>4. /\ DOMAIN fs = DOMAIN flow /\ fs[s] = f /\ \A t \in DOMAIN flow : t # s => fs[t] = flow[t]
    OBVIOUS
  <1> HIDE DEF fs
  <1>5. \A t \in DOMAIN flow : DOMAIN fs[t] = FlowFields /\ fs[t].page = flow[t].page /\ fs[t].pc = flow[t].pc
    BY <1>1, <1>2, <1>4
  <1>6. ASSUME NEW t \in DOMAIN flow, t # s \/ f.pc # "gone"
        PROVE  t \in DOMAIN flow' /\ flow'[t].page = flow[t].page /\ flow'[t].pc = flow[t].pc
    <2>1. CASE f.pc = "gone" /\ f.wire = {}
      BY <1>3, <1>6, <2>1 DEF Restrict
    <2>2. CASE flow' = fs
      BY <1>4, <1>5, <2>2
    <2>3. CASE flow' = Older(fs, f.page)
      <3>1. t \in DOMAIN flow' /\ flow'[t] = IF fs[t].page = f.page /\ fs[t].pc = "answer"
                                             THEN [fs[t] EXCEPT !.old = TRUE] ELSE fs[t]
        BY <1>4, <2>3 DEF Older
      <3> QED
        BY <1>5, <3>1 DEF FlowFields
    <2> QED
      BY <1>3, <2>1, <2>2, <2>3
  <1>7. SameShelf(board[p], board'[p]) /\ \A q \in Pages \ {p} : board'[q] = board[q]
    <2>1. board' = [board EXCEPT ![p].dirty = @ \/ (ok /\ more = {})]
      BY <1>2, <1>3
    <2> QED
      BY <1>1, <2>1 DEF SameShelf, BoardType, BoardOK, PageBase, PageFields
  <1>8. CASE f.pc = "gone"
    <2>1. flow[s].pc \notin Reloads
      BY <1>2, <1>8 DEF Reloads
    <2> QED
      BY <1>6, <1>7, <2>1, OneFlowShelf
  <1>9. CASE f.pc # "gone"
    <2>1. s \in DOMAIN flow' /\ flow'[s].page = p /\ flow'[s].pc = flow[s].pc
      BY <1>6, <1>9
    <2> QED
      BY <1>6, <1>7, <2>1, OneFlowShelf
  <1> QED
    BY <1>8, <1>9

LEMMA ServerShelf ==
    ASSUME BoardType, Shelf, NEW s \in DOMAIN flow, Server(s)
    PROVE  Shelf'
  <1> PICK p : p = flow[s].page
    OBVIOUS
  <1>1. /\ DOMAIN flow[s] = FlowFields /\ p \in Pages /\ BoardOK(board[p]) /\ p \in DOMAIN board
        /\ \A t \in DOMAIN flow : DOMAIN flow[t] = FlowFields
    BY FlowKept DEF BoardType
  <1>2. ASSUME NEW r \in flow[s].wire,
               SetConnectGroups(s, r) \/ ReadStatus(s, r) \/ WriteField(s, r) \/ RemoveConnect(s, r)
        PROVE  Shelf'
    <2>1. \E ok \in BOOLEAN : \E more : Handled(s, r, ok, more)
      <3>1. ASSUME NEW ok \in BOOLEAN, NEW more, Handled(s, r, ok, more)
            PROVE  <2>1
        BY <3>1
      <3>2. CASE SetConnectGroups(s, r)
        <4> DEFINE ok == /\ r.id \in DOMAIN row
                         /\ Cardinality(Normalized(r.val) \cap MainsOf(group)) <= 1
        <4>1. Handled(s, r, ok, {}) /\ ok \in BOOLEAN
          BY <3>2 DEF SetConnectGroups
        <4> HIDE DEF ok
        <4> QED
          BY <3>1, <4>1
      <3>3. CASE ReadStatus(s, r)
        <4> DEFINE ok == r.id \in DOMAIN row
                   more == IF ok THEN {Req("on", r.id, ~ row[r.id].on)} ELSE {}
        <4>1. Handled(s, r, ok, more) /\ ok \in BOOLEAN
          BY <3>3 DEF ReadStatus
        <4> HIDE DEF ok, more
        <4> QED
          BY <3>1, <4>1
      <3>4. CASE WriteField(s, r) \/ RemoveConnect(s, r)
        <4> DEFINE ok == r.id \in DOMAIN row
        <4>1. Handled(s, r, ok, {}) /\ ok \in BOOLEAN
          BY <3>4 DEF WriteField, RemoveConnect
        <4> HIDE DEF ok
        <4> QED
          BY <3>1, <4>1
      <3> QED
        BY <1>2, <3>2, <3>3, <3>4
    <2> QED
      BY <2>1, HandledShelf
  <1>3. CASE WriteOrder(s)
    <2> DEFINE last == flow[s].at = Len(flow[s].ids)
               g == [flow[s] EXCEPT !.at = @ + 1, !.pc = IF last THEN "load" ELSE @]
               fs == [flow EXCEPT ![s] = g]
               pg == [(IF last THEN Tangle(p, board[p]) ELSE board[p]) EXCEPT !.dirty = TRUE]
    <2>1. /\ flow[s].pc = "reorder" /\ flow' = Older(fs, p)
          /\ board' = [board EXCEPT ![p] = pg]
      BY <1>3 DEF WriteOrder
    <2>2. g.page = p /\ g.pc \in {"reorder", "load"} /\ DOMAIN g = FlowFields
      BY <1>1, <2>1 DEF FlowFields
    <2> HIDE DEF g, pg
    <2>3. DOMAIN fs = DOMAIN flow /\ fs[s] = g /\ \A t \in DOMAIN flow : t # s => fs[t] = flow[t]
      OBVIOUS
    <2> HIDE DEF fs
    <2>4. \A t \in DOMAIN flow :
             t \in DOMAIN flow' /\ flow'[t] = IF fs[t].page = p /\ fs[t].pc = "answer"
                                              THEN [fs[t] EXCEPT !.old = TRUE] ELSE fs[t]
      BY <2>1, <2>3 DEF Older
    <2>5. \A t \in DOMAIN flow : DOMAIN fs[t] = FlowFields
      BY <1>1, <2>2, <2>3
    <2>6. \A t \in DOMAIN flow : flow'[t].page = fs[t].page /\ flow'[t].pc = fs[t].pc
      BY <2>4, <2>5 DEF FlowFields
    <2>7. \A q \in Pages \ {p} : board'[q] = board[q]
      BY <2>1
    <2>8. s \in DOMAIN flow' /\ flow'[s].page = p /\ flow'[s].pc \in Reloads
      BY <2>2, <2>3, <2>4, <2>6 DEF Reloads
    <2>9. \A t \in DOMAIN flow : t # s =>
             t \in DOMAIN flow' /\ flow'[t].page = flow[t].page /\ flow'[t].pc = flow[t].pc
      BY <2>3, <2>4, <2>6
    <2> QED
      BY <2>7, <2>8, <2>9, OneFlowShelf
  <1>4. CASE AnswerLoad(s)
    <2> PICK g : g = [flow[s] EXCEPT !.pc = "answer", !.snap = row]
      OBVIOUS
    <2>1. board' = board /\ flow' = [flow EXCEPT ![s] = g]
      BY <1>4 DEF AnswerLoad
    <2>2. g.page = p /\ g.pc = "answer"
      BY <1>1 DEF FlowFields
    <2>3. s \in DOMAIN flow' /\ flow'[s].page = p /\ flow'[s].pc \in Reloads
      BY <2>1, <2>2 DEF Reloads
    <2> QED
      BY <2>1, <2>3, OneFlowShelf
  <1>5. CASE WriteGroupOrder(s)
    <2>1. /\ flow[s].pc = "groups" /\ board' = board
          /\ flow' = Ended(s) \/ flow' = [flow EXCEPT ![s].at = @ + 1]
      BY <1>5 DEF WriteGroupOrder
    <2>2. \A t \in DOMAIN flow : t # s =>
             t \in DOMAIN flow' /\ flow'[t].page = flow[t].page /\ flow'[t].pc = flow[t].pc
      BY <2>1, EndedPlaces
    <2>3. flow[s].pc \notin Reloads /\ SameShelf(board[p], board'[p])
      BY <2>1 DEF Reloads, SameShelf
    <2> QED
      BY <2>1, <2>2, <2>3, OneFlowShelf
  <1> QED
    BY <1>2, <1>3, <1>4, <1>5 DEF Server

LEMMA PageStepShelf ==
    ASSUME Shapes, BoardType, Shelf, NEW s \in DOMAIN flow, Patched(s) \/ PatchFailed(s) \/ ApplyLoad(s)
    PROVE  Shelf'
  <1> PICK p : p = flow[s].page
    OBVIOUS
  <1>1. /\ DOMAIN flow[s] = FlowFields /\ p \in Pages /\ BoardOK(board[p]) /\ p \in DOMAIN board
        /\ FlowOK(flow[s])
    BY FlowKept DEF BoardType
  <1>2. CASE Patched(s)
    <2>1. \E g, pg : /\ g.page = p /\ g.pc \in Reloads
                     /\ flow' = [flow EXCEPT ![s] = g] /\ board' = [board EXCEPT ![p] = pg]
      <3>1. CASE flow[s].kind = "drag"
        <4>1. \A pg : PersistOrder(p, "drag", pg).page = p /\ PersistOrder(p, "drag", pg).pc = "reorder"
          BY DEF PersistOrder, NewFlow
        <4>2. \E pg : /\ flow' = [flow EXCEPT ![s] = PersistOrder(p, "drag", pg)]
                      /\ board' = [board EXCEPT ![p] = pg]
          BY <1>2, <3>1 DEF Patched
        <4> QED
          BY <4>1, <4>2 DEF Reloads
      <3>2. CASE flow[s].kind # "drag"
        <4> PICK g : g = [flow[s] EXCEPT !.pc = "load"]
          OBVIOUS
        <4>1. flow' = [flow EXCEPT ![s] = g] /\ \E pg : board' = [board EXCEPT ![p] = pg]
          BY <1>2, <3>2 DEF Patched
        <4>2. g.page = p /\ g.pc = "load"
          BY <1>1 DEF FlowFields
        <4> QED
          BY <4>1, <4>2 DEF Reloads
      <3> QED
        BY <3>1, <3>2
    <2>2. /\ \A q \in Pages \ {p} : board'[q] = board[q]
          /\ s \in DOMAIN flow' /\ flow'[s].page = p /\ flow'[s].pc \in Reloads
          /\ \A t \in DOMAIN flow : t # s => t \in DOMAIN flow' /\ flow'[t] = flow[t]
      BY <2>1
    <2> QED
      BY <2>2, OneFlowShelf
  <1>3. CASE PatchFailed(s)
    <2> PICK pg : pg = [board[p] EXCEPT !.tangled = TRUE]
      OBVIOUS
    <2> PICK g : g = [flow[s] EXCEPT !.pc = "load"]
      OBVIOUS
    <2>1. /\ flow[s].pc = "patch" /\ board' = [board EXCEPT ![p] = pg]
          /\ flow' = [flow EXCEPT ![s] = g] \/ flow' = Ended(s)
      BY <1>3 DEF PatchFailed
    <2>2. \A q \in Pages \ {p} : board'[q] = board[q]
      BY <2>1
    <2>3. board'[p] = pg /\ SameShelf(board[p], pg)
      BY <1>1, <2>1 DEF SameShelf, BoardOK, PageBase, PageFields
    <2>4. \A t \in DOMAIN flow : t # s =>
             t \in DOMAIN flow' /\ flow'[t].page = flow[t].page /\ flow'[t].pc = flow[t].pc
      BY <2>1, EndedPlaces
    <2>5. flow[s].pc \notin Reloads /\ SameShelf(board[p], board'[p])
      BY <2>1, <2>3 DEF Reloads
    <2> QED
      BY <2>2, <2>4, <2>5, OneFlowShelf
  <1>4. CASE ApplyLoad(s)
    <2> DEFINE f == flow[s]
               base == [board[p] EXCEPT !.rows = f.snap, !.dirty = f.old, !.loading = @ /\ f.quiet]
    <2>1. f.pc = "answer" /\ flow' = Ended(s) /\ board' = [board EXCEPT ![p] = Rebuild(base)]
      BY <1>4 DEF ApplyLoad
    <2>2. PageBase(base)
      <3>1. Table(f.snap) /\ f.old \in BOOLEAN
        BY <1>1, <2>1 DEF FlowOK
      <3> HIDE DEF f
      <3> QED
        BY <1>1, <3>1 DEF BoardOK, PageBase, PageFields
    <2> HIDE DEF base
    <2>3. Rebuild(base).filter = base.filter
      BY <2>2, RebuildType DEF PageFields
    <2>4. base.filter = NoFilter => Shelved(Rebuild(base))
      BY <2>2, RebuiltShelved
    <2>5. board'[p] = Rebuild(base) /\ \A q \in Pages \ {p} : board'[q] = board[q]
      BY <1>1, <2>1
    <2>6. \A t \in DOMAIN flow : t # s =>
             t \in DOMAIN flow' /\ flow'[t].page = flow[t].page /\ flow'[t].pc = flow[t].pc
      BY <2>1, EndedPlaces
    <2>7. board'[p].filter = NoFilter => Shelved(board'[p])
      BY <2>3, <2>4, <2>5
    <2> QED
      BY <2>5, <2>6, <2>7, OneFlowShelf
  <1> QED
    BY <1>2, <1>3, <1>4

LEMMA StepShelf ==
    ASSUME Shapes, BoardType, Shelf, [BoardNext]_(boardVars)
    PROVE  Shelf'
  <1>1. ASSUME \A p \in Pages : SameShelf(board[p], board'[p]),
               \A t \in DOMAIN flow : t \in DOMAIN flow' /\ flow'[t] = flow[t]
        PROVE  Shelf'
    <2> SUFFICES ASSUME NEW p \in Pages PROVE ShelfAt(p)'
      BY DEF Shelf, ShelfAt
    <2>1. ShelfAt(p)
      BY DEF Shelf, ShelfAt
    <2>2. Busy(p) => Busy(p)'
      BY <1>1 DEF Busy
    <2> QED
      BY <1>1, <2>1, <2>2, ShelfKept
  <1>2. CASE UNCHANGED boardVars
    BY <1>1, <1>2 DEF boardVars, SameShelf
  <1>3. ASSUME NEW s \in FlowSlots, NEW p \in Pages, Gesture(s, p) PROVE Shelf'
    BY <1>3, GestureBegins, BeginShelf
  <1>4. ASSUME NEW s \in DOMAIN flow, Server(s) \/ Patched(s) \/ PatchFailed(s) \/ ApplyLoad(s)
        PROVE  Shelf'
    BY <1>4, ServerShelf, PageStepShelf
  <1>5. ASSUME NEW p \in Pages, NEW on \in BOOLEAN, NEW ids, Select(p, ids, on) PROVE Shelf'
    <2>1. flow' = flow /\ board' = [board EXCEPT ![p].sel = IF on THEN @ \cup ids ELSE @ \ ids]
      BY <1>5 DEF Select
    <2>2. \A q \in Pages : SameShelf(board[q], board'[q])
      BY <2>1 DEF SameShelf, BoardType, BoardOK, PageBase, PageFields
    <2> QED
      BY <1>1, <2>1, <2>2
  <1>6. ASSUME NEW p \in Pages, NEW f, SetFilter(p, f) PROVE Shelf'
    <2> DEFINE base == [board[p] EXCEPT !.filter = f]
    <2>1. flow' = flow /\ board' = [board EXCEPT ![p] = Rebuild(base)]
      BY <1>6 DEF SetFilter
    <2>2. PageBase(base)
      BY DEF BoardType, BoardOK, PageBase, PageFields
    <2> HIDE DEF base
    <2>3. Rebuild(base).filter = base.filter /\ (base.filter = NoFilter => Shelved(Rebuild(base)))
      BY <2>2, RebuildType, RebuiltShelved DEF PageFields
    <2>4. board'[p] = Rebuild(base) /\ \A q \in Pages \ {p} : board'[q] = board[q]
      BY <2>1 DEF BoardType
    <2> SUFFICES ASSUME NEW q \in Pages PROVE ShelfAt(q)'
      BY DEF Shelf, ShelfAt
    <2>5. CASE q = p
      BY <2>3, <2>4, <2>5 DEF ShelfAt
    <2>6. CASE q # p
      <3>1. ShelfAt(q) /\ SameShelf(board[q], board'[q])
        BY <2>4, <2>6 DEF Shelf, ShelfAt, SameShelf
      <3>2. Busy(q) => Busy(q)'
        BY <2>1 DEF Busy
      <3> QED
        BY <3>1, <3>2, ShelfKept
    <2> QED
      BY <2>5, <2>6
  <1>7. ASSUME Others PROVE Shelf'
    <2>1. board' = board
      BY <1>7 DEF Others, SyncAdds, SyncDeletes, SetMain, ReorderGroups, Elsewhere
    <2>2. \A t \in DOMAIN flow : t \in DOMAIN flow' /\ flow'[t] = flow[t]
      BY <1>7 DEF Others, SyncAdds, SyncDeletes, SetMain, ReorderGroups
    <2> QED
      BY <1>1, <2>1, <2>2 DEF SameShelf
  <1> QED
    BY <1>2, <1>3, <1>4, <1>5, <1>6, <1>7 DEF BoardNext

LEMMA InitShelf ==
    ASSUME BoardInit
    PROVE  Shelf
  <1> DEFINE base == [rows |-> row, groups |-> group, cols |-> <<>>,
                   modes |-> [n \in GroupNames |-> "panel"], sel |-> {}, filter |-> NoFilter,
                   loading |-> FALSE, dirty |-> FALSE, tangled |-> FALSE]
  <1>1. board = [p \in Pages |-> Rebuild(base)]
    BY DEF BoardInit
  <1>2. BoardType /\ Shapes
    BY BoardInitType, ShapesGiven
  <1>3. PageBase(base) /\ base.filter = NoFilter
    BY <1>2 DEF BoardType, PageBase, PageFields, Modes
  <1> HIDE DEF base
  <1>4. Shelved(Rebuild(base))
    BY <1>2, <1>3, RebuiltShelved
  <1> QED
    BY <1>1, <1>4 DEF Shelf

LEMMA StandsInPanel ==
    ASSUME NEW tbl, NEW ids
    PROVE  Standing(tbl, ids, "panel")
  BY DEF Standing, Precedes

(* Requests that give every connect of S its groups.                       *)
TagsAsked(wire, asked, tbl, gs, S, v) ==
    /\ S \subseteq DOMAIN tbl /\ wire = {Req("tags", d, v[d]) : d \in S}
    /\ \A d \in S : \A m, n \in Normalized(v[d]) \cap MainsOf(gs) : m = n
    /\ DOMAIN asked = DOMAIN tbl /\ asked = [c \in DOMAIN tbl |-> asked[c]]
    /\ \A c \in S : asked[c] = [tbl[c] EXCEPT !.tags = Normalized(v[c]), !.order = 0]
    /\ \A c \in DOMAIN tbl \ S : asked[c] = [tbl[c] EXCEPT !.order = 0]

LEMMA TagsLead ==
    ASSUME NEW wire, NEW asked, NEW tbl, NEW gs, NEW S, NEW v, TagsAsked(wire, asked, tbl, gs, S, v)
    PROVE  Leads(wire, asked, tbl, gs)
  <1> USE DEF TagsAsked
  <1>1. ASSUME NEW r \in wire
        PROVE  r.id \in S /\ r.kind = "tags" /\ r.val = v[r.id] /\ r = Req("tags", r.id, v[r.id])
    <2>1. PICK d \in S : r = Req("tags", d, v[d])
      OBVIOUS
    <2> QED
      BY <2>1 DEF Req
  <1>2. \A r, q \in wire : r.id = q.id => r = q
    BY <1>1
  <1>3. ASSUME NEW r \in wire
        PROVE  /\ r.id \in DOMAIN tbl
               /\ r.kind \in {"tags", "toggle", "on", "name", "json", "remove"}
               /\ r.kind = "tags" => \A m, n \in Normalized(r.val) \cap MainsOf(gs) : m = n
               /\ r.kind = "remove" => r.id \notin DOMAIN asked
               /\ r.kind # "remove" => r.id \in DOMAIN asked /\ asked[r.id] = CarriedOut(tbl[r.id], r)
    <2>1. r.id \in S /\ r.kind = "tags" /\ r.val = v[r.id]
      BY <1>1
    <2>2. CarriedOut(tbl[r.id], r) = [tbl[r.id] EXCEPT !.tags = Normalized(r.val), !.order = 0]
      BY <2>1 DEF CarriedOut
    <2>3. asked[r.id] = CarriedOut(tbl[r.id], r)
      <3>1. r.id \in S /\ r.val = v[r.id]
        BY <2>1
      <3> PICK d : d = r.id
        OBVIOUS
      <3>2. asked[d] = [tbl[d] EXCEPT !.tags = Normalized(v[d]), !.order = 0]
        BY <3>1
      <3> QED
        BY <2>2, <3>1, <3>2
    <2>4. \A m, n \in Normalized(r.val) \cap MainsOf(gs) : m = n
      BY <2>1
    <2>5. r.id \in DOMAIN tbl /\ r.id \in DOMAIN asked
      BY <2>1
    <2> QED
      BY <2>1, <2>3, <2>4, <2>5
  <1>4. ASSUME NEW c \in DOMAIN tbl, \A r \in wire : r.id # c
        PROVE  c \in DOMAIN asked /\ asked[c] = [tbl[c] EXCEPT !.order = 0]
    <2>1. c \notin S
      <3>1. ASSUME c \in S PROVE FALSE
        <4>1. Req("tags", c, v[c]) \in wire /\ Req("tags", c, v[c]).id = c
          BY <3>1 DEF Req
        <4> QED
          BY <1>4, <4>1
      <3> QED
        BY <3>1
    <2> QED
      BY <2>1
  <1>5. asked = [c \in DOMAIN asked |-> asked[c]] /\ DOMAIN asked \subseteq DOMAIN tbl
    OBVIOUS
  <1> QED
    BY <1>2, <1>3, <1>4, <1>5 DEF Leads

(* One request.                                                            *)
LEMMA OneLeads ==
    ASSUME NEW tbl, Table(tbl), NEW gs, NEW r, r.id \in DOMAIN tbl,
           r.kind \in {"toggle", "name", "json"},
           NEW asked, DOMAIN asked = DOMAIN tbl, asked = [c \in DOMAIN tbl |-> asked[c]],
           asked[r.id] = CarriedOut(tbl[r.id], r),
           \A c \in DOMAIN tbl \ {r.id} : asked[c] = [tbl[c] EXCEPT !.order = 0]
    PROVE  Leads({r}, asked, tbl, gs)
  BY DEF Leads

LEMMA RemovalLeads ==
    ASSUME NEW tbl, Table(tbl), NEW gs, NEW r, r.id \in DOMAIN tbl, r.kind = "remove",
           NEW asked, DOMAIN asked = DOMAIN tbl \ {r.id}, asked = [c \in DOMAIN asked |-> asked[c]],
           \A c \in DOMAIN tbl \ {r.id} : asked[c] = [tbl[c] EXCEPT !.order = 0]
    PROVE  Leads({r}, asked, tbl, gs)
  BY DEF Leads

(* A gesture begins on a page that shows what is stored, with no other     *)
(* under way.                                                              *)
Begun(w, f, p, pg) ==
    /\ w.page = p /\ pg.groups = group /\ SoloFlow(f, w, row, group)
    /\ w.cols # <<>> => InModes(f, w, pg) /\ Arranges(w, pg)

LEMMA BeginSolo ==
    ASSUME BoardType, NEW s, NEW p \in Pages, NEW kind, NEW pg, NEW f, NEW ws,
           Begin(s, kind, p, pg, f, ws),
           DOMAIN flow = {} /\ Fresh(p) => \A w \in ws : w.plain => Begun(w, f, p, pg)
    PROVE  Solo'
  <1>1. /\ flow' = [q \in DOMAIN flow \cup {s} |-> IF q = s THEN f ELSE flow[q]]
        /\ board' = [board EXCEPT ![p] = pg]
        /\ want' = IF DOMAIN flow = {} /\ Fresh(p) THEN ws ELSE {}
        /\ row' = row /\ group' = group
    BY DEF Begin
  <1>2. SUFFICES ASSUME NEW w \in want', w.plain
                 PROVE  Undisturbed(w, flow', row', group', board')
    BY DEF Solo
  <1>3. DOMAIN flow = {} /\ Begun(w, f, p, pg)
    BY <1>1, <1>2
  <1>4. /\ w.page = p /\ pg.groups = group /\ SoloFlow(f, w, row, group)
        /\ w.cols # <<>> => InModes(f, w, pg) /\ Arranges(w, pg)
    BY <1>3 DEF Begun
  <1>5. DOMAIN flow' = {s} /\ flow'[s] = f
    BY <1>1, <1>3
  <1>6. board'[p] = pg
    BY <1>1 DEF BoardType
  <1> QED
    BY <1>1, <1>4, <1>5, <1>6 DEF Undisturbed

(* The columns of a whole page are sent as the order.                      *)
LEMMA OrderBegun ==
    ASSUME Shapes, BoardType, NEW p \in Pages, NEW kind, NEW pg, BoardOK(pg),
           pg.rows = row, pg.groups = group, pg.filter = NoFilter, Shelved(pg),
           OneMain(row, group), DOMAIN row # {},
           NEW w, w.page = p, w.rows = Unplaced(row), w.cols = pg.cols
    PROVE  Begun(w, PersistOrder(p, kind, pg), p, pg)
  <1> PICK f : f = PersistOrder(p, kind, pg)
    OBVIOUS
  <1>1. f.page = p /\ ~ f.failed /\ f.wire = {} /\ f.pc = "reorder" /\ f.ids = AllIds(pg) /\ f.at = 1
    BY DEF PersistOrder, NewFlow
  <1>2. /\ Table(row) /\ GroupTable(group) /\ Table(pg.rows) /\ GroupTable(pg.groups)
        /\ Columns(pg.groups, pg.cols)
    BY DEF BoardType, BoardOK, PageBase
  <1>3. LaidOut(row, group, pg.cols) /\ \A key \in Shown(group) : Standing(row, pg.cols[key], pg.modes[key])
    BY DEF Shelved
  <1>4. /\ DOMAIN w.rows = DOMAIN row
        /\ \A c \in DOMAIN row : w.rows[c].tags = row[c].tags /\ w.rows[c].name = row[c].name
    BY <1>2, UnplacedSame
  <1>5. LaidOut(w.rows, group, w.cols) /\ OneMain(w.rows, group)
    <2>1. LaidOut(w.rows, group, pg.cols)
      BY <1>3, <1>4, LaidOutAlike
    <2>2. OneMain(w.rows, group)
      BY <1>4, OneMainAlike
    <2> QED
      BY <2>1, <2>2
  <1>6. DOMAIN w.cols = Shown(group) /\ w.cols # <<>>
    <2>1. DOMAIN pg.cols = Shown(group) /\ Ungrouped \in Shown(group)
      BY <1>2 DEF Columns, Shown, GroupTable
    <2> QED
      BY <2>1
  <1>7. /\ f.ids \in Seq(Connects)
        /\ \A i, j \in DOMAIN f.ids : f.ids[i] = f.ids[j] => i = j
        /\ Range(f.ids) = DOMAIN row
        /\ \A key \in Shown(group) : InTurn(f.ids, pg.cols[key])
    <2>1. LaidOut(pg.rows, pg.groups, pg.cols) /\ OneMain(pg.rows, pg.groups)
      BY <1>3
    <2>2. LET ids == AllIds(pg) IN
          /\ ids \in Seq(Connects)
          /\ \A i, j \in DOMAIN ids : ids[i] = ids[j] => i = j
          /\ Range(ids) = DOMAIN pg.rows
          /\ \A key \in Shown(pg.groups) : InTurn(ids, pg.cols[key])
      BY <1>2, <2>1, AllIdsInTurn
    <2> QED
      BY <1>1, <2>2
  <1>8. 1 \in DOMAIN f.ids
    <2>1. PICK i \in DOMAIN f.ids : TRUE
      BY <1>7 DEF Range
    <2>2. Len(f.ids) \in Nat /\ DOMAIN f.ids = 1 .. Len(f.ids)
      BY <1>7, LenProperties
    <2> QED
      BY <2>1, <2>2
  <1>9. Sends(f, w, row)
    BY <1>1, <1>4, <1>6, <1>7, <1>8 DEF Sends
  <1>10. SoloFlow(f, w, row, group)
    BY <1>1, <1>6, <1>9 DEF SoloFlow, SoloOrder
  <1>11. InModes(f, w, pg)
    <2> SUFFICES ASSUME NEW key \in DOMAIN w.cols
                 PROVE  Standing(w.rows, w.cols[key], ModeAfter(f, pg, key))
      BY DEF InModes
    <2>1. Standing(row, pg.cols[key], pg.modes[key]) /\ Range(pg.cols[key]) \subseteq DOMAIN row
      BY <1>3, <1>6 DEF LaidOut
    <2>2. Standing(w.rows, pg.cols[key], pg.modes[key])
      BY <1>4, <2>1, StandingAlike
    <2> QED
      BY <1>1, <2>2 DEF ModeAfter
  <1>12. Arranges(w, pg)
    BY <1>2, <1>4, <1>5 DEF Arranges
  <1> QED
    BY <1>10, <1>11, <1>12 DEF Begun

LEMMA AskedIs ==
    ASSUME NEW p, NEW tbl, NEW cols, NEW plain, NEW w \in Asked(p, tbl, cols, plain)
    PROVE  w.page = p /\ w.rows = Unplaced(tbl) /\ w.cols = cols /\ w.plain = plain
  BY DEF Asked, Unplaced

LEMMA RestShelved ==
    ASSUME Shelf, NEW p \in Pages, DOMAIN flow = {}, board[p].filter = NoFilter
    PROVE  Shelved(board[p])
  BY DEF Shelf, Busy

(* A gesture that only changes fields begins.                              *)
LEMMA PatchBegun ==
    ASSUME NEW p, NEW pg, pg.groups = group,
           NEW f, f.page = p, ~ f.failed, f.pc = "patch", f.kind # "drag",
           NEW w, w.page = p, w.cols = <<>>, Leads(f.wire, w.rows, row, group)
    PROVE  Begun(w, f, p, pg)
  BY DEF Begun, SoloFlow, SoloPatch

LEMMA SortPickSolo ==
    ASSUME Shapes, BoardType, NEW s, NEW p \in Pages, NEW key \in DOMAIN board[p].cols,
           NEW mode \in Modes, SortPick(s, p, key, mode)
    PROVE  Solo'
  <1> DEFINE base == [board[p] EXCEPT !.modes[key] = mode]
             pg == Rebuild(base)
             f == PersistOrder(p, "sort", pg)
             ws == Asked(p, pg.rows, pg.cols, OneColumnEach(pg))
  <1>1. BoardOK(board[p])
    BY DEF BoardType
  <1>2. /\ PageBase(base) /\ base.groups = board[p].groups /\ base.rows = board[p].rows
        /\ base.filter = board[p].filter
    BY <1>1 DEF BoardOK, PageBase, PageFields
  <1>3. Begin(s, "sort", p, pg, f, ws) /\ board[p].filter = NoFilter /\ Visible(board[p]) # {}
    BY DEF SortPick
  <1> HIDE DEF base
  <1>4. /\ BoardOK(pg) /\ pg.groups = board[p].groups /\ pg.rows = board[p].rows
        /\ pg.filter = board[p].filter
    BY <1>2, RebuildType DEF PageFields
  <1>5. Shelved(pg)
    BY <1>2, <1>3, RebuiltShelved
  <1> HIDE DEF pg
  <1>6. DOMAIN board[p].rows # {}
    BY <1>3 DEF Visible
  <1>7. ASSUME Fresh(p), NEW w \in ws, w.plain PROVE Begun(w, f, p, pg)
    <2>1. pg.rows = row /\ pg.groups = group /\ DOMAIN row # {}
      BY <1>4, <1>6, <1>7 DEF Fresh
    <2>2. w.page = p /\ w.rows = Unplaced(row) /\ w.cols = pg.cols /\ OneColumnEach(pg)
      BY <1>7, <2>1, AskedIs
    <2>3. OneMain(row, group)
      BY <1>4, <2>1, <2>2, OneColumnEachIs DEF BoardOK, PageBase
    <2> QED
      BY <1>3, <1>4, <1>5, <2>1, <2>2, <2>3, OrderBegun
  <1> HIDE DEF f, ws
  <1> QED
    BY <1>3, <1>7, BeginSolo

LEMMA ShuffleSolo ==
    ASSUME Shapes, BoardType, Shelf, NEW s, NEW p \in Pages, NEW key \in DOMAIN board[p].cols,
           NEW ids \in SetToSeqs(Range(board[p].cols[key])), Shuffle(s, p, key, ids)
    PROVE  Solo'
  <1> DEFINE pg == [board[p] EXCEPT !.cols[key] = ids, !.modes[key] = "panel"]
             f == PersistOrder(p, "sort", pg)
             ws == Asked(p, pg.rows, pg.cols, OneColumnEach(pg))
  <1>1. BoardOK(board[p]) /\ key \in Shown(board[p].groups) /\ key \in GroupNames
    BY DEF BoardType, BoardOK, PageBase, Columns, Shown, GroupTable
  <1>2. /\ Begin(s, "sort", p, pg, f, ws) /\ board[p].filter = NoFilter
        /\ Len(ids) >= 2 /\ Range(ids) = Range(board[p].cols[key])
    BY DEF Shuffle
  <1>3. ids \in Seq(Connects) /\ \A i, j \in DOMAIN ids : ids[i] = ids[j] => i = j
    <2>1. Range(board[p].cols[key]) \subseteq Connects
      <3>1. board[p].cols[key] \in Seq(Connects)
        BY <1>1 DEF BoardOK, Columns
      <3> QED
        BY <3>1, LenProperties DEF Range
    <2> PICK R : R = Range(board[p].cols[key])
      OBVIOUS
    <2>2. Cardinality(R) \in Nat
      <3>1. IsFiniteSet(R)
        BY <2>1, FS_Subset DEF Shapes
      <3> QED
        BY <3>1, FS_CardinalityType
    <2>3. /\ ids \in [1 .. Cardinality(R) -> R]
          /\ \A i, j \in 1 .. Cardinality(R) : i # j => ids[i] # ids[j]
      BY DEF SetToSeqs
    <2>4. \E l \in Nat : ids \in [1 .. l -> Connects]
      BY <2>1, <2>2, <2>3
    <2> QED
      BY <2>3, <2>4, SeqDef
  <1>4. /\ BoardOK(pg) /\ pg.groups = board[p].groups /\ pg.rows = board[p].rows
        /\ pg.filter = NoFilter /\ pg.cols[key] = ids /\ pg.modes[key] = "panel"
        /\ \A k \in Shown(board[p].groups) \ {key} :
              pg.cols[k] = board[p].cols[k] /\ pg.modes[k] = board[p].modes[k]
    BY <1>1, <1>2, <1>3 DEF BoardOK, PageBase, PageFields, Columns, Modes
  <1> HIDE DEF pg
  <1>5. ASSUME DOMAIN flow = {}, Fresh(p), NEW w \in ws, w.plain PROVE Begun(w, f, p, pg)
    <2>1. Shelved(board[p])
      BY <1>2, <1>5, RestShelved
    <2>2. pg.rows = row /\ pg.groups = group
      BY <1>4, <1>5 DEF Fresh
    <2>3. LaidOut(board[p].rows, board[p].groups, board[p].cols)
      BY <2>1 DEF Shelved
    <2>4. DOMAIN row # {}
      <3>1. 1 \in DOMAIN ids
        BY <1>2, <1>3, LenProperties
      <3>2. ids[1] \in Range(board[p].cols[key])
        BY <1>2, <3>1 DEF Range
      <3>3. ids[1] \in DOMAIN board[p].rows
        BY <1>1, <2>3, <3>2 DEF LaidOut
      <3> QED
        BY <1>4, <2>2, <3>3
    <2>5. LaidOut(pg.rows, pg.groups, pg.cols)
      <3> SUFFICES ASSUME NEW k \in Shown(pg.groups)
                   PROVE  /\ \A i, j \in DOMAIN pg.cols[k] : pg.cols[k][i] = pg.cols[k][j] => i = j
                          /\ Range(pg.cols[k]) = {c \in DOMAIN pg.rows : Lies(pg.rows, pg.groups, c, k)}
        BY DEF LaidOut
      <3>1. /\ \A i, j \in DOMAIN board[p].cols[k] : board[p].cols[k][i] = board[p].cols[k][j] => i = j
            /\ Range(board[p].cols[k]) = {c \in DOMAIN pg.rows : Lies(pg.rows, pg.groups, c, k)}
        BY <1>4, <2>3 DEF LaidOut
      <3>2. CASE k = key
        BY <1>2, <1>3, <1>4, <3>1, <3>2
      <3>3. CASE k # key
        BY <1>4, <3>1, <3>3
      <3> QED
        BY <3>2, <3>3
    <2>6. ASSUME NEW k \in Shown(pg.groups) PROVE Standing(pg.rows, pg.cols[k], pg.modes[k])
      <3>1. CASE k = key
        BY <1>4, <3>1, StandsInPanel
      <3>2. CASE k # key
        <4>1. Standing(board[p].rows, board[p].cols[k], board[p].modes[k])
          BY <1>4, <2>1 DEF Shelved
        <4> QED
          BY <1>4, <3>2, <4>1
      <3> QED
        BY <3>1, <3>2
    <2>7. Shelved(pg)
      BY <2>5, <2>6 DEF Shelved
    <2>8. w.page = p /\ w.rows = Unplaced(row) /\ w.cols = pg.cols /\ OneColumnEach(pg)
      BY <1>5, <2>2, AskedIs
    <2>9. OneMain(row, group)
      BY <1>4, <2>2, <2>8, OneColumnEachIs DEF BoardOK, PageBase
    <2> QED
      BY <1>4, <2>2, <2>4, <2>7, <2>8, <2>9, OrderBegun
  <1> HIDE DEF f, ws
  <1> QED
    BY <1>2, <1>5, BeginSolo

LEMMA ReloadSolo ==
    ASSUME BoardType, NEW s, NEW p \in Pages, Refresh(s, p) \/ Open(s, p)
    PROVE  Solo'
  <1>1. PICK kind, pg, f : Begin(s, kind, p, pg, f, {})
    BY DEF Refresh, Open
  <1> QED
    BY <1>1, BeginSolo

(* What is asked for, when the fields of some connects change.             *)
LEMMA UnplacedIs ==
    ASSUME NEW N
    PROVE  /\ DOMAIN Unplaced(N) = DOMAIN N
           /\ Unplaced(N) = [c \in DOMAIN Unplaced(N) |-> Unplaced(N)[c]]
           /\ \A c \in DOMAIN N : Unplaced(N)[c] = [N[c] EXCEPT !.order = 0]
  BY DEF Unplaced

LEMMA CardSolo ==
    ASSUME Shapes, BoardType, NEW s, NEW p \in Pages, NEW c, NEW what, NEW value,
           ChangeCard(s, p, c, what, value), what \in {"toggle", "name", "json", "remove"}
    PROVE  Solo'
  <1> DEFINE pg == board[p]
             r == Req(what, c, value)
             f == [NewFlow(p, what) EXCEPT !.wire = {r}]
             on == [d \in DOMAIN pg.rows |-> IF d \in {c} THEN [pg.rows[d] EXCEPT !["on"] = ~ pg.rows[d].on]
                                                         ELSE pg.rows[d]]
             field == [d \in DOMAIN pg.rows |-> IF d \in {c} THEN [pg.rows[d] EXCEPT ![what] = value]
                                                            ELSE pg.rows[d]]
             N == IF what = "toggle" THEN on
                  ELSE IF what = "remove" THEN Restrict(pg.rows, DOMAIN pg.rows \ {c}) ELSE field
  <1>1. Begin(s, what, p, pg, f, Asked(p, N, <<>>, TRUE)) /\ c \in Visible(pg)
    <2>1. CASE what = "toggle"
      BY <2>1 DEF ChangeCard, Edited
    <2>2. CASE what = "remove"
      BY <2>2 DEF ChangeCard
    <2>3. CASE what \in {"name", "json"}
      BY <2>3 DEF ChangeCard, Edited
    <2> QED
      BY <2>1, <2>2, <2>3
  <1>2. BoardOK(pg) /\ c \in DOMAIN pg.rows
    BY <1>1 DEF BoardType, Visible
  <1>3. Table(pg.rows) /\ \A d \in DOMAIN pg.rows : DOMAIN pg.rows[d] = {"order", "tags", "on", "name", "json"}
    BY <1>2 DEF BoardOK, PageBase, Table, Rows
  <1>4. r.kind = what /\ r.id = c /\ r.val = value
    BY DEF Req
  <1>5. f.page = p /\ ~ f.failed /\ f.pc = "patch" /\ f.kind = what /\ f.wire = {r}
    BY DEF NewFlow
  <1> HIDE DEF r
  <1>6. Leads({r}, Unplaced(N), pg.rows, group)
    <2>1. CASE what = "remove"
      <3>1. DOMAIN N = DOMAIN pg.rows \ {c} /\ \A d \in DOMAIN N : N[d] = pg.rows[d]
        BY <2>1 DEF Restrict
      <3> HIDE DEF N
      <3>2. /\ DOMAIN Unplaced(N) = DOMAIN pg.rows \ {r.id}
            /\ Unplaced(N) = [d \in DOMAIN Unplaced(N) |-> Unplaced(N)[d]]
            /\ \A d \in DOMAIN pg.rows \ {r.id} : Unplaced(N)[d] = [pg.rows[d] EXCEPT !.order = 0]
        BY <1>4, <3>1, UnplacedIs
      <3> QED
        BY <1>2, <1>3, <1>4, <2>1, <3>2, RemovalLeads
    <2>2. CASE what \in {"toggle", "name", "json"}
      <3>1. /\ DOMAIN N = DOMAIN pg.rows /\ \A d \in DOMAIN pg.rows \ {c} : N[d] = pg.rows[d]
            /\ [N[c] EXCEPT !.order = 0] = CarriedOut(pg.rows[c], r)
        <4>1. CASE what = "toggle"
          <5>1. CarriedOut(pg.rows[c], r) = [pg.rows[c] EXCEPT !.on = ~ @, !.order = 0]
            BY <1>4, <4>1 DEF CarriedOut
          <5>2. N = on
            BY <4>1
          <5>3. N[c] = [pg.rows[c] EXCEPT !.on = ~ pg.rows[c].on]
            BY <1>2, <5>2
          <5> QED
            BY <1>2, <1>3, <5>1, <5>2, <5>3
        <4>2. CASE what \in {"name", "json"}
          <5>1. CarriedOut(pg.rows[c], r) = [pg.rows[c] EXCEPT ![what] = value, !.order = 0]
            BY <1>4, <4>2 DEF CarriedOut
          <5>2. N = field
            BY <4>2
          <5>3. N[c] = [pg.rows[c] EXCEPT ![what] = value]
            BY <1>2, <5>2
          <5> QED
            BY <1>2, <1>3, <4>2, <5>1, <5>2, <5>3
        <4> QED
          BY <2>2, <4>1, <4>2
      <3> HIDE DEF N
      <3>2. /\ DOMAIN Unplaced(N) = DOMAIN pg.rows
            /\ Unplaced(N) = [d \in DOMAIN pg.rows |-> Unplaced(N)[d]]
            /\ Unplaced(N)[r.id] = CarriedOut(pg.rows[r.id], r)
            /\ \A d \in DOMAIN pg.rows \ {r.id} : Unplaced(N)[d] = [pg.rows[d] EXCEPT !.order = 0]
        BY <1>2, <1>4, <3>1, UnplacedIs
      <3> QED
        BY <1>2, <1>3, <1>4, <2>2, <3>2, OneLeads
    <2> QED
      BY <2>1, <2>2
  <1> HIDE DEF f, N
  <1>7. ASSUME Fresh(p), NEW w \in Asked(p, N, <<>>, TRUE) PROVE Begun(w, f, p, pg)
    <2>1. w.page = p /\ w.rows = Unplaced(N) /\ w.cols = <<>>
      BY <1>7 DEF Asked, Unplaced
    <2>2. pg.groups = group /\ pg.rows = row
      BY <1>7 DEF Fresh
    <2>3. Leads(f.wire, w.rows, row, group)
      BY <1>5, <1>6, <2>1, <2>2
    <2>4. f.kind # "drag"
      BY <1>5
    <2> QED
      BY <1>5, <2>1, <2>2, <2>3, <2>4, PatchBegun
  <1> HIDE DEF pg
  <1> QED
    BY <1>1, <1>7, BeginSolo

LEMMA BulkSolo ==
    ASSUME Shapes, BoardType, NEW s, NEW p \in Pages, NEW n \in GroupNames, NEW adding \in BOOLEAN,
           Bulk(s, p, {n}, adding)
    PROVE  Solo'
  <1> DEFINE pg == board[p]
             v(c) == BulkTags(pg, c, {n}, adding)
             wire == {Req("tags", c, v(c)) : c \in pg.sel}
             f == [NewFlow(p, "bulk") EXCEPT !.wire = wire]
             N == [c \in DOMAIN pg.rows |->
                     IF c \in pg.sel
                     THEN [pg.rows[c] EXCEPT !["tags"] =
                             Normalized(IF adding THEN pg.rows[c].tags \cup {n} ELSE pg.rows[c].tags \ {n})]
                     ELSE pg.rows[c]]
             plain == /\ pg.sel \subseteq DOMAIN pg.rows
                      /\ \A c \in pg.sel : Cardinality(v(c) \cap MainsOf(pg.groups)) <= 1
  <1>1. Begin(s, "bulk", p, pg, f, Asked(p, N, <<>>, plain))
    BY DEF Bulk, Edited
  <1>2. BoardOK(pg)
    BY DEF BoardType
  <1>3. Table(pg.rows) /\ \A d \in DOMAIN pg.rows : DOMAIN pg.rows[d] = {"order", "tags", "on", "name", "json"}
    BY <1>2 DEF BoardOK, PageBase, Table, Rows
  <1>5. f.page = p /\ ~ f.failed /\ f.pc = "patch" /\ f.kind = "bulk" /\ f.wire = wire
    BY DEF NewFlow
  <1>6. ASSUME plain, Fresh(p) PROVE Leads(wire, Unplaced(N), pg.rows, group)
    <2>1. DOMAIN N = DOMAIN pg.rows /\ \A d \in DOMAIN pg.rows \ pg.sel : N[d] = pg.rows[d]
      OBVIOUS
    <2>2. \A d \in pg.sel : [N[d] EXCEPT !.order = 0] =
             [pg.rows[d] EXCEPT !.tags = Normalized(v(d)), !.order = 0]
      <3> SUFFICES ASSUME NEW d \in pg.sel
                   PROVE  [N[d] EXCEPT !.order = 0] =
                            [pg.rows[d] EXCEPT !.tags = Normalized(v(d)), !.order = 0]
        OBVIOUS
      <3>1. d \in DOMAIN pg.rows
        BY <1>6
      <3>2. v(d) = IF adding THEN pg.rows[d].tags \cup {n} ELSE pg.rows[d].tags \ {n}
        BY <3>1 DEF BulkTags
      <3>3. N[d] = [pg.rows[d] EXCEPT !.tags = Normalized(v(d))]
        BY <3>1, <3>2
      <3> HIDE DEF N, v
      <3> QED
        BY <1>3, <3>1, <3>3
    <2>3. \A d \in pg.sel : \A a, b \in Normalized(v(d)) \cap MainsOf(group) : a = b
      <3> SUFFICES ASSUME NEW d \in pg.sel
                   PROVE  \A a, b \in Normalized(v(d)) \cap MainsOf(group) : a = b
        OBVIOUS
      <3>1. Cardinality(v(d) \cap MainsOf(group)) <= 1 /\ GroupTable(group)
        BY <1>6 DEF Fresh, BoardType
      <3>2. Ungrouped \notin MainsOf(group)
        BY <3>1 DEF GroupTable, MainsOf
      <3> HIDE DEF v
      <3>3. Normalized(v(d)) \cap MainsOf(group) = v(d) \cap MainsOf(group)
        BY <3>2, NormalizedMains
      <3>4. \A a, b \in v(d) \cap MainsOf(group) : a = b
        BY <3>1, MainsCounted
      <3> QED
        BY <3>3, <3>4
    <2> PICK u : u = [d \in pg.sel |-> v(d)]
      OBVIOUS
    <2>4. wire = {Req("tags", d, u[d]) : d \in pg.sel}
      OBVIOUS
    <2>5. \A d \in pg.sel : u[d] = v(d)
      OBVIOUS
    <2> HIDE DEF wire, v, N
    <2>6. /\ DOMAIN Unplaced(N) = DOMAIN pg.rows
          /\ Unplaced(N) = [d \in DOMAIN pg.rows |-> Unplaced(N)[d]]
          /\ \A d \in DOMAIN pg.rows : Unplaced(N)[d] = [N[d] EXCEPT !.order = 0]
      BY <2>1, UnplacedIs
    <2>7. pg.sel \in SUBSET DOMAIN pg.rows
      BY <1>6
    <2>8. \A d \in pg.sel : \A a, b \in Normalized(u[d]) \cap MainsOf(group) : a = b
      BY <2>3, <2>5
    <2>9. \A d \in pg.sel : Unplaced(N)[d] = [pg.rows[d] EXCEPT !.tags = Normalized(u[d]), !.order = 0]
      BY <2>2, <2>5, <2>6, <2>7
    <2>10. \A d \in DOMAIN pg.rows \ pg.sel : Unplaced(N)[d] = [pg.rows[d] EXCEPT !.order = 0]
      BY <2>1, <2>6
    <2> PICK asked : asked = Unplaced(N)
      OBVIOUS
    <2> HIDE DEF pg
    <2>11. TagsAsked(wire, asked, pg.rows, group, pg.sel, u)
      BY <2>4, <2>6, <2>7, <2>8, <2>9, <2>10 DEF TagsAsked
    <2>12. Leads(wire, asked, pg.rows, group)
      BY <2>11, TagsLead
    <2> QED
      BY <2>12
  <1> HIDE DEF f, N, wire
  <1>7. ASSUME Fresh(p), NEW w \in Asked(p, N, <<>>, plain), w.plain PROVE Begun(w, f, p, pg)
    <2>1. w.page = p /\ w.rows = Unplaced(N) /\ w.cols = <<>> /\ plain
      <3> HIDE DEF plain
      <3> QED
        BY <1>7, AskedIs
    <2>2. pg.groups = group /\ pg.rows = row
      BY <1>7 DEF Fresh
    <2>3. Leads(f.wire, w.rows, row, group)
      BY <1>5, <1>6, <1>7, <2>1, <2>2
    <2>4. f.kind # "drag"
      BY <1>5
    <2> QED
      BY <1>5, <2>1, <2>2, <2>3, <2>4, PatchBegun
  <1> HIDE DEF pg, plain
  <1> QED
    BY <1>1, <1>7, BeginSolo

(* A drag, by what it does to the page, to the tags and to the server.     *)
DragShow(pg, c, from, to, k) ==
    [pg EXCEPT !.cols = DragColumns(pg, c, from, to, k),
               !.modes = [n \in GroupNames |-> IF n \in {from, to} THEN "panel" ELSE @[n]]]

DragRows(pg, c, to) ==
    [d \in DOMAIN pg.rows |-> IF d \in DragMoves(pg, c)
                              THEN [pg.rows[d] EXCEPT !["tags"] = DragTags(pg, to, d)] ELSE pg.rows[d]]

DragWire(pg, c, to) == {Req("tags", d, TagsFor(pg, d, to)) : d \in DragMoves(pg, c)}

DragPatch(p, pg, c, from, to, k) ==
    [NewFlow(p, "drag") EXCEPT !.quiet = TRUE, !.cols = DragColumns(pg, c, from, to, k),
                               !.panel = {from, to}, !.wire = DragWire(pg, c, to)]

LEMMA DragIs ==
    ASSUME NEW s, NEW p, NEW c, NEW from, NEW to, NEW k, Drag(s, p, c, from, to, k),
           NEW plain, plain = (OneColumnEach(board[p]) /\ DragPlain(board[p], c, from, to))
    PROVE  /\ board[p].filter = NoFilter /\ c \in Range(board[p].cols[from])
           /\ from = to =>
                 LET show == DragShow(board[p], c, from, to, k) IN
                 Begin(s, "drag", p, show, PersistOrder(p, "drag", show),
                       Asked(p, board[p].rows, DragGoal(board[p], c, from, to, k), plain))
           /\ from # to =>
                 Begin(s, "drag", p, board[p], DragPatch(p, board[p], c, from, to, k),
                       Asked(p, DragRows(board[p], c, to), DragGoal(board[p], c, from, to, k), plain))
  <1>1. board[p].filter = NoFilter /\ c \in Range(board[p].cols[from])
    BY DEF Drag
  <1> DEFINE show == DragShow(board[p], c, from, to, k)
             patch == DragPatch(p, board[p], c, from, to, k)
             goal == DragGoal(board[p], c, from, to, k)
             N == IF from = to THEN board[p].rows ELSE DragRows(board[p], c, to)
             ws == Asked(p, N, goal, OneColumnEach(board[p]) /\ DragPlain(board[p], c, from, to))
  <1>2. Begin(s, "drag", p, IF from = to THEN show ELSE board[p],
              IF from = to THEN PersistOrder(p, "drag", show) ELSE patch, ws)
    BY DEF Drag, Edited, DragShow, DragPatch, DragWire, DragRows, DragTags, DragGoal, DragColumns,
           DragPlain, DragSeveral, DragMoves, PlaceOf
  <1> HIDE DEF show, patch, goal
  <1>3. CASE from = to
    BY <1>1, <1>2, <1>3 DEF show, goal
  <1>4. CASE from # to
    BY <1>1, <1>2, <1>4 DEF patch, goal
  <1> QED
    BY <1>3, <1>4

(* Where a card can be dragged: a page that shows whole columns.           *)
Draggable(pg, c, from, to, k) ==
    /\ BoardOK(pg) /\ pg.filter = NoFilter /\ Shelved(pg) /\ OneMain(pg.rows, pg.groups)
    /\ from \in Shown(pg.groups) /\ to \in Shown(pg.groups)
    /\ c \in DOMAIN pg.rows /\ c \in Range(pg.cols[from])
    /\ k \in 1 .. Len(Without(pg.cols[to], {c})) + 1 /\ DragPlain(pg, c, from, to)

(* Columns that show what a table says, whole and sorted.                  *)
Stood(N, pg, cols, free) ==
    /\ Columns(pg.groups, cols) /\ LaidOut(N, pg.groups, cols) /\ OneMain(N, pg.groups)
    /\ \A key \in Shown(pg.groups) \ free : Standing(N, cols[key], pg.modes[key])

LEMMA DragStood ==
    ASSUME Shapes, NEW pg, NEW c, NEW from, NEW to, NEW k, Draggable(pg, c, from, to, k),
           NEW N, DropsInto(N, pg, DragMoves(pg, c), to)
    PROVE  /\ Stood(N, pg, DragGoal(pg, c, from, to, k), {from, to})
           /\ DragColumns(pg, c, from, to, k) = DragGoal(pg, c, from, to, k)
           /\ DragMoves(pg, c) \subseteq DOMAIN pg.rows
  <1>1. /\ Table(pg.rows) /\ GroupTable(pg.groups) /\ Columns(pg.groups, pg.cols)
        /\ pg.filter = NoFilter /\ Shelved(pg) /\ OneMain(pg.rows, pg.groups)
        /\ from \in Shown(pg.groups) /\ to \in Shown(pg.groups)
        /\ c \in DOMAIN pg.rows /\ c \in Range(pg.cols[from])
        /\ k \in 1 .. Len(Without(pg.cols[to], {c})) + 1 /\ DragPlain(pg, c, from, to)
    BY DEF Draggable, BoardOK, PageBase
  <1>2. LET goal == DragGoal(pg, c, from, to, k) IN
        /\ Columns(pg.groups, goal) /\ LaidOut(N, pg.groups, goal) /\ OneMain(N, pg.groups)
        /\ \A key \in Shown(pg.groups) \ {from, to} : Standing(N, goal[key], pg.modes[key])
    BY <1>1, DragLaid
  <1>3. LET g == DragGoal(pg, c, from, to, k)
            m == DragMoves(pg, c)
        IN
        /\ DragColumns(pg, c, from, to, k) = g
        /\ Columns(pg.groups, g)
        /\ m \subseteq DOMAIN pg.rows /\ c \in m
        /\ \A key \in Shown(pg.groups) \ {to} : g[key] = Without(pg.cols[key], m)
        /\ Range(g[to]) = Range(pg.cols[to]) \cup m
        /\ \A i, j \in DOMAIN g[to] : g[to][i] = g[to][j] => i = j
    <2>1. LaidOut(pg.rows, pg.groups, pg.cols)
      BY <1>1 DEF Shelved
    <2> QED
      BY <1>1, <2>1, DragGoalIs
  <1> QED
    BY <1>2, <1>3 DEF Stood

LEMMA DragWithin ==
    ASSUME Shapes, NEW pg, NEW c, NEW to, NEW k, Draggable(pg, c, to, to, k),
           NEW show, show = DragShow(pg, c, to, to, k)
    PROVE  /\ BoardOK(show) /\ Shelved(show) /\ show.cols = DragGoal(pg, c, to, to, k)
           /\ show.rows = pg.rows /\ show.groups = pg.groups /\ show.filter = pg.filter
  <1>1. /\ BoardOK(pg) /\ GroupTable(pg.groups) /\ Shelved(pg) /\ OneMain(pg.rows, pg.groups)
        /\ to \in Shown(pg.groups) /\ c \in DOMAIN pg.rows /\ c \in Range(pg.cols[to])
        /\ DragPlain(pg, c, to, to)
    BY DEF Draggable, BoardOK, PageBase
  <1>2. DragMoves(pg, c) = {c}
    BY <1>1 DEF DragPlain, DragSeveral, DragMoves
  <1>3. Lies(pg.rows, pg.groups, c, to)
    BY <1>1 DEF Shelved, LaidOut
  <1>4. \A key \in Shown(pg.groups) : Lies(pg.rows, pg.groups, c, key) <=> key = to
    BY <1>1, <1>3, LiesOnce
  <1>5. DropsInto(pg.rows, pg, DragMoves(pg, c), to)
    BY <1>1, <1>2, <1>4 DEF DropsInto, OneMain
  <1> PICK goal : goal = DragGoal(pg, c, to, to, k)
    OBVIOUS
  <1>6. Stood(pg.rows, pg, goal, {to, to}) /\ DragColumns(pg, c, to, to, k) = goal
    BY <1>5, DragStood
  <1>7. /\ BoardOK(show) /\ show.cols = goal
        /\ show.rows = pg.rows /\ show.groups = pg.groups /\ show.filter = pg.filter
        /\ show.modes[to] = "panel"
        /\ \A key \in Shown(pg.groups) \ {to} : show.modes[key] = pg.modes[key]
    <2>1. Columns(pg.groups, goal) /\ Shown(pg.groups) \subseteq GroupNames
      BY <1>1, <1>6 DEF Stood, Shown, GroupTable
    <2> QED
      BY <1>1, <1>6, <2>1 DEF DragShow, BoardOK, PageBase, PageFields, Modes
  <1>8. ASSUME NEW key \in Shown(pg.groups) PROVE Standing(pg.rows, goal[key], show.modes[key])
    <2>1. CASE key = to
      BY <1>7, <2>1, StandsInPanel
    <2>2. CASE key # to
      BY <1>6, <1>7, <2>2 DEF Stood
    <2> QED
      BY <2>1, <2>2
  <1> QED
    BY <1>6, <1>7, <1>8 DEF Shelved, Stood

LEMMA DragAcross ==
    ASSUME Shapes, NEW pg, NEW c, NEW from, NEW to, NEW k, Draggable(pg, c, from, to, k),
           NEW asked, asked = Unplaced(DragRows(pg, c, to))
    PROVE  /\ Leads(DragWire(pg, c, to), asked, pg.rows, pg.groups)
           /\ DOMAIN asked = DOMAIN pg.rows
           /\ Stood(asked, pg, DragGoal(pg, c, from, to, k), {from, to})
           /\ DragColumns(pg, c, from, to, k) = DragGoal(pg, c, from, to, k)
  <1>1. /\ Table(pg.rows) /\ GroupTable(pg.groups) /\ to \in Shown(pg.groups) /\ c \in DOMAIN pg.rows
        /\ pg.filter = NoFilter
        /\ \A d \in DOMAIN pg.rows : DOMAIN pg.rows[d] = {"order", "tags", "on", "name", "json"}
    BY DEF Draggable, BoardOK, PageBase, Table, Rows
  <1> PICK moved : moved = DragMoves(pg, c)
    OBVIOUS
  <1> PICK N : N = DragRows(pg, c, to)
    OBVIOUS
  <1>2. moved \subseteq DOMAIN pg.rows
    <2>1. Visible(pg) = DOMAIN pg.rows
      BY <1>1, VisibleAll
    <2> QED
      BY <1>1, <2>1 DEF DragMoves
  <1>3. DropsInto(N, pg, moved, to)
    <2>1. N = [d \in DOMAIN pg.rows |-> IF d \in moved
                 THEN [pg.rows[d] EXCEPT !.tags = DragTags(pg, to, d)] ELSE pg.rows[d]]
      BY DEF DragRows
    <2> QED
      BY <1>1, <1>2, <2>1, DragDropsInto
  <1>4. /\ DOMAIN N = DOMAIN pg.rows
        /\ \A d \in moved : N[d] = [pg.rows[d] EXCEPT !.tags = DragTags(pg, to, d)]
        /\ \A d \in DOMAIN pg.rows \ moved : N[d] = pg.rows[d]
    BY <1>2 DEF DragRows
  <1>5. /\ DOMAIN asked = DOMAIN pg.rows /\ asked = [d \in DOMAIN pg.rows |-> asked[d]]
        /\ \A d \in DOMAIN pg.rows : asked[d] = [N[d] EXCEPT !.order = 0]
    BY <1>4, UnplacedIs
  <1>6. \A d \in DOMAIN pg.rows : DOMAIN N[d] = {"order", "tags", "on", "name", "json"}
    BY <1>1, <1>4
  <1>7. \A d \in DOMAIN pg.rows : asked[d].tags = N[d].tags /\ asked[d].name = N[d].name
    BY ZenonT(40), <1>5, <1>6
  <1>8. Leads(DragWire(pg, c, to), asked, pg.rows, pg.groups)
    <2> PICK u : u = [d \in moved |-> TagsFor(pg, d, to)]
      OBVIOUS
    <2>1. \A d \in moved : u[d] = TagsFor(pg, d, to) /\ Normalized(u[d]) = DragTags(pg, to, d)
      BY DEF TagsFor, DragTags
    <2>2. DragWire(pg, c, to) = {Req("tags", d, u[d]) : d \in moved}
      BY <2>1 DEF DragWire
    <2>3. \A d \in moved : asked[d] = [pg.rows[d] EXCEPT !.tags = Normalized(u[d]), !.order = 0]
      <3> SUFFICES ASSUME NEW d \in moved
                   PROVE  asked[d] = [pg.rows[d] EXCEPT !.tags = Normalized(u[d]), !.order = 0]
        OBVIOUS
      <3> PICK x, t : x = pg.rows[d] /\ t = Normalized(u[d])
        OBVIOUS
      <3>1. N[d] = [x EXCEPT !.tags = t]
        BY <1>4, <2>1
      <3>2. asked[d] = [N[d] EXCEPT !.order = 0] /\ DOMAIN x = {"order", "tags", "on", "name", "json"}
        BY <1>1, <1>2, <1>5
      <3> QED
        BY <3>1, <3>2
    <2>4. \A d \in moved : \A m, n \in Normalized(u[d]) \cap MainsOf(pg.groups) : m = n
      <3> SUFFICES ASSUME NEW d \in moved
                   PROVE  \A m, n \in Normalized(u[d]) \cap MainsOf(pg.groups) : m = n
        OBVIOUS
      <3>1. N[d].tags = DragTags(pg, to, d)
        BY <1>1, <1>2, <1>4
      <3>2. \A m, n \in N[d].tags \cap MainsOf(pg.groups) : m = n
        BY <1>3 DEF DropsInto
      <3> QED
        BY <2>1, <3>1, <3>2
    <2>5. \A d \in DOMAIN pg.rows \ moved : asked[d] = [pg.rows[d] EXCEPT !.order = 0]
      BY <1>4, <1>5
    <2>6. TagsAsked(DragWire(pg, c, to), asked, pg.rows, pg.groups, moved, u)
      BY <1>2, <1>5, <2>2, <2>3, <2>4, <2>5 DEF TagsAsked
    <2> QED
      BY <2>6, TagsLead
  <1> PICK goal : goal = DragGoal(pg, c, from, to, k)
    OBVIOUS
  <1>9. Stood(N, pg, goal, {from, to}) /\ DragColumns(pg, c, from, to, k) = goal
    BY <1>3, DragStood
  <1>10. LaidOut(asked, pg.groups, goal) /\ OneMain(asked, pg.groups)
    <2>1. LaidOut(N, pg.groups, goal) /\ OneMain(N, pg.groups)
      BY <1>9 DEF Stood
    <2>2. DOMAIN N = DOMAIN asked /\ \A d \in DOMAIN N : N[d].tags = asked[d].tags
      BY <1>4, <1>5, <1>7
    <2>3. LaidOut(asked, pg.groups, goal)
      BY <2>1, <2>2, LaidOutAlike
    <2> QED
      BY <2>1, <2>2, <2>3, OneMainAlike
  <1>11. ASSUME NEW key \in Shown(pg.groups) \ {from, to} PROVE Standing(asked, goal[key], pg.modes[key])
    <2>1. Standing(N, goal[key], pg.modes[key]) /\ Range(goal[key]) \subseteq DOMAIN N
      BY <1>9 DEF Stood, LaidOut
    <2>2. \A d \in DOMAIN N : N[d].name = asked[d].name
      BY <1>4, <1>7
    <2> QED
      BY <2>1, <2>2, StandingAlike
  <1> QED
    BY <1>5, <1>8, <1>9, <1>10, <1>11 DEF Stood

LEMMA DragSolo ==
    ASSUME Shapes, BoardType, Shelf, NEW s, NEW p \in Pages, NEW c \in DOMAIN board[p].rows,
           NEW from \in DOMAIN board[p].cols, NEW to \in DOMAIN board[p].cols,
           NEW k \in 1 .. Len(Without(board[p].cols[to], {c})) + 1,
           Drag(s, p, c, from, to, k)
    PROVE  Solo'
  <1> PICK pg : pg = board[p]
    OBVIOUS
  <1> PICK plain : plain = (OneColumnEach(board[p]) /\ DragPlain(board[p], c, from, to))
    OBVIOUS
  <1> PICK goal : goal = DragGoal(pg, c, from, to, k)
    OBVIOUS
  <1> PICK show : show = DragShow(pg, c, from, to, k)
    OBVIOUS
  <1>1. /\ pg.filter = NoFilter /\ c \in Range(pg.cols[from])
        /\ from = to => Begin(s, "drag", p, show, PersistOrder(p, "drag", show), Asked(p, pg.rows, goal, plain))
        /\ from # to => Begin(s, "drag", p, pg, DragPatch(p, pg, c, from, to, k),
                              Asked(p, DragRows(pg, c, to), goal, plain))
    BY DragIs
  <1>2. BoardOK(pg) /\ GroupTable(pg.groups) /\ from \in Shown(pg.groups) /\ to \in Shown(pg.groups)
    BY DEF BoardType, BoardOK, PageBase, Columns
  <1>3. ASSUME DOMAIN flow = {}, Fresh(p), plain
        PROVE  /\ Draggable(pg, c, from, to, k) /\ pg.rows = row /\ pg.groups = group
               /\ OneMain(row, group) /\ DOMAIN row # {}
    <2>1. Shelved(pg)
      BY <1>1, <1>3, RestShelved
    <2>2. OneMain(pg.rows, pg.groups)
      <3>1. OneColumnEach(pg)
        BY <1>3
      <3> QED
        BY <1>2, <3>1, OneColumnEachIs
    <2>3. DragPlain(pg, c, from, to)
      BY <1>3
    <2>4. pg.rows = row /\ pg.groups = group
      BY <1>3 DEF Fresh
    <2> QED
      BY <1>1, <1>2, <2>1, <2>2, <2>3, <2>4 DEF Draggable
  <1>4. CASE from = to
    <2> PICK f : f = PersistOrder(p, "drag", show)
      OBVIOUS
    <2>1. ASSUME DOMAIN flow = {}, Fresh(p), NEW w \in Asked(p, pg.rows, goal, plain), w.plain
          PROVE  Begun(w, f, p, show)
      <3>1. w.page = p /\ w.rows = Unplaced(pg.rows) /\ w.cols = goal /\ plain
        BY <2>1, AskedIs
      <3>2. /\ Draggable(pg, c, to, to, k) /\ pg.rows = row /\ pg.groups = group
            /\ OneMain(row, group) /\ DOMAIN row # {}
        BY <1>3, <1>4, <2>1, <3>1
      <3>3. /\ BoardOK(show) /\ Shelved(show) /\ show.cols = goal
            /\ show.rows = pg.rows /\ show.groups = pg.groups /\ show.filter = pg.filter
        BY <1>4, <3>2, DragWithin
      <3> QED
        BY <1>1, <3>1, <3>2, <3>3, OrderBegun
    <2>2. Begin(s, "drag", p, show, f, Asked(p, pg.rows, goal, plain))
      BY <1>1, <1>4
    <2> QED
      BY <2>1, <2>2, BeginSolo
  <1>5. CASE from # to
    <2> PICK f : f = DragPatch(p, pg, c, from, to, k)
      OBVIOUS
    <2>1. /\ f.page = p /\ ~ f.failed /\ f.pc = "patch" /\ f.kind = "drag"
          /\ f.cols = DragColumns(pg, c, from, to, k) /\ f.panel = {from, to}
          /\ f.wire = DragWire(pg, c, to)
      BY DEF DragPatch, NewFlow
    <2>2. ASSUME DOMAIN flow = {}, Fresh(p), NEW w \in Asked(p, DragRows(pg, c, to), goal, plain), w.plain
          PROVE  Begun(w, f, p, pg)
      <3>1. w.page = p /\ w.rows = Unplaced(DragRows(pg, c, to)) /\ w.cols = goal /\ plain
        BY <2>2, AskedIs
      <3>2. /\ Draggable(pg, c, from, to, k) /\ pg.rows = row /\ pg.groups = group
            /\ DOMAIN row # {}
        BY <1>3, <2>2, <3>1
      <3>3. /\ Leads(DragWire(pg, c, to), w.rows, pg.rows, pg.groups)
            /\ DOMAIN w.rows = DOMAIN pg.rows
            /\ Stood(w.rows, pg, goal, {from, to})
            /\ DragColumns(pg, c, from, to, k) = goal
        <4> PICK asked : asked = Unplaced(DragRows(pg, c, to))
          OBVIOUS
        <4>1. /\ Leads(DragWire(pg, c, to), asked, pg.rows, pg.groups)
              /\ DOMAIN asked = DOMAIN pg.rows
              /\ Stood(asked, pg, DragGoal(pg, c, from, to, k), {from, to})
              /\ DragColumns(pg, c, from, to, k) = DragGoal(pg, c, from, to, k)
          BY <3>2, DragAcross
        <4> QED
          BY <3>1, <4>1
      <3>4. DOMAIN goal = Shown(pg.groups) /\ w.cols # <<>>
        <4>1. DOMAIN goal = Shown(pg.groups)
          BY <3>3 DEF Stood, Columns
        <4> QED
          BY <1>2, <3>1, <4>1
      <3>5. SoloFlow(f, w, row, group)
        <4>1. SoloPatch(f, w, row, group)
          BY <2>1, <3>1, <3>2, <3>3, <3>4 DEF SoloPatch
        <4> QED
          BY <2>1, <3>1, <4>1 DEF SoloFlow
      <3>6. InModes(f, w, pg)
        <4> SUFFICES ASSUME NEW key \in DOMAIN w.cols
                     PROVE  Standing(w.rows, w.cols[key], ModeAfter(f, pg, key))
          BY DEF InModes
        <4>1. CASE key \in {from, to}
          <5>1. ModeAfter(f, pg, key) = "panel"
            BY <2>1, <4>1 DEF ModeAfter
          <5> QED
            BY <5>1, StandsInPanel
        <4>2. CASE key \notin {from, to}
          <5>1. ModeAfter(f, pg, key) = pg.modes[key]
            BY <2>1, <4>2 DEF ModeAfter
          <5> QED
            BY <3>1, <3>3, <3>4, <4>2, <5>1 DEF Stood
        <4> QED
          BY <4>1, <4>2
      <3>7. Arranges(w, pg)
        BY <1>1, <3>1, <3>2, <3>3 DEF Arranges, Stood
      <3> QED
        BY <3>1, <3>2, <3>5, <3>6, <3>7 DEF Begun
    <2>3. Begin(s, "drag", p, pg, f, Asked(p, DragRows(pg, c, to), goal, plain))
      BY <1>1, <1>5
    <2> QED
      BY <2>2, <2>3, BeginSolo
  <1> QED
    BY <1>4, <1>5

LEMMA GestureSolo ==
    ASSUME Shapes, BoardType, Shelf, NEW s, NEW p \in Pages, Gesture(s, p)
    PROVE  Solo'
  <1>1. CASE \E c \in DOMAIN board[p].rows, from, to \in DOMAIN board[p].cols :
                \E k \in 1..(Len(Without(board[p].cols[to], {c})) + 1) : Drag(s, p, c, from, to, k)
    BY <1>1, DragSolo
  <1>2. CASE \E key \in DOMAIN board[p].cols :
                \/ \E mode \in Modes : SortPick(s, p, key, mode)
                \/ \E ids \in SetToSeqs(Range(board[p].cols[key])) : Shuffle(s, p, key, ids)
    BY <1>2, SortPickSolo, ShuffleSolo
  <1>3. CASE \E n \in GroupNames, adding \in BOOLEAN : Bulk(s, p, {n}, adding)
    BY <1>3, BulkSolo
  <1>4. CASE \E c \in Connects :
                \/ ChangeCard(s, p, c, "toggle", TRUE)
                \/ \E l \in Labels : ChangeCard(s, p, c, "name", l)
                \/ ChangeCard(s, p, c, "json", "edited")
                \/ ChangeCard(s, p, c, "remove", TRUE)
    BY <1>4, CardSolo
  <1>5. CASE Refresh(s, p) \/ Open(s, p)
    BY <1>5, ReloadSolo
  <1> QED
    BY <1>1, <1>2, <1>3, <1>4, <1>5 DEF Gesture

(* Cards are selected: nothing the gesture asked for is touched.           *)
LEMMA KeptSolo ==
    ASSUME NEW w, Undisturbed(w, flow, row, group, board), flow' = flow, row' = row, group' = group,
           SameShelf(board[w.page], board'[w.page])
    PROVE  Undisturbed(w, flow', row', group', board')
  <1> PICK pg, p2 : pg = board[w.page] /\ p2 = board'[w.page]
    OBVIOUS
  <1>1. /\ p2.rows = pg.rows /\ p2.groups = pg.groups /\ p2.cols = pg.cols
        /\ p2.modes = pg.modes /\ p2.filter = pg.filter
    BY DEF SameShelf
  <1>2. Arranges(w, pg) => Arranges(w, p2)
    BY <1>1 DEF Arranges
  <1>3. \A f : InModes(f, w, pg) => InModes(f, w, p2)
    BY <1>1 DEF InModes, ModeAfter
  <1>4. AtRest(w, row, pg) => AtRest(w, row, p2)
    BY <1>1 DEF AtRest
  <1> QED
    BY <1>1, <1>2, <1>3, <1>4 DEF Undisturbed

LEMMA StepSolo ==
    ASSUME Shapes, BoardType, Shelf, Solo, [BoardNext]_(boardVars)
    PROVE  Solo'
  <1>1. ASSUME want' = want,
               \A w \in want : w.plain /\ Undisturbed(w, flow, row, group, board)
                  => Undisturbed(w, flow', row', group', board')
        PROVE  Solo'
    BY <1>1 DEF Solo
  <1>2. CASE want' = {}
    BY <1>2 DEF Solo
  <1>3. ASSUME want' = want, flow' = flow, row' = row, group' = group,
               \A q \in Pages : SameShelf(board[q], board'[q])
        PROVE  Solo'
    <2>1. ASSUME NEW w \in want, Undisturbed(w, flow, row, group, board)
          PROVE  Undisturbed(w, flow', row', group', board')
      <3>1. w.page \in Pages
        BY <2>1 DEF Undisturbed
      <3>2. SameShelf(board[w.page], board'[w.page])
        BY <1>3, <3>1
      <3> QED
        BY <1>3, <2>1, <3>2, KeptSolo
    <2> QED
      BY <1>1, <1>3, <2>1
  <1>4. CASE UNCHANGED boardVars
    BY <1>3, <1>4 DEF boardVars, SameShelf
  <1>5. ASSUME NEW s \in FlowSlots, NEW p \in Pages, Gesture(s, p) PROVE Solo'
    BY <1>5, GestureSolo
  <1>6. ASSUME NEW p \in Pages, NEW on \in BOOLEAN, NEW ids, Select(p, ids, on) PROVE Solo'
    <2>1. /\ flow' = flow /\ row' = row /\ group' = group /\ want' = want
          /\ board' = [board EXCEPT ![p].sel = IF on THEN @ \cup ids ELSE @ \ ids]
      BY <1>6 DEF Select
    <2>2. \A q \in Pages : SameShelf(board[q], board'[q])
      BY <2>1 DEF SameShelf, BoardType, BoardOK, PageBase, PageFields
    <2> QED
      BY <1>3, <2>1, <2>2
  <1>7. CASE (\E p \in Pages, f \in Filters : SetFilter(p, f)) \/ Others
    <2>1. want' = {}
      BY <1>7 DEF SetFilter, Others, SyncAdds, SyncDeletes, SetMain, ReorderGroups, Elsewhere
    <2> QED
      BY <1>2, <2>1
  <1>8. ASSUME NEW s \in DOMAIN flow, Server(s) PROVE Solo'
    <2>1. ASSUME NEW r \in flow[s].wire,
                 SetConnectGroups(s, r) \/ ReadStatus(s, r) \/ WriteField(s, r) \/ RemoveConnect(s, r)
          PROVE  Solo'
      <3>1. want' = want
        BY <2>1 DEF SetConnectGroups, ReadStatus, WriteField, RemoveConnect, Handled
      <3> QED
        BY <1>1, <2>1, <3>1, RequestSolo
    <2>2. CASE WriteOrder(s)
      <3>1. want' = want
        BY <2>2 DEF WriteOrder
      <3> QED
        BY <1>1, <2>2, <3>1, WriteOrderSolo
    <2>3. CASE AnswerLoad(s)
      <3>1. want' = want
        BY <2>3 DEF AnswerLoad
      <3> QED
        BY <1>1, <2>3, <3>1, AnswerLoadSolo
    <2>4. CASE WriteGroupOrder(s)
      <3>1. want' = want /\ flow[s].pc = "groups"
        BY <2>4 DEF WriteGroupOrder
      <3>2. \A w \in want : ~ Undisturbed(w, flow, row, group, board)
        BY <3>1 DEF Undisturbed, SoloFlow, SoloPatch, SoloOrder, SoloLoad
      <3> QED
        BY <1>1, <3>1, <3>2
    <2> QED
      BY <1>8, <2>1, <2>2, <2>3, <2>4 DEF Server
  <1>9. ASSUME NEW s \in DOMAIN flow, Patched(s) PROVE Solo'
    <2>1. want' = want
      BY <1>9 DEF Patched
    <2> QED
      BY <1>1, <1>9, <2>1, PatchedSolo
  <1>10. ASSUME NEW s \in DOMAIN flow, PatchFailed(s) PROVE Solo'
    <2>1. want' = want /\ flow[s].failed
      BY <1>10 DEF PatchFailed
    <2>2. \A w \in want : ~ Undisturbed(w, flow, row, group, board)
      BY <2>1 DEF Undisturbed, SoloFlow
    <2> QED
      BY <1>1, <2>1, <2>2
  <1>11. ASSUME NEW s \in DOMAIN flow, ApplyLoad(s) PROVE Solo'
    <2>1. want' = want
      BY <1>11 DEF ApplyLoad
    <2> QED
      BY <1>1, <1>11, <2>1, ApplyLoadSolo
  <1> QED
    BY <1>4, <1>5, <1>6, <1>7, <1>8, <1>9, <1>10, <1>11 DEF BoardNext

(* A gesture made on an up-to-date page, alone, ends in what it showed:    *)
(* the database holds the tags, status, name and json asked for, the page  *)
(* holds the database, and the columns stand as they were let go.          *)
THEOREM SoloSticksCorrect == BoardSpec => []SoloSticks
  <1>1. Shapes
    BY ShapesGiven
  <1>2. BoardInit => Shelf /\ Solo
    <2>1. BoardInit => want = {}
      BY DEF BoardInit
    <2> QED
      BY <2>1, InitShelf DEF Solo
  <1>3. BoardType /\ Shelf /\ Solo /\ [BoardNext]_(boardVars) => Shelf' /\ Solo'
    BY <1>1, StepShelf, StepSolo
  <1>4. Solo => SoloSticks
    BY DEF Solo, Undisturbed, AtRest, Unplaced, SoloSticks
  <1> QED
    BY <1>2, <1>3, <1>4, BoardTyped, PTL DEF BoardSpec
===============================================================================
