---------------------------- MODULE HistoryProofs ----------------------------
(***************************************************************************)
(* What a request holds of its session: packs keep to the budget, hold     *)
(* what they must, and drop nothing while there is room.                   *)
(***************************************************************************)
EXTENDS ContextPack, OrdersProofs, TLAPS

(* Items as the steps of a pack pass them on.                              *)
Pack(q) == /\ q = [i \in 1..Len(q) |-> q[i]] /\ Len(q) \in Nat
           /\ \A i \in 1..Len(q) : IsItem(q[i])

Sizes(q) == [i \in DOMAIN q |-> q[i].size]

LEMMA TotalIs ==
  ASSUME NEW q, NEW S \in SUBSET DOMAIN q
  PROVE  Total(q, S) = SumOver(Sizes(q), S)
<1> DEFINE of == Sizes(q)
           Added(h) == h = [s \in SUBSET S |->
                             IF s = {} THEN 0
                             ELSE q[CHOOSE x \in s : TRUE].size + h[s \ {CHOOSE x \in s : TRUE}]]
<1>1. Total(q, S) = (CHOOSE h : Added(h))[S]
  BY DEF Total, MapThenSumSet, MapThenFoldSet
<1>2. ASSUME NEW h PROVE Added(h) <=> Summed(of, S, h)
  <2>1. \A s \in SUBSET S : s # {} =>
          of[CHOOSE x \in s : TRUE] = q[CHOOSE x \in s : TRUE].size
    <3> SUFFICES ASSUME NEW s \in SUBSET S, s # {}
                 PROVE  of[CHOOSE x \in s : TRUE] = q[CHOOSE x \in s : TRUE].size
      OBVIOUS
    <3>1. PICK x \in s : x = CHOOSE y \in s : TRUE
      OBVIOUS
    <3> QED
      BY <3>1 DEF Sizes
  <2> HIDE DEF of
  <2> QED
    BY <2>1 DEF Summed
<1> HIDE DEF Added
<1>3. (CHOOSE h : Added(h)) = CHOOSE h : Summed(of, S, h)
  BY <1>2
<1> QED
  BY <1>1, <1>3 DEF SumOver

LEMMA SizesCount ==
  ASSUME NEW q, Pack(q), NEW S \in SUBSET DOMAIN q
  PROVE  /\ IsFiniteSet(S) /\ Countable(Sizes(q), S)
         /\ \A x \in S : Sizes(q)[x] = q[x].size /\ Sizes(q)[x] \in Nat
         /\ SumOver(Sizes(q), S) \in Nat
<1>1. IsFiniteSet(S)
  BY UpTo, FS_Subset DEF Pack
<1>2. \A x \in S : Sizes(q)[x] = q[x].size /\ Sizes(q)[x] \in Nat
  BY DEF Pack, IsItem, Sizes
<1>3. Countable(Sizes(q), S)
  BY <1>1, <1>2 DEF Countable
<1> QED
  BY <1>1, <1>2, <1>3, SumNat

LEMMA RequiredIs ==
  ASSUME NEW q, Pack(q)
  PROVE  /\ Required(q) \in SUBSET DOMAIN q /\ IsFiniteSet(Required(q))
         /\ \A i \in Required(q) : /\ i \in Nat /\ q[i].priority \in Nat /\ q[i].size \in Nat
                                   /\ CutOrder[q[i].kind] \in Nat
                                   /\ q[i].kind \in DOMAIN Floors
<1>1. Required(q) \in SUBSET DOMAIN q
  BY DEF Required
<1>2. ASSUME NEW i \in Required(q) PROVE CutOrder[q[i].kind] \in Nat /\ q[i].kind \in DOMAIN Floors
  <2>1. q[i].kind \in DOMAIN CutOrder /\ q[i].kind \in DOMAIN Floors
    BY DEF Required, Pack, IsItem
  <2>2. \A k \in DOMAIN CutOrder : CutOrder[k] \in Nat
    BY DEF CutOrder
  <2> QED
    BY <2>1, <2>2
<1>3. IsFiniteSet(Required(q))
  BY <1>1, SizesCount
<1> QED
  BY <1>1, <1>2, <1>3 DEF Pack, IsItem

(* The order in which required items are cut, as pairs.                    *)
CutPairs(q) == {p \in Required(q) \X Required(q) : CutEarlier(q, p[1], p[2])}

LEMMA CutOrders ==
  ASSUME NEW q, Pack(q)
  PROVE  /\ \A d \in Required(q) : <<d, d>> \notin CutPairs(q)
         /\ \A c, d, e \in Required(q) : <<c, d>> \in CutPairs(q) /\ <<d, e>> \in CutPairs(q)
                                           => <<c, e>> \in CutPairs(q)
         /\ \A d, e \in Required(q) : d = e \/ <<d, e>> \in CutPairs(q) \/ <<e, d>> \in CutPairs(q)
         /\ \A d, e \in Required(q) : <<d, e>> \in CutPairs(q) <=> CutEarlier(q, d, e)
<1> DEFINE R == Required(q)
           kind == [i \in R |-> CutOrder[q[i].kind]]
           rank == [i \in R |-> q[i].priority]
           Before(i, j) == \/ kind[i] < kind[j]
                           \/ kind[i] = kind[j] /\ rank[i] < rank[j]
                           \/ kind[i] = kind[j] /\ rank[i] = rank[j] /\ i < j
<1>1. \A i \in R : i \in Nat /\ kind[i] \in Nat /\ rank[i] \in Nat
  BY RequiredIs
<1>2. \A d, e \in R : <<d, e>> \in CutPairs(q) <=> Before(d, e)
  BY DEF CutPairs, CutEarlier
<1>3. \A d, e \in R : <<d, e>> \in CutPairs(q) <=> CutEarlier(q, d, e)
  BY DEF CutPairs
<1> HIDE DEF R, kind, rank
<1>4. \A d \in R : ~Before(d, d)
  BY <1>1
<1>5. \A c, d, e \in R : Before(c, d) /\ Before(d, e) => Before(c, e)
  BY <1>1
<1>6. \A d, e \in R : d = e \/ Before(d, e) \/ Before(e, d)
  BY <1>1
<1> HIDE DEF Before
<1> QED
  BY <1>2, <1>3, <1>4, <1>5, <1>6 DEF R

(* Cutting leaves the items as they are but for their sizes, which keep     *)
(* their floor.                                                            *)
CutFrom(q, r) ==
  /\ r = [i \in DOMAIN q |-> r[i]] /\ Len(r) = Len(q)
  /\ \A i \in DOMAIN q : /\ r[i] = [q[i] EXCEPT !.size = r[i].size]
                         /\ r[i].size \in Nat /\ r[i].size <= q[i].size
                         /\ Least(r[i].size, HardFloor) = Least(q[i].size, HardFloor)

LEMMA CutKeeps ==
  ASSUME NEW q, Pack(q), NEW r, CutFrom(q, r)
  PROVE  /\ Pack(r) /\ Required(r) = Required(q)
         /\ \A i \in DOMAIN q :
              /\ r[i].name = q[i].name /\ r[i].kind = q[i].kind /\ r[i].pinned = q[i].pinned
              /\ r[i].sent = q[i].sent /\ r[i].repeats = q[i].repeats
              /\ r[i].priority = q[i].priority
<1>1. ASSUME NEW i \in DOMAIN q
      PROVE  /\ IsItem(r[i])
             /\ r[i].name = q[i].name /\ r[i].kind = q[i].kind /\ r[i].pinned = q[i].pinned
             /\ r[i].sent = q[i].sent /\ r[i].repeats = q[i].repeats
             /\ r[i].priority = q[i].priority
  BY DEF CutFrom, Pack, IsItem
<1> QED
  BY <1>1 DEF CutFrom, Pack, Required

LEMMA RoomIs ==
  ASSUME NEW a \in Nat, NEW floor \in Nat
  PROVE  /\ Least(a, floor) \in Nat /\ Least(a, floor) <= a
         /\ a - Least(a, floor) \in Nat
         /\ Least(Least(a, floor), floor) = Least(a, floor)
         /\ \A b \in Nat : b <= a /\ (a <= floor \/ floor <= b) /\ (a <= floor => b = a)
                            => Least(b, floor) = Least(a, floor)
  BY DEF Least

(* OverAt as a sum.                                                        *)
LEMMA OverAtIs ==
  ASSUME NEW q, Pack(q), NEW room \in [Required(q) -> Nat], NEW over \in Int,
         NEW i \in Required(q)
  PROVE  LET earlier == {j \in Required(q) : CutEarlier(q, j, i)}
         IN /\ OverAt(q, room, over, i) = over - SumOver(room, earlier)
            /\ SumOver(room, earlier) \in Nat /\ Countable(room, earlier)
            /\ OverAt(q, room, over, i) \in Int
<1> DEFINE S == {j \in Required(q) : CutEarlier(q, j, i)}
           Added(h) == h = [s \in SUBSET S |->
                             IF s = {} THEN 0
                             ELSE room[CHOOSE x \in s : TRUE] + h[s \ {CHOOSE x \in s : TRUE}]]
<1>1. OverAt(q, room, over, i) = over - (CHOOSE h : Added(h))[S]
  BY DEF OverAt, MapThenSumSet, MapThenFoldSet
<1>2. \A h : Added(h) <=> Summed(room, S, h)
  BY DEF Summed
<1> HIDE DEF Added
<1>3. (CHOOSE h : Added(h)) = CHOOSE h : Summed(room, S, h)
  BY <1>2
<1>4. OverAt(q, room, over, i) = over - SumOver(room, S)
  BY <1>1, <1>3 DEF SumOver
<1>5. IsFiniteSet(S)
  BY RequiredIs, FS_Subset
<1>6. Countable(room, S) /\ \A x \in S : 0 <= room[x]
  BY <1>5 DEF Countable
<1> HIDE DEF S
<1>7. SumOver(room, S) \in Nat
  BY <1>6, SumNat
<1>8. over - SumOver(room, S) \in Int
  BY <1>7
<1> QED
  BY <1>4, <1>6, <1>7, <1>8 DEF S

LEMMA SoftlyCuts ==
  ASSUME NEW q, Pack(q), NEW over \in Int
  PROVE  CutFrom(q, CutSoftly(q, over))
<1> DEFINE R == Required(q)
           room == [i \in R |-> Room(q[i], Floors[q[i].kind])]
           Cut(i) == IF OverAt(q, room, over, i) > 0
                     THEN Least(OverAt(q, room, over, i), room[i]) ELSE 0
           r == CutSoftly(q, over)
<1>1. r = [i \in DOMAIN q |->
             IF i \in DOMAIN room THEN [q[i] EXCEPT !.size = @ - Cut(i)] ELSE q[i]]
  BY DEF CutSoftly
<1>2. ASSUME NEW i \in R
      PROVE  /\ room[i] \in Nat /\ room[i] = q[i].size - Least(q[i].size, Floors[q[i].kind])
             /\ q[i].size \in Nat /\ Floors[q[i].kind] \in Nat /\ HardFloor <= Floors[q[i].kind]
  <2>1. q[i].size \in Nat /\ q[i].kind \in DOMAIN Floors
    BY RequiredIs
  <2>2. Floors[q[i].kind] \in Nat /\ HardFloor <= Floors[q[i].kind] /\ HardFloor \in Nat
    BY <2>1, PackAssumption
  <2> QED
    BY <2>1, <2>2, RoomIs DEF Room
<1>3. room \in [R -> Nat]
  BY <1>2
<1> HIDE DEF room
<1>4. ASSUME NEW i \in R
      PROVE  /\ q[i].size - Cut(i) \in Nat /\ q[i].size - Cut(i) <= q[i].size
             /\ Least(q[i].size - Cut(i), HardFloor) = Least(q[i].size, HardFloor)
  <2>1. OverAt(q, room, over, i) \in Int
    BY <1>3, OverAtIs
  <2> DEFINE left == OverAt(q, room, over, i)
             a == q[i].size
             f == Floors[q[i].kind]
             c == Cut(i)
  <2>2. c = IF left > 0 THEN Least(left, room[i]) ELSE 0
    OBVIOUS
  <2>3. a \in Nat /\ f \in Nat /\ HardFloor <= f /\ room[i] = a - Least(a, f) /\ room[i] \in Nat
    BY <1>2
  <2>4. left \in Int /\ HardFloor \in Nat
    BY <2>1, PackAssumption
  <2> HIDE DEF left, a, f, c, Cut
  <2>5. c \in Nat /\ c <= a - Least(a, f)
    BY <2>2, <2>3, <2>4 DEF Least
  <2>6. a - c \in Nat /\ a - c <= a /\ Least(a - c, HardFloor) = Least(a, HardFloor)
    BY <2>3, <2>4, <2>5 DEF Least
  <2> QED
    BY <2>6 DEF a, c
<1> HIDE DEF Cut
<1>5. DOMAIN room = R /\ R \in SUBSET DOMAIN q
  BY <1>3, RequiredIs
<1>6. ASSUME NEW i \in DOMAIN q
      PROVE  /\ r[i] = [q[i] EXCEPT !.size = r[i].size]
             /\ r[i].size \in Nat /\ r[i].size <= q[i].size
             /\ Least(r[i].size, HardFloor) = Least(q[i].size, HardFloor)
  <2>1. IsItem(q[i])
    BY DEF Pack
  <2>2. CASE i \in R
    <3>1. r[i] = [q[i] EXCEPT !.size = q[i].size - Cut(i)]
      BY <1>1, <1>5, <2>2
    <3>2. r[i].size = q[i].size - Cut(i)
      BY <2>1, <3>1 DEF IsItem
    <3> QED
      BY <1>4, <2>2, <3>1, <3>2
  <2>3. CASE i \notin R
    <3>1. r[i] = q[i]
      BY <1>1, <1>5, <2>3
    <3> QED
      BY <2>1, <3>1 DEF IsItem
  <2> QED
    BY <2>2, <2>3
<1>7. r = [i \in DOMAIN q |-> r[i]] /\ Len(r) = Len(q)
  BY <1>1, LenProperties DEF Pack
<1> QED
  BY <1>6, <1>7 DEF CutFrom

(* After the second round what is required fits, or is at the floor.       *)
LEMMA HardCuts ==
  ASSUME NEW q, Pack(q), NEW budget \in Int
  PROVE  LET r == CutHard(q, Over(q, budget)) IN
         /\ CutFrom(q, r)
         /\ \/ Total(r, Required(q)) <= budget
            \/ \A i \in Required(q) : r[i].size = Least(q[i].size, HardFloor)
<1> DEFINE R == Required(q)
           over == Over(q, budget)
           room == [i \in R |-> Room(q[i], HardFloor)]
           Cut(i) == IF OverAt(q, room, over, i) > 0 THEN room[i] ELSE 0
           r == CutHard(q, over)
<1>0. R \in SUBSET DOMAIN q /\ IsFiniteSet(R)
  BY RequiredIs
<1>1. r = [i \in DOMAIN q |->
             IF i \in DOMAIN room THEN [q[i] EXCEPT !.size = @ - Cut(i)] ELSE q[i]]
  BY DEF CutHard
<1>2. ASSUME NEW i \in R
      PROVE  /\ room[i] \in Nat /\ room[i] = q[i].size - Least(q[i].size, HardFloor)
             /\ q[i].size \in Nat
  <2>1. q[i].size \in Nat /\ HardFloor \in Nat
    BY RequiredIs, PackAssumption
  <2> QED
    BY <2>1, RoomIs DEF Room
<1>3. room \in [R -> Nat] /\ DOMAIN room = R
  BY <1>2
<1>4. /\ Total(q, R) = SumOver(Sizes(q), R) /\ SumOver(Sizes(q), R) \in Nat
      /\ Countable(Sizes(q), R) /\ \A i \in R : Sizes(q)[i] = q[i].size
  BY <1>0, TotalIs, SizesCount
<1>5. over = SumOver(Sizes(q), R) - budget /\ over \in Int
  BY <1>4 DEF Over
<1> HIDE DEF room, over
<1>6. ASSUME NEW i \in R PROVE OverAt(q, room, over, i) \in Int
  BY <1>3, <1>5, OverAtIs
<1>7. ASSUME NEW i \in R
      PROVE  /\ Cut(i) \in Nat /\ Cut(i) <= room[i]
             /\ q[i].size - Cut(i) \in Nat /\ q[i].size - Cut(i) <= q[i].size
             /\ Least(q[i].size - Cut(i), HardFloor) = Least(q[i].size, HardFloor)
  <2> DEFINE a == q[i].size
             c == Cut(i)
  <2>1. c = room[i] \/ c = 0
    OBVIOUS
  <2>2. a \in Nat /\ room[i] = a - Least(a, HardFloor) /\ HardFloor \in Nat /\ room[i] \in Nat
    BY <1>2, PackAssumption
  <2> HIDE DEF a, c, Cut
  <2>3. c \in Nat /\ c <= room[i]
    BY <2>1, <2>2
  <2>4. a - c \in Nat /\ a - c <= a /\ Least(a - c, HardFloor) = Least(a, HardFloor)
    BY <2>1, <2>2 DEF Least
  <2> QED
    BY <2>3, <2>4 DEF a, c
<1>8. ASSUME NEW i \in DOMAIN q
      PROVE  /\ r[i] = [q[i] EXCEPT !.size = r[i].size]
             /\ r[i].size \in Nat /\ r[i].size <= q[i].size
             /\ Least(r[i].size, HardFloor) = Least(q[i].size, HardFloor)
             /\ i \in R => r[i].size = q[i].size - Cut(i)
  <2>1. IsItem(q[i])
    BY DEF Pack
  <2>2. CASE i \in R
    <3> HIDE DEF Cut, r
    <3>1. r[i] = [q[i] EXCEPT !.size = q[i].size - Cut(i)]
      BY <1>1, <1>3, <2>2
    <3>2. r[i].size = q[i].size - Cut(i)
      BY <2>1, <3>1 DEF IsItem
    <3> QED
      BY <1>7, <2>2, <3>1, <3>2
  <2>3. CASE i \notin R
    <3> HIDE DEF Cut, r, R
    <3>1. r[i] = q[i]
      BY <1>1, <1>3, <2>3
    <3> QED
      BY <2>1, <2>3, <3>1 DEF IsItem
  <2> QED
    BY <2>2, <2>3
<1>9. CutFrom(q, r)
  <2>1. r = [i \in DOMAIN q |-> r[i]] /\ Len(r) = Len(q)
    BY <1>1, LenProperties DEF Pack
  <2> HIDE DEF r
  <2> QED
    BY <1>8, <2>1 DEF CutFrom
<1>10. CASE \A i \in R : OverAt(q, room, over, i) > 0
  <2> SUFFICES ASSUME NEW i \in R PROVE r[i].size = Least(q[i].size, HardFloor)
    BY <1>9 DEF over
  <2>1. Cut(i) = room[i]
    BY <1>10
  <2>2. r[i].size = q[i].size - Cut(i)
    BY <1>0, <1>8
  <2>3. q[i].size \in Nat /\ Least(q[i].size, HardFloor) \in Nat
    BY <1>2, RoomIs, PackAssumption
  <2> HIDE DEF Cut, r
  <2> QED
    BY <1>2, <2>1, <2>2, <2>3
<1>11. CASE \E i \in R : ~(OverAt(q, room, over, i) > 0)
  <2> DEFINE T == {i \in R : ~(OverAt(q, room, over, i) > 0)}
  <2>1. PICK e \in T : \A d \in T : <<d, e>> \notin CutPairs(q)
    <3>1. T \in SUBSET R /\ T # {}
      BY <1>11
    <3> HIDE DEF T, R
    <3> QED
      BY <1>0, <3>1, CutOrders, FirstOf DEF R
  <2> DEFINE E == {j \in R : CutEarlier(q, j, e)}
             cut == [i \in R |-> Cut(i)]
             left == [i \in R |-> r[i].size]
  <2>2. e \in R /\ OverAt(q, room, over, e) = over - SumOver(room, E)
        /\ SumOver(room, E) \in Nat /\ Countable(room, E)
    BY <1>3, <1>5, OverAtIs
  <2>3. over <= SumOver(room, E)
    <3>1. ~(OverAt(q, room, over, e) > 0)
      OBVIOUS
    <3> HIDE DEF E
    <3> QED
      BY <1>5, <2>2, <3>1
  <2>4. ASSUME NEW j \in E PROVE j \in R /\ cut[j] = room[j]
    <3>1. j \in R /\ <<j, e>> \in CutPairs(q)
      BY <2>2, CutOrders
    <3>2. j \notin T
      BY <2>1, <3>1
    <3> QED
      BY <3>1, <3>2
  <2>5. Countable(cut, R) /\ \A i \in R : 0 <= cut[i]
    <3>1. \A i \in R : cut[i] \in Nat
      BY <1>7
    <3> HIDE DEF cut
    <3> QED
      BY <1>0, <3>1 DEF Countable
  <2>6. Countable(left, R) /\ \A i \in R : left[i] = r[i].size /\ Sizes(q)[i] = left[i] + cut[i]
    <3>1. \A i \in R : left[i] = q[i].size - cut[i] /\ q[i].size \in Nat /\ cut[i] \in Nat
      BY <1>0, <1>2, <1>7, <1>8
    <3>2. \A i \in R : left[i] = r[i].size /\ Sizes(q)[i] = q[i].size
      BY <1>4
    <3> HIDE DEF left, cut
    <3> QED
      BY <1>0, <3>1, <3>2 DEF Countable
  <2>7. SumOver(room, E) <= SumOver(cut, R)
    <3>1. E \subseteq R /\ \A x \in E : room[x] <= cut[x]
      <4>1. \A x \in E : x \in R /\ cut[x] = room[x] /\ room[x] \in Nat
        BY <1>2, <2>4
      <4> HIDE DEF E, cut
      <4> QED
        BY <4>1
    <3> HIDE DEF E, cut, R
    <3> QED
      BY <2>2, <2>5, <3>1, SumGrows
  <2>8. SumOver(Sizes(q), R) = SumOver(left, R) + SumOver(cut, R)
    <3> HIDE DEF left, cut, R
    <3> QED
      BY <1>4, <2>5, <2>6, SumSplits
  <2>9. SumOver(left, R) \in Int /\ SumOver(cut, R) \in Int
    <3> HIDE DEF left, cut, R
    <3> QED
      BY <2>5, <2>6, SumInt
  <2>10. Total(r, R) = SumOver(left, R)
    <3>1. Total(r, R) = SumOver(Sizes(r), R)
      BY <1>0, <1>9, TotalIs DEF CutFrom
    <3>2. \A i \in R : Sizes(r)[i] = left[i]
      BY <1>0, <1>9, <2>6 DEF CutFrom, Sizes
    <3> HIDE DEF left, R, r
    <3> QED
      BY <2>6, <3>1, <3>2, SumSame
  <2>11. SumOver(left, R) <= budget
    <3> DEFINE a == SumOver(Sizes(q), R)
               b == SumOver(left, R)
               c == SumOver(cut, R)
               d == SumOver(room, E)
    <3>1. a = b + c /\ over = a - budget /\ over <= d /\ d <= c
          /\ a \in Nat /\ b \in Int /\ c \in Int /\ d \in Nat
      BY <1>4, <1>5, <2>2, <2>3, <2>7, <2>8, <2>9
    <3> HIDE DEF a, b, c, d
    <3>2. b <= budget
      BY <3>1
    <3> QED
      BY <3>2 DEF b
  <2> QED
    BY <1>9, <2>10, <2>11 DEF over
<1> QED
  BY <1>10, <1>11 DEF over

LEMMA ListedIs ==
  ASSUME NEW f, Len(f) \in Nat, f = [i \in 1..Len(f) |-> f[i]]
  PROVE  Listed(f) = f
<1> DEFINE S == {f[i] : i \in 1..Len(f)}
<1>1. f \in Seq(S)
  BY IsASeq
<1> QED
  BY <1>1, ConcatEmptySeq DEF Listed

(* What fitting leaves: required items that fit, or are at the floor, and  *)
(* all of them as they were when there was room for them.                  *)
LEMMA FittedIs ==
  ASSUME NEW q, Pack(q), NEW budget \in Int
  PROVE  LET r == Fitted(q, budget) IN
         /\ CutFrom(q, r)
         /\ \/ Total(r, Required(q)) <= budget
            \/ \A i \in Required(q) : r[i].size = Least(q[i].size, HardFloor)
         /\ Total(q, Required(q)) <= budget => r = q
<1> DEFINE R == Required(q)
           s == FittedSoftly(q, budget)
           r == Fitted(q, budget)
<1>1. ASSUME NEW f, NEW g, CutFrom(g, f), Pack(g) PROVE Listed(f) = f
  <2>1. DOMAIN g = 1..Len(f) /\ Len(f) \in Nat
    BY <1>1 DEF CutFrom, Pack
  <2>2. f = [i \in 1..Len(f) |-> f[i]]
    BY <1>1, <2>1 DEF CutFrom
  <2> QED
    BY <2>1, <2>2, ListedIs
<1>2. ASSUME NEW g, Pack(g) PROVE Total(g, Required(g)) \in Nat
  <2>1. Required(g) \in SUBSET DOMAIN g
    BY <1>2, RequiredIs
  <2> QED
    BY <1>2, <2>1, TotalIs, SizesCount
<1>3. Over(q, budget) = Total(q, R) - budget /\ Total(q, R) \in Nat /\ Over(q, budget) \in Int
  BY <1>2 DEF Over
<1>4. CutFrom(q, q)
  BY DEF CutFrom, Pack, IsItem
<1>5. CutFrom(q, s) /\ (Total(q, R) <= budget => s = q)
  <2>1. CASE Over(q, budget) <= 0
    BY <1>4, <2>1 DEF FittedSoftly
  <2>2. CASE ~(Over(q, budget) <= 0)
    <3>1. CutFrom(q, CutSoftly(q, Over(q, budget)))
      BY <1>3, SoftlyCuts
    <3>2. s = CutSoftly(q, Over(q, budget))
      BY <1>1, <2>2, <3>1 DEF FittedSoftly
    <3> QED
      BY <1>3, <2>2, <3>1, <3>2
  <2> QED
    BY <2>1, <2>2
<1>6. Pack(s) /\ Required(s) = R
  BY <1>5, CutKeeps
<1>7. Total(s, R) \in Nat /\ Over(s, budget) = Total(s, R) - budget /\ Over(s, budget) \in Int
  BY <1>2, <1>6 DEF Over
<1> HIDE DEF s
<1>8. r = IF Over(s, budget) <= 0 THEN s ELSE Listed(CutHard(s, Over(s, budget)))
  BY DEF Fitted, s
<1> HIDE DEF r, R
<1>9. CASE Over(s, budget) <= 0
  <2>1. r = s /\ Total(r, R) <= budget
    BY <1>7, <1>8, <1>9
  <2> QED
    BY <1>5, <2>1 DEF r, R
<1>10. CASE ~(Over(s, budget) <= 0)
  <2> DEFINE h == CutHard(s, Over(s, budget))
  <2>1. /\ CutFrom(s, h)
        /\ \/ Total(h, R) <= budget
           \/ \A i \in R : h[i].size = Least(s[i].size, HardFloor)
    BY <1>6, HardCuts
  <2> HIDE DEF h
  <2>2. r = h
    BY <1>1, <1>6, <1>8, <1>10, <2>1 DEF h
  <2>3. CutFrom(q, h)
    <3>1. /\ DOMAIN s = DOMAIN q /\ Len(h) = Len(q) /\ h = [i \in DOMAIN q |-> h[i]]
      BY <1>5, <2>1 DEF CutFrom
    <3>2. ASSUME NEW i \in DOMAIN q
          PROVE  /\ h[i] = [q[i] EXCEPT !.size = h[i].size]
                 /\ h[i].size \in Nat /\ h[i].size <= q[i].size
                 /\ Least(h[i].size, HardFloor) = Least(q[i].size, HardFloor)
      <4>1. /\ s[i] = [q[i] EXCEPT !.size = s[i].size]
            /\ s[i].size \in Nat /\ s[i].size <= q[i].size
            /\ Least(s[i].size, HardFloor) = Least(q[i].size, HardFloor)
        BY <1>5 DEF CutFrom
      <4>2. /\ h[i] = [s[i] EXCEPT !.size = h[i].size]
            /\ h[i].size \in Nat /\ h[i].size <= s[i].size
            /\ Least(h[i].size, HardFloor) = Least(s[i].size, HardFloor)
        BY <2>1, <3>1 DEF CutFrom
      <4>3. IsItem(q[i]) /\ q[i].size \in Nat
        BY DEF Pack, IsItem
      <4>4. h[i] = [q[i] EXCEPT !.size = h[i].size]
        BY <4>1, <4>2, <4>3 DEF IsItem
      <4>5. h[i].size <= q[i].size
        BY <4>1, <4>2, <4>3
      <4> QED
        BY <4>1, <4>2, <4>4, <4>5
    <3> QED
      BY <3>1, <3>2 DEF CutFrom
  <2>4. \A i \in R : Least(s[i].size, HardFloor) = Least(q[i].size, HardFloor)
    BY <1>5 DEF CutFrom, R, Required
  <2>5. ~(Total(q, R) <= budget)
    BY <1>5, <1>7, <1>10, <1>3
  <2> QED
    BY <2>1, <2>2, <2>3, <2>4, <2>5 DEF r, R
<1> QED
  BY <1>9, <1>10

(* The order in which items are taken into a pack, as pairs.               *)
RankPairs(q) == {p \in (DOMAIN q) \X (DOMAIN q) :
                   \/ Outranks(q[p[1]], q[p[2]])
                   \/ ~Outranks(q[p[2]], q[p[1]]) /\ p[1] < p[2]}

LEMMA RankOrders ==
  ASSUME NEW q, Pack(q)
  PROVE  /\ \A d \in DOMAIN q : <<d, d>> \notin RankPairs(q)
         /\ \A c, d, e \in DOMAIN q : <<c, d>> \in RankPairs(q) /\ <<d, e>> \in RankPairs(q)
                                        => <<c, e>> \in RankPairs(q)
         /\ \A d, e \in DOMAIN q : d = e \/ <<d, e>> \in RankPairs(q) \/ <<e, d>> \in RankPairs(q)
         /\ \A d, e \in DOMAIN q : q[e].pinned /\ <<d, e>> \in RankPairs(q) => q[d].pinned
<1> DEFINE R == DOMAIN q
           must == [i \in R |-> q[i].pinned]
           rank == [i \in R |-> q[i].priority]
           Above(i, j) == (must[i] /\ ~must[j]) \/ (must[i] = must[j] /\ rank[i] > rank[j])
           Before(i, j) == Above(i, j) \/ (~Above(j, i) /\ i < j)
<1>1. \A i \in R : i \in Nat /\ must[i] \in BOOLEAN /\ rank[i] \in Nat /\ must[i] = q[i].pinned
  BY DEF Pack, IsItem
<1>2. \A d, e \in R : <<d, e>> \in RankPairs(q) <=> Before(d, e)
  BY DEF RankPairs, Outranks
<1> HIDE DEF R, must, rank
<1>4. \A d \in R : ~Before(d, d)
  BY <1>1
<1>5. \A c, d, e \in R : Before(c, d) /\ Before(d, e) => Before(c, e)
  BY <1>1
<1>6. \A d, e \in R : d = e \/ Before(d, e) \/ Before(e, d)
  BY <1>1
<1>7. \A d, e \in R : must[e] /\ Before(d, e) => must[d]
  BY <1>1
<1> HIDE DEF Before
<1> QED
  BY <1>1, <1>2, <1>4, <1>5, <1>6, <1>7 DEF R

LEMMA ByRankIs ==
  ASSUME NEW q, Pack(q)
  PROVE  LET order == ByRank(q) IN
         /\ order \in Seq(DOMAIN q) /\ Len(order) \in Nat /\ DOMAIN order = 1..Len(order)
         /\ \A n \in 1..Len(order) : order[n] \in DOMAIN q
         /\ \A m, n \in 1..Len(order) : m < n => <<order[m], order[n]>> \in RankPairs(q)
         /\ \A i \in DOMAIN q : \E n \in 1..Len(order) : order[n] = i
<1>1. ByRank(q) = SortedBy(DOMAIN q, RankPairs(q))
  BY DEF ByRank, RankPairs
<1>2. IsFiniteSet(DOMAIN q)
  BY SizesCount
<1>3. /\ SortedBy(DOMAIN q, RankPairs(q)) \in Seq(DOMAIN q)
      /\ \A i, j \in 1..Len(SortedBy(DOMAIN q, RankPairs(q))) :
           i < j => <<SortedBy(DOMAIN q, RankPairs(q))[i], SortedBy(DOMAIN q, RankPairs(q))[j]>>
                      \in RankPairs(q)
      /\ \A e \in DOMAIN q :
           \E i \in 1..Len(SortedBy(DOMAIN q, RankPairs(q))) :
             SortedBy(DOMAIN q, RankPairs(q))[i] = e
  BY <1>2, RankOrders, SortedByOrders
<1> QED
  BY <1>1, <1>3, LenProperties

(* One item is taken, or has no room.                                      *)
Takes(q, budget, acc, i) ==
  LET cost == IF q[i].sent THEN q[i].size ELSE 0
  IN IF q[i].repeats \/ (q[i].sent /\ acc.used + cost > budget) THEN acc
     ELSE [in |-> acc.in \cup {i}, used |-> acc.used + cost]

Nothing == [in |-> {}, used |-> 0]

LEMMA ProjectedRuns ==
  ASSUME NEW q, Pack(q), NEW budget \in Int
  PROVE  \E g : /\ g[0] = Nothing
                /\ \A n \in 1..Len(ByRank(q)) : g[n] = Takes(q, budget, g[n - 1], ByRank(q)[n])
                /\ Projected(q, budget) = g[Len(ByRank(q))].in
<1> DEFINE order == ByRank(q)
           N == Len(order)
           A == [in : SUBSET DOMAIN q, used : Nat]
           move == [n \in 1..N |-> [acc \in A |-> Takes(q, budget, acc, order[n])]]
           Run(h) == h = [s \in SUBSET (1..N) |->
                            IF s = {} THEN Nothing
                            ELSE Takes(q, budget, h[s \ {Greatest(s)}], order[Greatest(s)])]
<1>1. N \in Nat /\ DOMAIN order = 1..N /\ \A n \in 1..N : order[n] \in DOMAIN q
  BY ByRankIs
<1>2. Projected(q, budget) = (CHOOSE h : Run(h))[1..N].in
  BY <1>1 DEF Projected, FoldLeft, MapThenFoldSet, Takes, Nothing, Max, Greatest
<1>3. \A n \in 1..N, acc \in A : move[n][acc] \in A /\ move[n][acc] = Takes(q, budget, acc, order[n])
  <2> SUFFICES ASSUME NEW n \in 1..N, NEW acc \in A PROVE Takes(q, budget, acc, order[n]) \in A
    OBVIOUS
  <2> DEFINE i == order[n]
  <2>1. i \in DOMAIN q /\ q[i].size \in Nat
    BY <1>1 DEF Pack, IsItem
  <2> HIDE DEF i
  <2>2. Takes(q, budget, acc, i) \in A
    BY <2>1 DEF Takes
  <2> QED
    BY <2>2 DEF i
<1>4. PICK h \in [SUBSET (1..N) -> A] : FoldedAlong(N, move, Nothing, h)
  <2>1. Nothing \in A
    BY DEF Nothing
  <2> HIDE DEF A, move, N
  <2>2. N \in Nat /\ \A i \in 1..N, a \in A : move[i][a] \in A
    BY <1>1, <1>3
  <2> QED
    BY <2>1, <2>2, FoldAlong
<1>5. Run(h)
  <2>1. ASSUME NEW s \in SUBSET (1..N), s # {}
        PROVE  move[Greatest(s)][h[s \ {Greatest(s)}]]
                 = Takes(q, budget, h[s \ {Greatest(s)}], order[Greatest(s)])
    <3>1. Greatest(s) \in 1..N
      BY <1>1, <2>1, GreatestIs
    <3>2. h[s \ {Greatest(s)}] \in A
      OBVIOUS
    <3> HIDE DEF A, move
    <3> QED
      BY <1>3, <3>1, <3>2
  <2> HIDE DEF A, move, N, order
  <2>2. h = [s \in SUBSET (1..N) |->
               IF s = {} THEN Nothing
               ELSE Takes(q, budget, h[s \ {Greatest(s)}], order[Greatest(s)])]
    BY <1>4, <2>1 DEF FoldedAlong
  <2> QED
    BY <2>2
<1> HIDE DEF Run
<1>6. PICK k : k = (CHOOSE f : Run(f)) /\ Run(k)
  BY <1>5
<1> DEFINE g == [n \in 0..N |-> k[1..n]]
<1>7. \A s \in SUBSET (1..N) :
        k[s] = IF s = {} THEN Nothing
               ELSE Takes(q, budget, k[s \ {Greatest(s)}], order[Greatest(s)])
  BY <1>6 DEF Run
<1> HIDE DEF N, order
<1>8. g[0] = Nothing
  <2>1. 1..0 = {} /\ 0 \in 0..N
    BY <1>1
  <2> QED
    BY <1>7, <2>1
<1>9. ASSUME NEW n \in 1..N PROVE g[n] = Takes(q, budget, g[n - 1], order[n])
  <2>1. /\ 1..n \in SUBSET (1..N) /\ 1..n # {} /\ Greatest(1..n) = n
        /\ (1..n) \ {n} = 1..(n - 1)
    BY <1>1, PrefixIs
  <2>2. k[1..n] = Takes(q, budget, k[1..(n - 1)], order[n])
    BY <1>7, <2>1
  <2>3. n \in 0..N /\ n - 1 \in 0..N
    BY <1>1
  <2> QED
    BY <2>2, <2>3
<1>10. Projected(q, budget) = g[N].in
  BY <1>1, <1>2, <1>6
<1> HIDE DEF g
<1> QED
  BY <1>8, <1>9, <1>10 DEF N, order

(* A pack keeps to its budget.  What, with all that is sent before it, has *)
(* room in the budget is taken.                                            *)
Before(q, S) == \A i \in S, j \in DOMAIN q : <<j, i>> \in RankPairs(q) /\ q[j].sent => j \in S

LEMMA ProjectedIs ==
  ASSUME NEW q, Pack(q), NEW budget \in Nat
  PROVE  LET in == Projected(q, budget) IN
         /\ in \subseteq DOMAIN q
         /\ Total(q, {i \in in : q[i].sent}) <= budget
         /\ \A S \in SUBSET DOMAIN q :
              Before(q, S) /\ Total(q, S) <= budget => \A i \in S : q[i].repeats \/ i \in in
<1> DEFINE order == ByRank(q)
           N == Len(order)
           Sent1(s) == {i \in s : q[i].sent}
           D == DOMAIN q
<1>1. /\ N \in Nat /\ \A n \in 1..N : order[n] \in D
      /\ \A m, n \in 1..N : m < n => <<order[m], order[n]>> \in RankPairs(q)
      /\ \A i \in D : \E n \in 1..N : order[n] = i
  BY ByRankIs
<1>2. PICK g : /\ g[0] = Nothing
               /\ \A n \in 1..N : g[n] = Takes(q, budget, g[n - 1], order[n])
               /\ Projected(q, budget) = g[N].in
  BY ProjectedRuns
<1> HIDE DEF order, N
<1> DEFINE Fine(n) ==
             /\ g[n].in \in SUBSET D /\ \A i \in g[n].in : \E m \in 1..n : order[m] = i
             /\ g[n].used = SumOver(Sizes(q), Sent1(g[n].in)) /\ g[n].used <= budget
           Good == {n \in Nat : n <= N => Fine(n)}
<1>3. \A S \in SUBSET D : /\ IsFiniteSet(S) /\ Countable(Sizes(q), S)
                          /\ \A x \in S : Sizes(q)[x] = q[x].size /\ Sizes(q)[x] \in Nat
                          /\ SumOver(Sizes(q), S) \in Nat
                          /\ Total(q, S) = SumOver(Sizes(q), S)
  BY SizesCount, TotalIs
<1>4. 0 \in Good
  <2>1. g[0].in = {} /\ g[0].used = 0 /\ Sent1(g[0].in) = {}
    BY <1>2 DEF Nothing
  <2>2. SumOver(Sizes(q), Sent1(g[0].in)) = 0
    BY <2>1, SumEmpty
  <2> QED
    BY <2>1, <2>2
<1>5. ASSUME NEW n \in Nat, n + 1 <= N, Fine(n)
      PROVE  /\ Fine(n + 1) /\ g[n].in \subseteq g[n + 1].in
             /\ \/ order[n + 1] \in g[n + 1].in \/ q[order[n + 1]].repeats
                \/ /\ q[order[n + 1]].sent
                   /\ g[n].used + q[order[n + 1]].size > budget
  <2> DEFINE i == order[n + 1]
             s == g[n].in
             t == s \cup {i}
  <2>1. n + 1 \in 1..N /\ (n + 1) - 1 = n
    BY <1>1, <1>5
  <2>2. i \in D /\ q[i].size \in Nat /\ q[i].sent \in BOOLEAN
    BY <1>1, <2>1 DEF Pack, IsItem
  <2>3. g[n + 1] = Takes(q, budget, g[n], i)
    BY <1>2, <2>1
  <2>4. \A m \in 1..n : order[m] # i
    <3> SUFFICES ASSUME NEW m \in 1..n PROVE order[m] # i
      OBVIOUS
    <3>1. m \in 1..N /\ m < n + 1
      BY <1>1, <1>5
    <3>2. <<order[m], i>> \in RankPairs(q)
      BY <1>1, <2>1, <3>1
    <3> QED
      BY <2>2, <3>2, RankOrders
  <2>5. i \notin s
    BY <1>5, <2>4
  <2>6. CASE q[i].repeats \/ (q[i].sent /\ g[n].used + q[i].size > budget)
    <3>1. g[n + 1] = g[n]
      BY <2>3, <2>6 DEF Takes
    <3>2. \A m \in 1..n : m \in 1..(n + 1)
      OBVIOUS
    <3> HIDE DEF Sent1
    <3> QED
      BY <1>5, <2>6, <3>1, <3>2
  <2>7. CASE ~(q[i].repeats \/ (q[i].sent /\ g[n].used + q[i].size > budget))
    <3>1. g[n + 1].in = t
          /\ g[n + 1].used = g[n].used + (IF q[i].sent THEN q[i].size ELSE 0)
      BY <2>3, <2>7 DEF Takes
    <3>2. t \in SUBSET D /\ \A x \in t : \E m \in 1..(n + 1) : order[m] = x
      <4>1. \A x \in s : \E m \in 1..(n + 1) : order[m] = x
        <5> SUFFICES ASSUME NEW x \in s PROVE \E m \in 1..(n + 1) : order[m] = x
          OBVIOUS
        <5>1. PICK m \in 1..n : order[m] = x
          BY <1>5
        <5>2. m \in 1..(n + 1)
          OBVIOUS
        <5> QED
          BY <5>1, <5>2
      <4>2. n + 1 \in 1..(n + 1)
        OBVIOUS
      <4> QED
        BY <1>5, <2>2, <4>1, <4>2
    <3>3. g[n + 1].used = SumOver(Sizes(q), Sent1(t)) /\ g[n + 1].used <= budget
      <4>1. CASE q[i].sent
        <5> DEFINE S == Sent1(s)
                   T == Sent1(t)
        <5>1. T = S \cup {i} /\ i \notin S /\ S \in SUBSET D /\ T \in SUBSET D /\ T \ {i} = S /\ i \in T
          BY <1>5, <2>2, <2>5, <4>1
        <5> HIDE DEF S, T
        <5>2. Countable(Sizes(q), T) /\ Sizes(q)[i] = q[i].size /\ SumOver(Sizes(q), S) \in Nat
          BY <1>3, <5>1
        <5>3. SumOver(Sizes(q), T) = q[i].size + SumOver(Sizes(q), S)
          BY <5>1, <5>2, SumLess
        <5>4. g[n].used = SumOver(Sizes(q), S)
          BY <1>5 DEF S
        <5>5. g[n + 1].used = g[n].used + q[i].size /\ ~(g[n].used + q[i].size > budget)
          BY <2>7, <3>1, <4>1
        <5>6. g[n + 1].used = SumOver(Sizes(q), T) /\ g[n + 1].used <= budget
          BY <2>2, <5>2, <5>3, <5>4, <5>5
        <5> QED
          BY <5>6 DEF T
      <4>2. CASE ~q[i].sent
        <5>1. Sent1(t) = Sent1(s)
          BY <4>2
        <5>2. g[n].used = SumOver(Sizes(q), Sent1(s)) /\ g[n].used <= budget
          BY <1>5
        <5>3. g[n].used \in Nat
          BY <1>3, <1>5, <5>2
        <5> HIDE DEF Sent1
        <5> QED
          BY <3>1, <4>2, <5>1, <5>2, <5>3
      <4> QED
        BY <4>1, <4>2
    <3> HIDE DEF Sent1
    <3>4. Fine(n + 1) /\ g[n].in \subseteq g[n + 1].in /\ i \in g[n + 1].in
      BY <3>1, <3>2, <3>3
    <3> QED
      BY <3>4
  <2> QED
    BY <2>6, <2>7
<1>6. \A n \in 0..N : Fine(n)
  <2>1. ASSUME NEW n \in Good PROVE n + 1 \in Good
    <3>1. n \in Nat /\ (n <= N => Fine(n))
      OBVIOUS
    <3> HIDE DEF Good, Fine
    <3>2. n + 1 <= N => Fine(n + 1)
      BY <1>1, <1>5, <3>1
    <3> QED
      BY <3>1, <3>2 DEF Good
  <2>2. Good = Nat
    <3>1. Good \in SUBSET Nat
      OBVIOUS
    <3> HIDE DEF Good, Fine
    <3> QED
      BY <1>4, <2>1, <3>1, SetInduction
  <2>3. \A n \in 0..N : n \in Nat /\ n <= N
    BY <1>1
  <2> HIDE DEF Fine
  <2> QED
    BY <2>2, <2>3
<1>7. ASSUME NEW m \in 0..N, NEW n \in 0..N, m <= n PROVE g[m].in \subseteq g[n].in
  <2> DEFINE Grown == {k \in Nat : k <= N /\ m <= k => g[m].in \subseteq g[k].in}
  <2>1. 0 \in Grown
    <3>1. m <= 0 => m = 0
      OBVIOUS
    <3> QED
      BY <3>1
  <2>2. ASSUME NEW k \in Grown PROVE k + 1 \in Grown
    <3>1. k \in Nat /\ (k <= N /\ m <= k => g[m].in \subseteq g[k].in)
      OBVIOUS
    <3>2. SUFFICES ASSUME k + 1 <= N, m <= k + 1 PROVE g[m].in \subseteq g[k + 1].in
      BY <3>1
    <3>3. k \in 0..N
      BY <1>1, <3>1, <3>2
    <3>4. g[k].in \subseteq g[k + 1].in
      <4> HIDE DEF Fine
      <4> QED
        BY <1>5, <1>6, <3>1, <3>2, <3>3
    <3>5. CASE m <= k
      BY <3>1, <3>3, <3>4, <3>5
    <3>6. CASE ~(m <= k)
      <4>1. m = k + 1
        BY <3>1, <3>2, <3>6
      <4> QED
        BY <4>1
    <3> QED
      BY <3>5, <3>6
  <2>3. Grown = Nat
    <3>1. Grown \in SUBSET Nat
      OBVIOUS
    <3> HIDE DEF Grown
    <3> QED
      BY <2>1, <2>2, <3>1, SetInduction
  <2>4. n \in Grown
    BY <2>3
  <2> QED
    BY <1>7, <2>4
<1> DEFINE in == Projected(q, budget)
<1>8. in = g[N].in /\ N \in 0..N
  BY <1>1, <1>2
<1>9. in \subseteq D /\ Total(q, {i \in in : q[i].sent}) <= budget
  <2>1. Fine(N)
    BY <1>6, <1>8
  <2>2. in \in SUBSET D /\ g[N].used = SumOver(Sizes(q), Sent1(in)) /\ g[N].used <= budget
    BY <1>8, <2>1
  <2>3. Sent1(in) \in SUBSET D
    BY <2>2
  <2>4. Total(q, Sent1(in)) = SumOver(Sizes(q), Sent1(in))
    BY <1>3, <2>3
  <2> QED
    BY <2>2, <2>4
<1>10. ASSUME NEW S \in SUBSET D, Before(q, S), Total(q, S) <= budget,
             NEW i \in S, ~q[i].repeats
       PROVE  i \in in
  <2>1. PICK n \in 1..N : order[n] = i
    BY <1>1
  <2> DEFINE m == n - 1
             T == Sent1(g[m].in)
  <2>2. m \in Nat /\ m + 1 = n /\ m + 1 <= N /\ m \in 0..N /\ n \in 0..N /\ n <= N
    BY <1>1, <2>1
  <2>3. Fine(m)
    BY <1>6, <2>2
  <2> HIDE DEF m
  <2>4. T \subseteq S \ {i}
    <3> SUFFICES ASSUME NEW j \in T PROVE j \in S \ {i}
      OBVIOUS
    <3>1. j \in g[m].in /\ q[j].sent /\ j \in D
      BY <2>3
    <3>2. PICK k \in 1..m : order[k] = j
      BY <2>3, <3>1
    <3>3. k \in 1..N /\ k < n
      <4>1. k \in Nat /\ 1 <= k /\ k <= m /\ n \in Nat /\ N \in Nat
        BY <1>1, <2>2
      <4> HIDE DEF Fine, T
      <4> QED
        BY <2>2, <4>1
    <3>4. <<j, i>> \in RankPairs(q)
      BY <1>1, <2>1, <3>2, <3>3
    <3>5. j # i
      BY <3>1, <3>4, RankOrders
    <3> QED
      BY <1>10, <3>1, <3>4, <3>5 DEF Before
  <2>5. g[m].used + q[i].size <= budget
    <3>1. g[m].used = SumOver(Sizes(q), T)
      BY <2>3
    <3> HIDE DEF T, Fine
    <3> DEFINE R == S \ {i}
    <3>2. T \in SUBSET D /\ R \in SUBSET D /\ T \subseteq R
      BY <2>4
    <3>3. SumOver(Sizes(q), S) = Sizes(q)[i] + SumOver(Sizes(q), R)
      BY <1>3, SumLess
    <3>4. /\ Sizes(q)[i] = q[i].size /\ q[i].size \in Nat
          /\ Total(q, S) = SumOver(Sizes(q), S) /\ SumOver(Sizes(q), R) \in Nat
          /\ SumOver(Sizes(q), T) \in Nat
      BY <1>3, <3>2
    <3> HIDE DEF R
    <3>5. SumOver(Sizes(q), T) <= SumOver(Sizes(q), R)
      <4>1. Countable(Sizes(q), T) /\ Countable(Sizes(q), R)
            /\ \A x \in R : Sizes(q)[x] \in Nat /\ 0 <= Sizes(q)[x]
        BY <1>3, <3>2
      <4>2. \A x \in T : Sizes(q)[x] <= Sizes(q)[x]
        BY <3>2, <4>1
      <4> QED
        BY <3>2, <4>1, <4>2, SumGrows
    <3> QED
      BY <1>10, <3>1, <3>3, <3>4, <3>5
  <2>6. i \in g[n].in
    <3>1. g[m].used \in Nat /\ q[i].size \in Nat
      <4>1. g[m].used = SumOver(Sizes(q), T) /\ T \in SUBSET D
        BY <2>3
      <4> HIDE DEF T, Fine
      <4> QED
        BY <1>3, <4>1 DEF Pack, IsItem
    <3>2. \/ order[m + 1] \in g[m + 1].in \/ q[order[m + 1]].repeats
          \/ g[m].used + q[order[m + 1]].size > budget
      <4> HIDE DEF Fine
      <4> QED
        BY <1>5, <2>2, <2>3
    <3> HIDE DEF Fine, T
    <3> QED
      BY <1>10, <2>1, <2>2, <2>5, <3>1, <3>2
  <2>7. g[n].in \subseteq g[N].in
    BY <1>7, <1>8, <2>2
  <2> QED
    BY <1>8, <2>6, <2>7
<1> QED
  BY <1>9, <1>10

-----------------------------------------------------------------------------
(* What is collected.                                                      *)

LEMMA PackIs ==
  ASSUME NEW S, \A x \in S : IsItem(x), NEW q \in Seq(S)
  PROVE  Pack(q) /\ \A i \in DOMAIN q : q[i] \in S
<1>1. Len(q) \in Nat /\ q \in [1..Len(q) -> S]
  BY LenProperties
<1> QED
  BY <1>1 DEF Pack

LEMMA ToSetIs == ASSUME NEW q PROVE ToSet(q) = {q[i] : i \in DOMAIN q}
  BY DEF ToSet

(* FlattenSeq, one sequence after the other.                               *)
LEMMA FlattenSteps ==
  ASSUME NEW S, NEW ss \in Seq(Seq(S))
  PROVE  \E f \in [0..Len(ss) -> Seq(S)] :
            /\ f[0] = <<>> /\ \A i \in 1..Len(ss) : f[i] = f[i - 1] \o ss[i]
            /\ FlattenSeq(ss) = f[Len(ss)]
<1> DEFINE n == Len(ss)
           move == [i \in 1..n |-> [a \in Seq(S) |-> a \o ss[i]]]
           Body(f, i) == IF i = 1 THEN ss[i] ELSE f[i - 1] \o ss[i]
           Flat(f) == f = [i \in 1..n |-> Body(f, i)]
<1>1. n \in Nat /\ DOMAIN ss = 1..n /\ \A i \in 1..n : ss[i] \in Seq(S)
  BY LenProperties
<1>2. <<>> \in Seq(S) /\ \A i \in 1..n, a \in Seq(S) : move[i][a] \in Seq(S) /\ move[i][a] = a \o ss[i]
  BY <1>1, ConcatProperties
<1>10. PICK f \in [0..n -> Seq(S)] : Stepped(n, move, <<>>, f)
  <2> DEFINE A == Seq(S)
             none == <<>>
  <2>1. none \in A /\ n \in Nat /\ \A i \in 1..n, a \in A : move[i][a] \in A
    BY <1>1, <1>2
  <2> HIDE DEF move, n, A, none
  <2>2. \E f \in [0..n -> A] : Stepped(n, move, none, f)
    BY <2>1, StepsExist
  <2> QED
    BY <2>2 DEF A, none
<1>3. f[0] = <<>> /\ \A i \in 1..n : f[i] = move[i][f[i - 1]]
  BY <1>10 DEF Stepped
<1>4. \A i \in 1..n : f[i] = f[i - 1] \o ss[i] /\ i - 1 \in 0..n /\ i \in 0..n
  <2> SUFFICES ASSUME NEW i \in 1..n
               PROVE  f[i] = f[i - 1] \o ss[i] /\ i - 1 \in 0..n /\ i \in 0..n
    OBVIOUS
  <2>1. i - 1 \in 0..n /\ i \in 0..n
    BY <1>1
  <2>2. f[i - 1] \in Seq(S)
    BY <2>1
  <2>3. move[i][f[i - 1]] = f[i - 1] \o ss[i]
    BY <1>2, <2>2
  <2> QED
    BY <1>3, <2>1, <2>3
<1> DEFINE g == [i \in 1..n |-> f[i]]
<1>5. Flat(g)
  <2>1. ASSUME NEW i \in 1..n PROVE g[i] = Body(g, i)
    <3>1. CASE i = 1
      <4>1. f[1] = f[1 - 1] \o ss[1] /\ 1 - 1 = 0 /\ ss[1] \in Seq(S) /\ f[0] = <<>>
        BY <1>1, <1>3, <1>4, <3>1
      <4> QED
        BY <3>1, <4>1, ConcatEmptySeq
    <3>2. CASE i # 1
      <4>1. i - 1 \in 1..n
        BY <1>1, <3>2
      <4> QED
        BY <1>4, <3>2, <4>1
    <3> QED
      BY <3>1, <3>2
  <2> HIDE DEF Body
  <2> QED
    BY <2>1
<1>6. PICK k : k = (CHOOSE h : Flat(h)) /\ Flat(k)
  <2> HIDE DEF Flat
  <2> QED
    BY <1>5
<1>7. n # 0 => FlattenSeq(ss) = k[n]
  BY <1>6 DEF FlattenSeq
<1>8. \A i \in 1..n : k[i] = f[i]
  <2> DEFINE Good == {i \in Nat : i + 1 \in 1..n => k[i + 1] = f[i + 1]}
  <2>1. \A i \in 1..n : k[i] = Body(k, i) /\ f[i] = Body(f, i)
    <3> SUFFICES ASSUME NEW i \in 1..n PROVE k[i] = Body(k, i) /\ f[i] = Body(f, i)
      OBVIOUS
    <3>1. g[i] = Body(g, i)
      BY <1>5
    <3>2. i # 1 => i - 1 \in 1..n
      BY <1>1
    <3>3. f[i] = Body(f, i)
      BY <3>1, <3>2
    <3> QED
      BY <1>6, <3>3
  <2> HIDE DEF g
  <2>2. 0 \in Good
    BY <2>1
  <2>3. ASSUME NEW i \in Good PROVE i + 1 \in Good
    <3>1. SUFFICES ASSUME (i + 1) + 1 \in 1..n PROVE k[(i + 1) + 1] = f[(i + 1) + 1]
      OBVIOUS
    <3>2. i + 1 \in 1..n /\ (i + 1) + 1 # 1 /\ ((i + 1) + 1) - 1 = i + 1
      BY <1>1, <3>1
    <3>3. k[i + 1] = f[i + 1]
      BY <3>2
    <3> QED
      BY <2>1, <3>1, <3>2, <3>3
  <2>4. Good = Nat
    <3>1. Good \in SUBSET Nat
      OBVIOUS
    <3> HIDE DEF Good
    <3> QED
      BY <2>2, <2>3, <3>1, SetInduction
  <2>5. \A i \in 1..n : i - 1 \in Good /\ (i - 1) + 1 = i
    <3>1. \A i \in 1..n : i - 1 \in Nat /\ (i - 1) + 1 = i
      BY <1>1
    <3> HIDE DEF Good
    <3> QED
      BY <2>4, <3>1
  <2> QED
    BY <2>5
<1>9. FlattenSeq(ss) = f[n]
  <2>1. CASE n = 0
    <3>1. ss = <<>>
      BY <2>1, EmptySeq
    <3> QED
      BY <1>3, <2>1, <3>1 DEF FlattenSeq
  <2>2. CASE n # 0
    <3>1. n \in 1..n
      BY <1>1, <2>2
    <3> QED
      BY <1>7, <1>8, <2>2, <3>1
  <2> QED
    BY <2>1, <2>2
<1> QED
  BY <1>3, <1>4, <1>9

(* Where the elements of the sequences go.                                 *)
Placed(ss, at, q) ==
  /\ at[0] = 0 /\ at[Len(ss)] = Len(q)
  /\ \A i \in 1..Len(ss) : at[i] = at[i - 1] + Len(ss[i])
  /\ \A i \in 1..Len(ss) : \A k \in 1..Len(ss[i]) :
        at[i - 1] + k \in 1..Len(q) /\ q[at[i - 1] + k] = ss[i][k]
  /\ \A p \in 1..Len(q) : \E i \in 1..Len(ss) : \E k \in 1..Len(ss[i]) : p = at[i - 1] + k

LEMMA FlattenIs ==
  ASSUME NEW S, NEW ss \in Seq(Seq(S))
  PROVE  /\ FlattenSeq(ss) \in Seq(S)
         /\ \E at \in [0..Len(ss) -> Nat] : Placed(ss, at, FlattenSeq(ss))
<1> DEFINE n == Len(ss)
<1>1. n \in Nat /\ DOMAIN ss = 1..n /\ \A i \in 1..n : ss[i] \in Seq(S) /\ Len(ss[i]) \in Nat
  BY LenProperties
<1>2. PICK f \in [0..n -> Seq(S)] :
        /\ f[0] = <<>> /\ \A i \in 1..n : f[i] = f[i - 1] \o ss[i]
        /\ FlattenSeq(ss) = f[n]
  BY FlattenSteps
<1> DEFINE at == [i \in 0..n |-> Len(f[i])]
<1>3. at \in [0..n -> Nat]
  BY LenProperties
<1>4. at[0] = 0
  BY <1>1, <1>2
<1>5. ASSUME NEW i \in 1..n
      PROVE  /\ i \in 0..n /\ i - 1 \in 0..n /\ at[i] = at[i - 1] + Len(ss[i])
             /\ \A p \in 1..at[i] :
                   f[i][p] = IF p <= at[i - 1] THEN f[i - 1][p] ELSE ss[i][p - at[i - 1]]
  <2>1. i \in 0..n /\ i - 1 \in 0..n
    BY <1>1
  <2>2. f[i - 1] \in Seq(S) /\ f[i] = f[i - 1] \o ss[i]
    BY <1>2, <2>1
  <2>3. /\ Len(f[i]) = Len(f[i - 1]) + Len(ss[i])
        /\ \A p \in 1..(Len(f[i - 1]) + Len(ss[i])) :
              f[i][p] = IF p <= Len(f[i - 1]) THEN f[i - 1][p] ELSE ss[i][p - Len(f[i - 1])]
    BY <1>1, <2>2, ConcatProperties
  <2>4. at[i] = Len(f[i]) /\ at[i - 1] = Len(f[i - 1])
    BY <2>1
  <2> QED
    BY <2>1, <2>3, <2>4
<1> DEFINE Fine(m) ==
             /\ \A i \in 1..m : \A k \in 1..Len(ss[i]) :
                   at[i - 1] + k \in 1..at[m] /\ f[m][at[i - 1] + k] = ss[i][k]
             /\ \A p \in 1..at[m] : \E i \in 1..m : \E k \in 1..Len(ss[i]) : p = at[i - 1] + k
           Good == {m \in Nat : m <= n => Fine(m)}
<1> HIDE DEF at
<1>6. ASSUME NEW m \in Nat, m + 1 <= n, Fine(m) PROVE Fine(m + 1)
  <2> DEFINE j == m + 1
  <2>1. j \in 1..n /\ j - 1 = m /\ m \in 0..n /\ j \in 0..n
    BY <1>1, <1>6
  <2>2. at[m] \in Nat /\ at[j] \in Nat /\ Len(ss[j]) \in Nat
    BY <1>1, <1>3, <2>1
  <2>3. /\ at[j] = at[m] + Len(ss[j])
        /\ \A p \in 1..at[j] : f[j][p] = IF p <= at[m] THEN f[m][p] ELSE ss[j][p - at[m]]
    BY <1>5, <2>1
  <2>4. ASSUME NEW i \in 1..j, NEW k \in 1..Len(ss[i])
        PROVE  at[i - 1] + k \in 1..at[j] /\ f[j][at[i - 1] + k] = ss[i][k]
    <3>1. CASE i = j
      <4>1. i - 1 = m /\ k \in Nat /\ 1 <= k /\ k <= Len(ss[j])
        BY <2>1, <2>2, <3>1
      <4>2. at[m] + k \in 1..at[j] /\ ~(at[m] + k <= at[m]) /\ (at[m] + k) - at[m] = k
        BY <2>2, <2>3, <4>1, SMTT(30)
      <4> QED
        BY <2>3, <3>1, <4>1, <4>2
    <3>2. CASE i # j
      <4>1. i \in 1..m
        BY <3>2
      <4>2. at[i - 1] + k \in 1..at[m] /\ f[m][at[i - 1] + k] = ss[i][k]
        BY <1>6, <4>1
      <4> DEFINE p == at[i - 1] + k
      <4> HIDE DEF p, j
      <4>3. p \in 1..at[m] /\ f[m][p] = ss[i][k]
        BY <4>2 DEF p
      <4>4. p \in 1..at[j] /\ p <= at[m]
        BY <2>2, <2>3, <4>3, SMTT(30)
      <4>5. f[j][p] = ss[i][k]
        BY <2>3, <4>3, <4>4
      <4> QED
        BY <4>4, <4>5 DEF p
    <3> QED
      BY <3>1, <3>2
  <2>5. ASSUME NEW p \in 1..at[j]
        PROVE  \E i \in 1..j : \E k \in 1..Len(ss[i]) : p = at[i - 1] + k
    <3>1. CASE p <= at[m]
      <4>1. p \in 1..at[m]
        BY <2>2, <3>1
      <4>2. PICK i \in 1..m : \E k \in 1..Len(ss[i]) : p = at[i - 1] + k
        BY <1>6, <4>1
      <4>3. i \in 1..j
        OBVIOUS
      <4> QED
        BY <4>2, <4>3
    <3>2. CASE ~(p <= at[m])
      <4> DEFINE k == p - at[m]
      <4>1. k \in 1..Len(ss[j]) /\ p = at[m] + k
        BY <2>2, <2>3, <3>2, SMTT(30)
      <4>2. j \in 1..j /\ j - 1 = m
        BY <2>1
      <4> HIDE DEF j, k
      <4> QED
        BY <4>1, <4>2
    <3> QED
      BY <3>1, <3>2
  <2> QED
    BY <2>4, <2>5
<1>7. Fine(n)
  <2>1. 0 \in Good
    <3>1. 1..0 = {} /\ 1..at[0] = {}
      BY <1>4
    <3> QED
      BY <3>1
  <2>2. ASSUME NEW m \in Good PROVE m + 1 \in Good
    <3>1. m \in Nat /\ (m <= n => Fine(m))
      OBVIOUS
    <3> HIDE DEF Good, Fine
    <3>2. m + 1 <= n => Fine(m + 1)
      BY <1>1, <1>6, <3>1
    <3> QED
      BY <3>1, <3>2 DEF Good
  <2>3. Good = Nat
    <3>1. Good \in SUBSET Nat
      OBVIOUS
    <3> HIDE DEF Good
    <3> QED
      BY <2>1, <2>2, <3>1, SetInduction
  <2>4. n \in Good /\ n <= n
    BY <1>1, <2>3
  <2> HIDE DEF Fine
  <2> QED
    BY <2>4
<1>8. n \in 0..n /\ f[n] \in Seq(S) /\ at[n] = Len(f[n])
  BY <1>1 DEF at
<1>9. Placed(ss, at, f[n])
  <2> DEFINE q == f[n]
  <2>1. /\ \A i \in 1..n : \A k \in 1..Len(ss[i]) :
              at[i - 1] + k \in 1..at[n] /\ q[at[i - 1] + k] = ss[i][k]
        /\ \A p \in 1..at[n] : \E i \in 1..n : \E k \in 1..Len(ss[i]) : p = at[i - 1] + k
    BY <1>7
  <2>2. at[n] = Len(q)
    BY <1>8
  <2>3. \A i \in 1..n : at[i] = at[i - 1] + Len(ss[i])
    BY <1>5
  <2> HIDE DEF q, Fine
  <2>4. /\ \A i \in 1..n : \A k \in 1..Len(ss[i]) :
              at[i - 1] + k \in 1..Len(q) /\ q[at[i - 1] + k] = ss[i][k]
        /\ \A p \in 1..Len(q) : \E i \in 1..n : \E k \in 1..Len(ss[i]) : p = at[i - 1] + k
    BY <2>1, <2>2
  <2> QED
    BY <1>4, <2>2, <2>3, <2>4 DEF Placed, q
<1> HIDE DEF Fine
<1> QED
  BY <1>2, <1>3, <1>8, <1>9

(* Sequences that come later go behind the earlier ones.                   *)
LEMMA PlacedInOrder ==
  ASSUME NEW S, NEW ss \in Seq(Seq(S)), NEW q, NEW at \in [0..Len(ss) -> Nat], Placed(ss, at, q)
  PROVE  \A i, j \in 0..Len(ss) : i <= j => at[i] <= at[j]
<1> DEFINE n == Len(ss)
<1>1. n \in Nat /\ \A i \in 1..n : Len(ss[i]) \in Nat
  BY LenProperties
<1>2. \A i \in 1..n : at[i] = at[i - 1] + Len(ss[i])
  BY DEF Placed
<1> SUFFICES ASSUME NEW i \in 0..n, NEW j \in 0..n, i <= j PROVE at[i] <= at[j]
  OBVIOUS
<1> DEFINE Good == {m \in Nat : m <= n /\ i <= m => at[i] <= at[m]}
<1>3. 0 \in Good
  <2>1. i <= 0 => i = 0
    OBVIOUS
  <2>2. at[i] \in Nat
    OBVIOUS
  <2> QED
    BY <2>1, <2>2
<1>4. ASSUME NEW m \in Good PROVE m + 1 \in Good
  <2>1. m \in Nat /\ (m <= n /\ i <= m => at[i] <= at[m])
    OBVIOUS
  <2>2. SUFFICES ASSUME m + 1 <= n, i <= m + 1 PROVE at[i] <= at[m + 1]
    BY <2>1
  <2>3. m + 1 \in 1..n /\ (m + 1) - 1 = m /\ m \in 0..n /\ m + 1 \in 0..n
    BY <1>1, <2>1, <2>2
  <2>4. at[m + 1] = at[m] + Len(ss[m + 1])
    BY <1>2, <2>3
  <2>5. at[i] \in Nat /\ at[m] \in Nat /\ at[m + 1] \in Nat /\ Len(ss[m + 1]) \in Nat
    BY <1>1, <2>3
  <2> HIDE DEF Good, n
  <2>6. i = m + 1 \/ i <= m
    BY <2>1, <2>2
  <2>7. CASE i = m + 1
    BY <2>5, <2>7
  <2>8. CASE i <= m
    BY <2>1, <2>2, <2>4, <2>5, <2>8, <1>1
  <2> QED
    BY <2>6, <2>7, <2>8
<1>5. Good = Nat
  <2>1. Good \in SUBSET Nat
    OBVIOUS
  <2> HIDE DEF Good
  <2> QED
    BY <1>3, <1>4, <2>1, SetInduction
<1>6. j \in Good /\ j <= n
  BY <1>1, <1>5, SMTT(30)
<1> QED
  BY <1>6

LEMMA FlattenAppend ==
  ASSUME NEW S, NEW ss \in Seq(Seq(S)), NEW s \in Seq(S)
  PROVE  FlattenSeq(Append(ss, s)) = FlattenSeq(ss) \o s
<1> DEFINE n == Len(ss)
           tt == Append(ss, s)
<1>1. /\ n \in Nat /\ tt \in Seq(Seq(S)) /\ Len(tt) = n + 1 /\ tt[n + 1] = s
      /\ \A i \in 1..n : tt[i] = ss[i]
  BY LenProperties, AppendProperties
<1> HIDE DEF tt
<1>2. PICK f \in [0..n -> Seq(S)] :
        /\ f[0] = <<>> /\ \A i \in 1..n : f[i] = f[i - 1] \o ss[i]
        /\ FlattenSeq(ss) = f[n]
  BY FlattenSteps
<1>10. PICK g \in [0..Len(tt) -> Seq(S)] :
         /\ g[0] = <<>> /\ \A i \in 1..Len(tt) : g[i] = g[i - 1] \o tt[i]
         /\ FlattenSeq(tt) = g[Len(tt)]
  BY <1>1, FlattenSteps
<1>3. /\ g[0] = <<>> /\ \A i \in 1..(n + 1) : g[i] = g[i - 1] \o tt[i]
      /\ FlattenSeq(tt) = g[n + 1]
  BY <1>1, <1>10
<1> DEFINE Good == {m \in Nat : m <= n => f[m] = g[m]}
<1>4. 0 \in Good
  BY <1>2, <1>3
<1>5. ASSUME NEW m \in Good PROVE m + 1 \in Good
  <2>1. m \in Nat /\ (m <= n => f[m] = g[m])
    OBVIOUS
  <2> HIDE DEF Good, n
  <2>2. ASSUME m + 1 <= n PROVE f[m + 1] = g[m + 1]
    <3>1. m + 1 \in 1..n /\ m + 1 \in 1..(n + 1) /\ (m + 1) - 1 = m /\ m <= n
      BY <1>1, <2>1, <2>2
    <3> QED
      BY <1>1, <1>2, <1>3, <2>1, <3>1
  <2> QED
    BY <2>1, <2>2 DEF Good
<1>6. n \in Good
  <2>1. Good \in SUBSET Nat
    OBVIOUS
  <2>2. Good = Nat
    <3> HIDE DEF Good
    <3> QED
      BY <1>4, <1>5, <2>1, SetInduction
  <2> QED
    BY <1>1, <2>2
<1>7. f[n] = g[n]
  BY <1>1, <1>6
<1>8. n + 1 \in 1..(n + 1) /\ (n + 1) - 1 = n
  BY <1>1
<1>9. g[n + 1] = g[n] \o s
  BY <1>1, <1>3, <1>8
<1> QED
  BY <1>2, <1>3, <1>7, <1>9 DEF tt

LEMMA PackElements ==
  ASSUME NEW q, Pack(q)
  PROVE  /\ q \in Seq(ToSet(q)) /\ DOMAIN q = 1..Len(q) /\ Len(q) \in Nat
         /\ ToSet(q) = {q[i] : i \in 1..Len(q)}
         /\ \A x \in ToSet(q) : IsItem(x)
<1> DEFINE S == {q[i] : i \in 1..Len(q)}
<1>1. Len(q) \in Nat /\ q = [i \in 1..Len(q) |-> q[i]]
  BY DEF Pack
<1>2. q \in Seq(S)
  BY <1>1, IsASeq
<1>3. DOMAIN q = 1..Len(q)
  BY <1>2, LenProperties
<1>4. ToSet(q) = S
  BY <1>3, ToSetIs
<1>5. \A x \in S : IsItem(x)
  BY DEF Pack
<1> QED
  BY <1>1, <1>2, <1>3, <1>4, <1>5

(* Packs one after the other.                                              *)
LEMMA PackJoins ==
  ASSUME NEW q, Pack(q), NEW r, Pack(r)
  PROVE  Pack(q \o r) /\ ToSet(q \o r) = ToSet(q) \cup ToSet(r)
<1> DEFINE S == ToSet(q) \cup ToSet(r)
           j == q \o r
<1>1. q \in Seq(ToSet(q)) /\ r \in Seq(ToSet(r))
  BY PackElements
<1>2. q \in Seq(S) /\ r \in Seq(S)
  BY <1>1, SeqMonotonic
<1>3. /\ j \in Seq(S) /\ Len(j) = Len(q) + Len(r)
      /\ \A i \in 1..(Len(q) + Len(r)) : j[i] = IF i <= Len(q) THEN q[i] ELSE r[i - Len(q)]
  BY <1>2, ConcatProperties
<1>4. Len(q) \in Nat /\ Len(r) \in Nat /\ DOMAIN j = 1..Len(j)
  BY <1>2, <1>3, LenProperties
<1>5. \A x \in S : IsItem(x)
  BY PackElements
<1>6. Pack(j)
  BY <1>3, <1>5, PackIs
<1>7. ToSet(j) \subseteq S
  <2> SUFFICES ASSUME NEW i \in DOMAIN j PROVE j[i] \in S
    BY ToSetIs
  <2> HIDE DEF S
  <2> QED
    BY <1>3, <1>5, PackIs
<1> HIDE DEF j
<1>8. ASSUME NEW i \in 1..Len(q) PROVE q[i] \in ToSet(j)
  <2>1. i \in 1..(Len(q) + Len(r)) /\ i <= Len(q)
    BY <1>4
  <2>2. j[i] = q[i] /\ i \in DOMAIN j
    BY <1>3, <1>4, <2>1
  <2> QED
    BY <2>2, ToSetIs
<1>9. ASSUME NEW i \in 1..Len(r) PROVE r[i] \in ToSet(j)
  <2> DEFINE k == Len(q) + i
  <2>1. k \in 1..(Len(q) + Len(r)) /\ ~(k <= Len(q)) /\ k - Len(q) = i
    BY <1>4
  <2> HIDE DEF k
  <2>2. j[k] = r[i] /\ k \in DOMAIN j
    BY <1>3, <1>4, <2>1
  <2> QED
    BY <2>2, ToSetIs
<1>10. S \subseteq ToSet(j)
  <2>1. ToSet(q) = {q[i] : i \in 1..Len(q)} /\ ToSet(r) = {r[i] : i \in 1..Len(r)}
    BY PackElements
  <2> QED
    BY <1>8, <1>9, <2>1
<1> QED
  BY <1>6, <1>7, <1>10 DEF j

(* Packs of a sequence, one after the other.                               *)
LEMMA PacksFlatten ==
  ASSUME NEW n \in Nat, NEW ss, ss = [i \in 1..n |-> ss[i]], \A i \in 1..n : Pack(ss[i])
  PROVE  /\ Pack(FlattenSeq(ss))
         /\ ToSet(FlattenSeq(ss)) = UNION {ToSet(ss[i]) : i \in 1..n}
<1> DEFINE S == UNION {ToSet(ss[i]) : i \in 1..n}
           q == FlattenSeq(ss)
<1>1. \A i \in 1..n : ss[i] \in Seq(S)
  <2> SUFFICES ASSUME NEW i \in 1..n PROVE ss[i] \in Seq(S)
    OBVIOUS
  <2>1. ss[i] \in Seq(ToSet(ss[i])) /\ ToSet(ss[i]) \subseteq S
    BY PackElements
  <2> QED
    BY <2>1, SeqMonotonic
<1>2. ss \in Seq(Seq(S)) /\ Len(ss) = n
  <2> HIDE DEF S
  <2> QED
    BY <1>1, IsASeq, LenProperties
<1>3. q \in Seq(S) /\ \E at \in [0..n -> Nat] : Placed(ss, at, q)
  BY <1>2, FlattenIs
<1>4. PICK at \in [0..n -> Nat] : Placed(ss, at, q)
  BY <1>3
<1>5. \A x \in S : IsItem(x)
  BY PackElements
<1>6. Pack(q) /\ \A i \in DOMAIN q : q[i] \in S
  <2> HIDE DEF S, q
  <2> QED
    BY <1>3, <1>5, PackIs
<1>7. ASSUME NEW i \in 1..n, NEW k \in DOMAIN ss[i] PROVE ss[i][k] \in ToSet(q)
  <2>1. k \in 1..Len(ss[i])
    BY PackElements
  <2>2. at[i - 1] + k \in 1..Len(q) /\ q[at[i - 1] + k] = ss[i][k]
    BY <1>2, <1>4, <2>1 DEF Placed
  <2> HIDE DEF q
  <2> QED
    BY <1>6, <2>2, PackElements
<1>8. S \subseteq ToSet(q)
  BY <1>7, ToSetIs
<1>9. ToSet(q) \subseteq S
  BY <1>6, ToSetIs
<1> QED
  BY <1>6, <1>8, <1>9

-----------------------------------------------------------------------------
(* The messages of a transcript, and those of a request.                   *)

Roles == {"user", "assistant", "boundary", "undone"}
Records == [role : Roles, size : Nat, extra : Nat, until : Nat,
            results : Seq([id : Nat \X Nat, size : Nat]), skill : BOOLEAN]
Chats == [msg : Nat, role : Roles \cup {"tool"}, id : Nat \X Nat, size : Nat, extra : Nat]

(* Call ids as a provider gives them.                                      *)
Fresh(h) == \A i \in 1..Len(h) : \A k \in 1..Len(h[i].results) : h[i].results[k].id = <<i, k>>

LEMMA EntryIs ==
  ASSUME NEW h \in Seq(Records), NEW i \in 1..Len(h)
  PROVE  /\ h[i] \in Records /\ Len(h) \in Nat /\ DOMAIN h = 1..Len(h) /\ i \in Nat
         /\ h[i].role \in Roles /\ h[i].size \in Nat /\ h[i].extra \in Nat /\ h[i].until \in Nat
         /\ h[i].results \in Seq([id : Nat \X Nat, size : Nat])
         /\ Len(h[i].results) \in Nat /\ DOMAIN h[i].results = 1..Len(h[i].results)
         /\ \A k \in 1..Len(h[i].results) :
               h[i].results[k].id \in Nat \X Nat /\ h[i].results[k].size \in Nat
<1>1. h[i] \in Records /\ Len(h) \in Nat /\ DOMAIN h = 1..Len(h)
  BY LenProperties
<1>2. /\ h[i].role \in Roles /\ h[i].size \in Nat /\ h[i].extra \in Nat /\ h[i].until \in Nat
      /\ h[i].results \in Seq([id : Nat \X Nat, size : Nat])
  BY <1>1 DEF Records
<1> DEFINE r == h[i].results
           T == [id : Nat \X Nat, size : Nat]
<1>3. r \in Seq(T)
  BY <1>2
<1> HIDE DEF r, T
<1>4. Len(r) \in Nat /\ DOMAIN r = 1..Len(r) /\ \A k \in 1..Len(r) : r[k] \in T
  BY <1>3, LenProperties
<1>5. \A k \in 1..Len(r) : r[k].id \in Nat \X Nat /\ r[k].size \in Nat
  BY <1>4 DEF T
<1> QED
  BY <1>1, <1>2, <1>4, <1>5 DEF r

LEMMA ExpandedIs ==
  ASSUME NEW h \in Seq(Records), NEW i \in 1..Len(h)
  PROVE  LET e == Expanded(h, i) IN
         /\ e \in Seq(Chats) /\ Len(e) = 1 + Len(h[i].results)
         /\ e[1] = [msg |-> i, role |-> h[i].role, id |-> <<i, 0>>, size |-> h[i].size,
                    extra |-> h[i].extra]
         /\ \A k \in 1..Len(h[i].results) :
               e[k + 1] = [msg |-> i, role |-> "tool", id |-> h[i].results[k].id,
                           size |-> h[i].results[k].size, extra |-> 0]
<1> DEFINE m == h[i]
           r == m.results
           head == [msg |-> i, role |-> m.role, id |-> <<i, 0>>, size |-> m.size,
                    extra |-> m.extra]
           answer == [k \in DOMAIN r |-> [msg |-> i, role |-> "tool", id |-> r[k].id,
                                          size |-> r[k].size, extra |-> 0]]
           e == <<head>> \o answer
<1>1. Expanded(h, i) = e
  BY DEF Expanded
<1>2. /\ i \in Nat /\ m.role \in Roles /\ m.size \in Nat /\ m.extra \in Nat
      /\ Len(r) \in Nat /\ DOMAIN r = 1..Len(r)
      /\ \A k \in 1..Len(r) : r[k].id \in Nat \X Nat /\ r[k].size \in Nat
  BY EntryIs
<1>3. head \in Chats
  BY <1>2 DEF Chats
<1>4. \A k \in 1..Len(r) : answer[k] \in Chats
  BY <1>2 DEF Chats
<1>5. answer = [k \in 1..Len(r) |-> answer[k]]
  BY <1>2
<1>6. \A k \in 1..Len(r) : answer[k] = [msg |-> i, role |-> "tool", id |-> r[k].id,
                                        size |-> r[k].size, extra |-> 0]
  BY <1>2
<1> HIDE DEF head, answer, r, m
<1>7. answer \in Seq(Chats) /\ Len(answer) = Len(r)
  BY <1>2, <1>4, <1>5, IsASeq, LenProperties
<1>8. <<head>> \in Seq(Chats) /\ Len(<<head>>) = 1 /\ <<head>>[1] = head
  BY <1>3
<1>9. /\ e \in Seq(Chats) /\ Len(e) = 1 + Len(r)
      /\ \A p \in 1..(1 + Len(r)) : e[p] = IF p <= 1 THEN <<head>>[p] ELSE answer[p - 1]
  BY <1>7, <1>8, ConcatProperties
<1>10. e[1] = head
  BY <1>2, <1>8, <1>9
<1>11. ASSUME NEW k \in 1..Len(r) PROVE e[k + 1] = answer[k]
  <2>1. k + 1 \in 1..(1 + Len(r)) /\ ~(k + 1 <= 1) /\ (k + 1) - 1 = k
    BY <1>2
  <2> HIDE DEF e
  <2> QED
    BY <1>9, <2>1
<1>12. Len(e) = 1 + Len(h[i].results) /\ e \in Seq(Chats)
  BY <1>9 DEF r, m
<1>13. e[1] = [msg |-> i, role |-> h[i].role, id |-> <<i, 0>>, size |-> h[i].size,
               extra |-> h[i].extra]
  BY <1>10 DEF head, m
<1>14. ASSUME NEW k \in 1..Len(h[i].results)
       PROVE  e[k + 1] = [msg |-> i, role |-> "tool", id |-> h[i].results[k].id,
                          size |-> h[i].results[k].size, extra |-> 0]
  BY <1>6, <1>11 DEF r, m
<1> HIDE DEF e
<1> QED
  BY <1>1, <1>12, <1>13, <1>14

(* All messages, and where they stand.                                     *)
Drawn(h) == [i \in 1..Len(h) |-> Expanded(h, i)]
ChatOf(h) == FlattenSeq(Drawn(h))

LEMMA ChatPlaced ==
  ASSUME NEW h \in Seq(Records)
  PROVE  LET n == Len(h) IN
         /\ n \in Nat /\ Drawn(h) \in Seq(Seq(Chats)) /\ Len(Drawn(h)) = n
         /\ \A i \in 1..n : Drawn(h)[i] = Expanded(h, i)
         /\ ChatOf(h) \in Seq(Chats)
         /\ \E at \in [0..n -> Nat] : Placed(Drawn(h), at, ChatOf(h))
<1> DEFINE n == Len(h)
           ss == Drawn(h)
<1>1. n \in Nat
  BY LenProperties
<1>3. \A i \in 1..n : ss[i] \in Seq(Chats) /\ ss[i] = Expanded(h, i)
  BY ExpandedIs DEF Drawn
<1>4. ss = [i \in 1..n |-> ss[i]]
  BY DEF Drawn
<1> HIDE DEF ss
<1>5. ss \in Seq(Seq(Chats)) /\ Len(ss) = n
  <2> DEFINE T == Seq(Chats)
  <2>1. \A i \in 1..n : ss[i] \in T
    BY <1>3
  <2> HIDE DEF T, n
  <2>2. ss \in Seq(T)
    BY <1>1, <1>4, <2>1, IsASeq
  <2>3. Len(ss) = n
    BY <1>1, <1>4, <2>2, LenProperties
  <2> QED
    BY <2>2, <2>3 DEF T
<1>6. ChatOf(h) = FlattenSeq(ss)
  BY DEF ChatOf, ss
<1>7. ChatOf(h) \in Seq(Chats)
      /\ \E at \in [0..n -> Nat] : Placed(ss, at, ChatOf(h))
  BY <1>5, <1>6, FlattenIs
<1> QED
  BY <1>1, <1>3, <1>5, <1>7 DEF ss

(* Every message is of one entry, in their order, and has its own id when  *)
(* those of its calls are fresh.                                           *)
LEMMA ChatIs ==
  ASSUME NEW h \in Seq(Records)
  PROVE  LET q == ChatOf(h) IN
         /\ q \in Seq(Chats) /\ Len(q) \in Nat
         /\ \A p \in 1..Len(q) : q[p] \in Chats /\ q[p].msg \in 1..Len(h)
         /\ Fresh(h) => \A p, r \in 1..Len(q) : q[p].id = q[r].id => p = r
<1> DEFINE n == Len(h)
           ss == Drawn(h)
           q == ChatOf(h)
<1>1. /\ n \in Nat /\ ss \in Seq(Seq(Chats)) /\ Len(ss) = n
      /\ \A i \in 1..n : ss[i] = Expanded(h, i) /\ i \in 1..Len(h)
      /\ q \in Seq(Chats)
  BY ChatPlaced
<1>2. PICK at \in [0..n -> Nat] : Placed(ss, at, q)
  BY ChatPlaced
<1>3. /\ Len(q) \in Nat /\ Len(h) \in Nat
      /\ \A p \in 1..Len(q) : q[p] \in Chats
  BY <1>1, LenProperties
<1> HIDE DEF ss, q
<1>4. \A i, j \in 0..n : i <= j => at[i] <= at[j]
  BY <1>1, <1>2, PlacedInOrder
<1>5. \A i \in 1..n : /\ i \in 0..n /\ i - 1 \in 0..n /\ Len(ss[i]) \in Nat
                      /\ at[i] = at[i - 1] + Len(ss[i])
  <2>1. \A i \in 1..n : ss[i] \in Seq(Chats)
    BY <1>1
  <2>2. \A i \in 1..n : Len(ss[i]) \in Nat
    BY <2>1, LenProperties
  <2>3. \A i \in 1..n : at[i] = at[i - 1] + Len(ss[i])
    BY <1>1, <1>2 DEF Placed
  <2>4. \A i \in 1..n : i \in 0..n /\ i - 1 \in 0..n
    BY <1>1
  <2> QED
    BY <2>2, <2>3, <2>4
<1>6. \A p \in 1..Len(q) : \E i \in 1..n : \E k \in 1..Len(ss[i]) : p = at[i - 1] + k
  BY <1>1, <1>2 DEF Placed
<1>7. \A i \in 1..n : \A k \in 1..Len(ss[i]) :
        at[i - 1] + k \in 1..Len(q) /\ q[at[i - 1] + k] = ss[i][k]
  BY <1>1, <1>2 DEF Placed
<1>8. ASSUME NEW i \in 1..n, NEW k \in 1..Len(ss[i])
      PROVE  /\ ss[i][k].msg = i
             /\ Fresh(h) => ss[i][k].id = <<i, k - 1>>
  <2> DEFINE e == Expanded(h, i)
  <2>1. ss[i] = e /\ i \in 1..Len(h)
    BY <1>1
  <2> HIDE DEF e
  <2>2. /\ Len(e) = 1 + Len(h[i].results)
        /\ e[1] = [msg |-> i, role |-> h[i].role, id |-> <<i, 0>>, size |-> h[i].size,
                   extra |-> h[i].extra]
        /\ \A l \in 1..Len(h[i].results) :
              e[l + 1] = [msg |-> i, role |-> "tool", id |-> h[i].results[l].id,
                          size |-> h[i].results[l].size, extra |-> 0]
    BY <2>1, ExpandedIs DEF e
  <2>3. Len(h[i].results) \in Nat
    BY <2>1, EntryIs
  <2>4. CASE k = 1
    <3>1. e[1].msg = i /\ e[1].id = <<i, 0>> /\ k - 1 = 0
      BY <2>2, <2>4
    <3> QED
      BY <2>1, <2>4, <3>1
  <2>5. CASE k # 1
    <3> DEFINE l == k - 1
    <3>1. l \in 1..Len(h[i].results) /\ l + 1 = k
      BY <2>1, <2>2, <2>3, <2>5, SMTT(30)
    <3> HIDE DEF l
    <3>2. e[k].msg = i /\ e[k].id = h[i].results[l].id
      <4>1. e[l + 1] = [msg |-> i, role |-> "tool", id |-> h[i].results[l].id,
                        size |-> h[i].results[l].size, extra |-> 0]
        BY <2>2, <3>1
      <4>2. e[k] = e[l + 1]
        BY <3>1
      <4> QED
        BY <4>1, <4>2
    <3>3. Fresh(h) => h[i].results[l].id = <<i, l>>
      BY <2>1, <3>1 DEF Fresh
    <3>4. Fresh(h) => e[k].id = <<i, l>>
      BY <3>2, <3>3
    <3> QED
      BY <2>1, <3>2, <3>4 DEF l
  <2> QED
    BY <2>4, <2>5
<1>9. ASSUME NEW p \in 1..Len(q) PROVE q[p].msg \in 1..Len(h)
  <2>1. PICK i \in 1..n : \E k \in 1..Len(ss[i]) : p = at[i - 1] + k
    BY <1>6
  <2>2. PICK k \in 1..Len(ss[i]) : p = at[i - 1] + k
    BY <2>1
  <2>3. q[p].msg = i
    BY <1>7, <1>8, <2>2
  <2> QED
    BY <1>3, <2>3
<1>10. ASSUME NEW p \in 1..Len(q), NEW r \in 1..Len(q), Fresh(h), q[p].id = q[r].id
       PROVE  p = r
  <2>1. PICK i \in 1..n : \E k \in 1..Len(ss[i]) : p = at[i - 1] + k
    BY <1>6
  <2>2. PICK k \in 1..Len(ss[i]) : p = at[i - 1] + k
    BY <2>1
  <2>3. PICK j \in 1..n : \E l \in 1..Len(ss[j]) : r = at[j - 1] + l
    BY <1>6
  <2>4. PICK l \in 1..Len(ss[j]) : r = at[j - 1] + l
    BY <2>3
  <2>5. q[p].id = <<i, k - 1>> /\ q[r].id = <<j, l - 1>>
    <3>1. q[at[i - 1] + k] = ss[i][k]
      BY <1>7
    <3>2. q[at[j - 1] + l] = ss[j][l]
      BY <1>7
    <3>3. q[p] = ss[i][k] /\ q[r] = ss[j][l]
      BY <2>2, <2>4, <3>1, <3>2
    <3>4. ss[i][k].id = <<i, k - 1>>
      BY <1>8, <1>10
    <3>5. ss[j][l].id = <<j, l - 1>>
      BY <1>8, <1>10
    <3> QED
      BY <3>3, <3>4, <3>5
  <2>6. k \in Nat /\ l \in Nat
    BY <1>5
  <2> DEFINE c == k - 1
             d == l - 1
  <2>7. i = j /\ c = d
    <3>1. <<i, c>> = <<j, d>>
      BY <1>10, <2>5
    <3> HIDE DEF c, d
    <3> QED
      BY <3>1
  <2>8. k = l
    BY <2>6, <2>7
  <2> QED
    BY <2>2, <2>4, <2>7, <2>8
<1> QED
  BY <1>1, <1>3, <1>9, <1>10 DEF q

(* What a boundary replaces came before it.                                *)
Sane(h) == \A i \in 1..Len(h) : h[i].until < i

LEMMA LastIs ==
  ASSUME NEW n \in Nat, NEW S \in SUBSET (1..n), S # {}
  PROVE  LastIn(S) \in S /\ \A j \in S : j <= LastIn(S)
<1>1. Greatest(S) \in S /\ \A j \in S : j <= Greatest(S)
  BY GreatestIs
<1>2. \E i \in S : \A j \in S : j <= i
  BY <1>1
<1> QED
  BY <1>2 DEF LastIn

LEMMA CutOfIs ==
  ASSUME NEW h \in Seq(Records), Sane(h)
  PROVE  /\ Compactions(h) \subseteq 1..Len(h)
         /\ Compactions(h) # {} =>
              /\ Latest(h) \in Compactions(h) /\ \A j \in Compactions(h) : j <= Latest(h)
              /\ CutOf(h) = h[Latest(h)].until /\ CutOf(h) < Latest(h)
         /\ CutOf(h) \in Nat /\ CutOf(h) + 1 \in 1..(Len(h) + 1)
<1>1. Len(h) \in Nat /\ DOMAIN h = 1..Len(h)
  BY LenProperties
<1>2. Compactions(h) \subseteq 1..Len(h)
  BY <1>1 DEF Compactions
<1>3. ASSUME Compactions(h) # {}
      PROVE  Latest(h) \in Compactions(h) /\ \A j \in Compactions(h) : j <= Latest(h)
  BY <1>1, <1>2, <1>3, LastIs DEF Latest
<1>4. CASE Compactions(h) = {}
  BY <1>1, <1>2, <1>4 DEF CutOf
<1>5. CASE Compactions(h) # {}
  <2> DEFINE l == Latest(h)
  <2>1. l \in 1..Len(h) /\ CutOf(h) = h[l].until
    BY <1>2, <1>3, <1>5 DEF CutOf
  <2>2. h[l].until \in Nat /\ h[l].until < l
    BY <2>1, EntryIs DEF Sane
  <2> HIDE DEF l
  <2>3. h[l].until + 1 \in 1..(Len(h) + 1)
    BY <1>1, <2>1, <2>2
  <2> QED
    BY <1>2, <1>3, <1>5, <2>1, <2>2, <2>3 DEF l
<1> QED
  BY <1>4, <1>5

(* Messages that are filtered are among those there were, once each.       *)
LEMMA FilteredIs ==
  ASSUME NEW q \in Seq(Chats), NEW keep
  PROVE  LET r == Listed(Retain(q, keep)) IN
         /\ r \in Seq(Chats) /\ Len(r) \in Nat /\ DOMAIN r = 1..Len(r)
         /\ \A c \in 1..Len(r) : r[c] \in keep /\ \E p \in 1..Len(q) : r[c] = q[p]
         /\ (\A p, o \in 1..Len(q) : q[p].id = q[o].id => p = o)
              => \A c, d \in 1..Len(r) : r[c].id = r[d].id => c = d
<1> DEFINE r == Retain(q, keep)
<1>1. /\ r \in Seq(Chats)
      /\ \E place \in [1..Len(r) -> 1..Len(q)] :
              /\ \A i \in 1..Len(r) : r[i] = q[place[i]] /\ q[place[i]] \in keep
              /\ \A i, j \in 1..Len(r) : i < j => place[i] < place[j]
              /\ \A k \in 1..Len(q) : q[k] \in keep => \E i \in 1..Len(r) : place[i] = k
  BY RetainKeeps
<1>2. PICK place \in [1..Len(r) -> 1..Len(q)] :
              /\ \A i \in 1..Len(r) : r[i] = q[place[i]] /\ q[place[i]] \in keep
              /\ \A i, j \in 1..Len(r) : i < j => place[i] < place[j]
  BY <1>1
<1> HIDE DEF r
<1>3. Listed(r) = r /\ Len(r) \in Nat /\ DOMAIN r = 1..Len(r) /\ Len(q) \in Nat
  BY <1>1, ConcatEmptySeq, LenProperties DEF Listed
<1>4. \A c \in 1..Len(r) : r[c] \in keep /\ \E p \in 1..Len(q) : r[c] = q[p]
  BY <1>2
<1>5. ASSUME \A p, o \in 1..Len(q) : q[p].id = q[o].id => p = o,
             NEW c \in 1..Len(r), NEW d \in 1..Len(r), r[c].id = r[d].id
      PROVE  c = d
  <2>1. place[c] \in 1..Len(q) /\ place[d] \in 1..Len(q)
    BY <1>2
  <2>2. place[c] = place[d]
    BY <1>2, <1>5, <2>1
  <2>3. ~(c < d) /\ ~(d < c)
    BY <1>2, <1>3, <2>1, <2>2
  <2> QED
    BY <1>3, <2>3
<1> QED
  BY <1>1, <1>3, <1>4, <1>5 DEF r

LEMMA InMemoryIs ==
  ASSUME NEW h \in Seq(Records)
  PROVE  LET q == InMemory(h) IN
         /\ q \in Seq(Chats) /\ Len(q) \in Nat /\ DOMAIN q = 1..Len(q)
         /\ \A c \in 1..Len(q) : Holds(h, q[c].msg) /\ q[c].msg \in 1..Len(h)
         /\ Fresh(h) => \A c, d \in 1..Len(q) : q[c].id = q[d].id => c = d
<1> DEFINE p == ChatOf(h)
           keep == {m \in ToSet(p) : Holds(h, m.msg)}
           q == Listed(Retain(p, keep))
<1>1. /\ p \in Seq(Chats)
      /\ \A c \in 1..Len(p) : p[c].msg \in 1..Len(h)
      /\ Fresh(h) => \A c, d \in 1..Len(p) : p[c].id = p[d].id => c = d
  BY ChatIs
<1>2. InMemory(h) = q
  <2>1. DOMAIN h = 1..Len(h)
    BY LenProperties
  <2>2. FlattenSeq([i \in DOMAIN h |-> Expanded(h, i)]) = p
    BY <2>1 DEF ChatOf, Drawn
  <2> HIDE DEF p
  <2>3. Listed(p) = p
    BY <1>1, ConcatEmptySeq DEF Listed
  <2> QED
    BY <2>2, <2>3 DEF InMemory
<1> HIDE DEF p, keep
<1>3. /\ q \in Seq(Chats) /\ Len(q) \in Nat /\ DOMAIN q = 1..Len(q)
      /\ \A c \in 1..Len(q) : q[c] \in keep /\ \E o \in 1..Len(p) : q[c] = p[o]
      /\ (\A c, d \in 1..Len(p) : p[c].id = p[d].id => c = d)
           => \A c, d \in 1..Len(q) : q[c].id = q[d].id => c = d
  BY <1>1, FilteredIs
<1> HIDE DEF q
<1>4. \A c \in 1..Len(q) : Holds(h, q[c].msg) /\ q[c].msg \in 1..Len(h)
  BY <1>1, <1>3 DEF keep
<1> QED
  BY <1>1, <1>2, <1>3, <1>4

LEMMA ConversationIs ==
  ASSUME NEW h \in Seq(Records)
  PROVE  LET conv == Conversation(h) IN
         /\ conv \in Seq(Chats) /\ Len(conv) \in Nat /\ DOMAIN conv = 1..Len(conv)
         /\ \A c \in 1..Len(conv) : /\ conv[c] \in Chats
                                    /\ conv[c].role # "boundary"
                                    /\ Holds(h, conv[c].msg) /\ ~Replaced(h, conv[c])
                                    /\ conv[c].msg \in 1..Len(h)
         /\ Fresh(h) => \A c, d \in 1..Len(conv) : conv[c].id = conv[d].id => c = d
<1> DEFINE q == InMemory(h)
           keep == {m \in ToSet(q) : m.role # "boundary" /\ ~Replaced(h, m)}
           conv == Listed(Retain(q, keep))
<1>1. /\ q \in Seq(Chats)
      /\ \A c \in 1..Len(q) : Holds(h, q[c].msg) /\ q[c].msg \in 1..Len(h)
      /\ Fresh(h) => \A c, d \in 1..Len(q) : q[c].id = q[d].id => c = d
  BY InMemoryIs
<1>2. Conversation(h) = conv
  BY DEF Conversation
<1> HIDE DEF q, keep
<1>3. /\ conv \in Seq(Chats) /\ Len(conv) \in Nat /\ DOMAIN conv = 1..Len(conv)
      /\ \A c \in 1..Len(conv) : conv[c] \in keep /\ \E o \in 1..Len(q) : conv[c] = q[o]
      /\ (\A c, d \in 1..Len(q) : q[c].id = q[d].id => c = d)
           => \A c, d \in 1..Len(conv) : conv[c].id = conv[d].id => c = d
  BY <1>1, FilteredIs
<1> HIDE DEF conv
<1>4. \A c \in 1..Len(conv) : /\ conv[c] \in Chats
                              /\ conv[c].role # "boundary"
                              /\ Holds(h, conv[c].msg) /\ ~Replaced(h, conv[c])
                              /\ conv[c].msg \in 1..Len(h)
  BY <1>1, <1>3, LenProperties DEF keep
<1> QED
  BY <1>1, <1>2, <1>3, <1>4

-----------------------------------------------------------------------------
(* The items a session gives.                                              *)

Memos == [of : Nat, size : Nat, active : BOOLEAN]

LEMMA PackOne ==
  /\ Pack(<<>>) /\ ToSet(<<>>) = {}
  /\ \A x : IsItem(x) => Pack(<<x>>) /\ ToSet(<<x>>) = {x}
<1>1. Pack(<<>>) /\ ToSet(<<>>) = {}
  <2>1. <<>> \in Seq({}) /\ Len(<<>>) = 0
    OBVIOUS
  <2>2. Pack(<<>>)
    BY <2>1, PackIs
  <2> QED
    BY <2>1, <2>2, PackElements
<1>2. ASSUME NEW x, IsItem(x) PROVE Pack(<<x>>) /\ ToSet(<<x>>) = {x}
  <2>1. <<x>> \in Seq({x}) /\ Len(<<x>>) = 1 /\ <<x>>[1] = x
    OBVIOUS
  <2>2. Pack(<<x>>)
    BY <1>2, <2>1, PackIs
  <2> QED
    BY <2>1, <2>2, PackElements
<1> QED
  BY <1>1, <1>2

ItemOf(x, name, kind) == IsItem(x) /\ x.name = name /\ x.kind = kind

LEMMA ItemIs ==
  ASSUME NEW name, NEW kind, NEW priority \in Nat, NEW pinned \in BOOLEAN, NEW size \in Nat,
         pinned => kind \in DOMAIN CutOrder \cap DOMAIN Floors
  PROVE  ItemOf(Item(name, kind, priority, pinned, size), name, kind)
<1> DEFINE x == Item(name, kind, priority, pinned, size)
<1>1. x = [name |-> name, kind |-> kind, priority |-> priority, pinned |-> pinned,
           size |-> size, stable |-> FALSE, sent |-> TRUE, text |-> name, repeats |-> FALSE]
  BY DEF Item
<1> HIDE DEF x
<1>2. ItemOf(x, name, kind)
  BY <1>1 DEF IsItem, ItemOf
<1> QED
  BY <1>2 DEF x

LEMMA StableItemIs ==
  ASSUME NEW name, NEW kind, NEW x, ItemOf(x, name, kind)
  PROVE  ItemOf([x EXCEPT !.stable = TRUE], name, kind)
<1> DEFINE y == [x EXCEPT !.stable = TRUE]
<1>1. x = [name |-> x.name, kind |-> x.kind, priority |-> x.priority, pinned |-> x.pinned,
           size |-> x.size, stable |-> x.stable, sent |-> x.sent, text |-> x.text,
           repeats |-> x.repeats]
  BY DEF ItemOf, IsItem
<1>2. /\ DOMAIN y = DOMAIN x /\ y.stable = TRUE /\ y.name = x.name /\ y.kind = x.kind
      /\ y.priority = x.priority /\ y.pinned = x.pinned /\ y.size = x.size
      /\ y.sent = x.sent /\ y.text = x.text /\ y.repeats = x.repeats
  BY <1>1
<1>3. y = [name |-> y.name, kind |-> y.kind, priority |-> y.priority, pinned |-> y.pinned,
           size |-> y.size, stable |-> y.stable, sent |-> y.sent, text |-> y.text,
           repeats |-> y.repeats]
  <2>1. DOMAIN y = {"name", "kind", "priority", "pinned", "size", "stable", "sent", "text",
                    "repeats"}
    BY <1>1, <1>2
  <2>2. y = [f \in DOMAIN y |-> y[f]]
    OBVIOUS
  <2> HIDE DEF y
  <2> QED
    BY <2>1, <2>2
<1> HIDE DEF y
<1>4. ItemOf(y, name, kind)
  BY <1>2, <1>3 DEF ItemOf, IsItem
<1> QED
  BY <1>4 DEF y

(* Kinds that may be pinned.                                               *)
LEMMA FloorsAre ==
  {"message", "attachment", "work_state"} \subseteq DOMAIN CutOrder \cap DOMAIN Floors
<1>1. {"message", "attachment", "work_state"} \subseteq DOMAIN CutOrder
  BY DEF CutOrder
<1> QED
  BY <1>1, ItemsAssumption

LEMMA GivenItems ==
  /\ Pack(Fixed) /\ Pack(SessionItems)
  /\ \A x \in ToSet(Fixed) \cup ToSet(SessionItems) :
        /\ x.kind \notin {"message", "tool_result", "work_state", "memory"}
        /\ x.name[1] \notin {"message", "result", "work_state", "memory", "attachment"}
<1> SUFFICES ASSUME NEW q \in {Fixed, SessionItems}
             PROVE  /\ Pack(q)
                    /\ \A x \in ToSet(q) :
                         /\ x.kind \notin {"message", "tool_result", "work_state", "memory"}
                         /\ x.name[1] \notin {"message", "result", "work_state", "memory",
                                              "attachment"}
  OBVIOUS
<1>1. q \in Seq(ToSet(q)) /\ \A x \in ToSet(q) : IsItem(x)
  BY ItemsAssumption
<1>2. Pack(q)
  BY <1>1, PackIs
<1> QED
  BY <1>2, ItemsAssumption

LEMMA MessageItemIs ==
  ASSUME NEW m \in Chats, NEW b \in BOOLEAN
  PROVE  /\ IsItem(MessageItem(m, b))
         /\ MessageItem(m, b).name = MessageItem(m, FALSE).name
         /\ m.role = "tool" => /\ MessageItem(m, b).name = <<"result", m.id>>
                               /\ MessageItem(m, b).kind = "tool_result"
         /\ m.role # "tool" => /\ MessageItem(m, b).name = <<"message", m.id>>
                               /\ MessageItem(m, b).kind = "message"
<1>1. m.size \in Nat
  BY DEF Chats
<1>2. CASE m.role = "tool"
  <2>1. \A c : MessageItem(m, c) = Item(<<"result", m.id>>, "tool_result", 50, FALSE, m.size)
    BY <1>2 DEF MessageItem
  <2>2. 50 \in Nat /\ FALSE \in BOOLEAN
    OBVIOUS
  <2>3. ItemOf(Item(<<"result", m.id>>, "tool_result", 50, FALSE, m.size),
               <<"result", m.id>>, "tool_result")
    BY <1>1, <2>2, ItemIs
  <2> QED
    BY <1>2, <2>1, <2>3 DEF ItemOf
<1>3. CASE m.role # "tool"
  <2> DEFINE It(c) == Item(<<"message", m.id>>, "message", IF c THEN 90 ELSE 40, c, m.size)
  <2>1. ASSUME NEW c \in BOOLEAN PROVE MessageItem(m, c) = It(c)
    BY <1>3 DEF MessageItem
  <2>2. ASSUME NEW c \in BOOLEAN
        PROVE  ItemOf(It(c), <<"message", m.id>>, "message")
    <3>1. (IF c THEN 90 ELSE 40) \in Nat
      OBVIOUS
    <3>2. "message" \in DOMAIN CutOrder \cap DOMAIN Floors
      BY FloorsAre
    <3> QED
      BY <1>1, <3>1, <3>2, ItemIs
  <2> HIDE DEF It
  <2> QED
    BY <1>3, <2>1, <2>2 DEF ItemOf
<1> QED
  BY <1>2, <1>3

LEMMA AttachmentIs ==
  ASSUME NEW m \in Chats
  PROVE  /\ Pack(AttachmentOf(m))
         /\ \A x \in ToSet(AttachmentOf(m)) :
               x.kind = "attachment" /\ x.name = <<"attachment", m.id>>
<1> DEFINE x == Item(<<"attachment", m.id>>, "attachment", 75, TRUE, m.extra)
<1>1. ItemOf(x, <<"attachment", m.id>>, "attachment")
  <2>1. 75 \in Nat /\ TRUE \in BOOLEAN /\ m.extra \in Nat
    BY DEF Chats
  <2>2. "attachment" \in DOMAIN CutOrder \cap DOMAIN Floors
    BY FloorsAre
  <2> QED
    BY <2>1, <2>2, ItemIs
<1>2. AttachmentOf(m) = <<>> \/ AttachmentOf(m) = <<x>>
  BY DEF AttachmentOf
<1> HIDE DEF x
<1> QED
  BY <1>1, <1>2, PackOne DEF ItemOf

LEMMA WorkStateIs ==
  ASSUME NEW h \in Seq(Records), Sane(h)
  PROVE  /\ Pack(WorkState(h))
         /\ Compactions(h) = {} => ToSet(WorkState(h)) = {}
         /\ Compactions(h) # {} => ToSet(WorkState(h)) # {}
         /\ \A x \in ToSet(WorkState(h)) :
               x.kind = "work_state" /\ x.name = <<"work_state", Latest(h)>>
<1>1. CASE Compactions(h) = {}
  <2>1. WorkState(h) = <<>>
    BY <1>1 DEF WorkState
  <2> QED
    BY <1>1, <2>1, PackOne
<1>2. CASE Compactions(h) # {}
  <2> DEFINE x == Item(<<"work_state", Latest(h)>>, "work_state", 95, TRUE, h[Latest(h)].size)
  <2>1. Latest(h) \in 1..Len(h)
    BY <1>2, CutOfIs
  <2>2. ItemOf(x, <<"work_state", Latest(h)>>, "work_state")
    <3>1. 95 \in Nat /\ TRUE \in BOOLEAN /\ h[Latest(h)].size \in Nat
      BY <2>1, EntryIs
    <3>2. "work_state" \in DOMAIN CutOrder \cap DOMAIN Floors
      BY FloorsAre
    <3> QED
      BY <3>1, <3>2, ItemIs
  <2>3. WorkState(h) = <<x>>
    BY <1>2 DEF WorkState
  <2> HIDE DEF x
  <2> QED
    BY <1>2, <2>2, <2>3, PackOne DEF ItemOf
<1> QED
  BY <1>1, <1>2

(* What stands for a message, and before the latest of the user's.         *)
ItemsAt(chat, latest, i) ==
  (IF i = latest THEN SessionItems ELSE <<>>)
  \o (IF i > Len(chat) THEN <<>>
      ELSE <<MessageItem(chat[i], i = latest)>> \o AttachmentOf(chat[i]))

LEMMA ItemsAtIs ==
  ASSUME NEW chat \in Seq(Chats), NEW latest, NEW i \in 1..(Len(chat) + 1)
  PROVE  /\ Pack(ItemsAt(chat, latest, i))
         /\ \A x \in ToSet(ItemsAt(chat, latest, i)) :
              \/ x \in ToSet(SessionItems)
              \/ /\ i <= Len(chat)
                 /\ \/ x = MessageItem(chat[i], i = latest)
                    \/ x.kind = "attachment" /\ x.name = <<"attachment", chat[i].id>>
         /\ i <= Len(chat) =>
              MessageItem(chat[i], i = latest) \in ToSet(ItemsAt(chat, latest, i))
<1> DEFINE a == IF i = latest THEN SessionItems ELSE <<>>
           m == chat[i]
           x == MessageItem(m, i = latest)
           b == IF i > Len(chat) THEN <<>> ELSE <<x>> \o AttachmentOf(m)
<1>1. Pack(a) /\ ToSet(a) \subseteq ToSet(SessionItems)
  BY GivenItems, PackOne
<1>2. ItemsAt(chat, latest, i) = a \o b
  BY DEF ItemsAt
<1>3. Len(chat) \in Nat /\ i \in Nat /\ (i > Len(chat) <=> ~(i <= Len(chat)))
  BY LenProperties
<1>4. CASE i <= Len(chat)
  <2>1. m \in Chats
    BY <1>3, <1>4, LenProperties
  <2>2. IsItem(x)
    <3>1. (i = latest) \in BOOLEAN
      OBVIOUS
    <3> QED
      BY <2>1, <3>1, MessageItemIs
  <2>3. Pack(<<x>>) /\ ToSet(<<x>>) = {x}
    BY <2>2, PackOne
  <2>4. /\ Pack(AttachmentOf(m))
        /\ \A y \in ToSet(AttachmentOf(m)) : y.kind = "attachment" /\ y.name = <<"attachment", m.id>>
    BY <2>1, AttachmentIs
  <2>5. b = <<x>> \o AttachmentOf(m)
    BY <1>3, <1>4
  <2> HIDE DEF a, b, x, m
  <2>6. Pack(b) /\ ToSet(b) = {x} \cup ToSet(AttachmentOf(m))
    BY <2>3, <2>4, <2>5, PackJoins
  <2>7. Pack(a \o b) /\ ToSet(a \o b) = ToSet(a) \cup ToSet(b)
    BY <1>1, <2>6, PackJoins
  <2>8. \A y \in ToSet(a \o b) :
           \/ y \in ToSet(SessionItems)
           \/ y = x
           \/ y.kind = "attachment" /\ y.name = <<"attachment", m.id>>
    BY <1>1, <2>4, <2>6, <2>7
  <2>9. x \in ToSet(a \o b)
    BY <2>6, <2>7
  <2> QED
    BY <1>2, <1>4, <2>7, <2>8, <2>9 DEF x, m
<1>5. CASE ~(i <= Len(chat))
  <2>1. b = <<>>
    BY <1>3, <1>5
  <2> HIDE DEF a, b
  <2>2. Pack(a \o b) /\ ToSet(a \o b) = ToSet(a) \cup {}
    BY <1>1, <2>1, PackJoins, PackOne
  <2> QED
    BY <1>1, <1>2, <1>5, <2>2
<1> QED
  BY <1>4, <1>5

LEMMA MessageItemsIs ==
  ASSUME NEW chat \in Seq(Chats)
  PROVE  /\ Pack(MessageItems(chat))
         /\ \A x \in ToSet(MessageItems(chat)) :
              \/ x \in ToSet(SessionItems)
              \/ \E c \in 1..Len(chat) :
                    \/ \E b \in BOOLEAN : x = MessageItem(chat[c], b)
                    \/ x.kind = "attachment" /\ x.name = <<"attachment", chat[c].id>>
         /\ \A c \in 1..Len(chat) : \E b \in BOOLEAN :
              MessageItem(chat[c], b) \in ToSet(MessageItems(chat))
<1> DEFINE users == {i \in DOMAIN chat : chat[i].role = "user"}
           latest == IF users = {} THEN Len(chat) + 1
                     ELSE CHOOSE i \in users : \A j \in users : j <= i
           n == Len(chat) + 1
           ss == [i \in 1..n |-> ItemsAt(chat, latest, i)]
<1>1. MessageItems(chat) = FlattenSeq(ss)
  BY DEF MessageItems, ItemsAt
<1>2. n \in Nat /\ Len(chat) \in Nat /\ n = Len(chat) + 1
  BY LenProperties
<1> HIDE DEF latest
<1>3. \A i \in 1..n : Pack(ss[i]) /\ ss[i] = ItemsAt(chat, latest, i)
  BY ItemsAtIs
<1>4. ss = [i \in 1..n |-> ss[i]]
  OBVIOUS
<1> HIDE DEF ss, n
<1>5. /\ Pack(FlattenSeq(ss))
      /\ ToSet(FlattenSeq(ss)) = UNION {ToSet(ss[i]) : i \in 1..n}
  BY <1>2, <1>3, <1>4, PacksFlatten
<1>6. ASSUME NEW x \in ToSet(FlattenSeq(ss))
      PROVE  \/ x \in ToSet(SessionItems)
             \/ \E c \in 1..Len(chat) :
                   \/ \E b \in BOOLEAN : x = MessageItem(chat[c], b)
                   \/ x.kind = "attachment" /\ x.name = <<"attachment", chat[c].id>>
  <2>1. PICK i \in 1..n : x \in ToSet(ItemsAt(chat, latest, i))
    BY <1>3, <1>5
  <2>2. i \in 1..(Len(chat) + 1)
    BY <1>2
  <2>3. \/ x \in ToSet(SessionItems)
        \/ /\ i <= Len(chat)
           /\ \/ x = MessageItem(chat[i], i = latest)
              \/ x.kind = "attachment" /\ x.name = <<"attachment", chat[i].id>>
    BY <2>1, <2>2, ItemsAtIs
  <2>4. i <= Len(chat) => i \in 1..Len(chat)
    BY <1>2
  <2>5. (i = latest) \in BOOLEAN
    OBVIOUS
  <2> QED
    BY <2>3, <2>4, <2>5
<1>7. ASSUME NEW c \in 1..Len(chat)
      PROVE  \E b \in BOOLEAN : MessageItem(chat[c], b) \in ToSet(FlattenSeq(ss))
  <2>1. c \in 1..n /\ c \in 1..(Len(chat) + 1) /\ c <= Len(chat)
    BY <1>2
  <2>2. MessageItem(chat[c], c = latest) \in ToSet(ItemsAt(chat, latest, c))
    BY <2>1, ItemsAtIs
  <2>3. MessageItem(chat[c], c = latest) \in ToSet(FlattenSeq(ss))
    BY <1>3, <1>5, <2>1, <2>2
  <2>4. (c = latest) \in BOOLEAN
    OBVIOUS
  <2> QED
    BY <2>3, <2>4
<1> QED
  BY <1>1, <1>5, <1>6, <1>7

LEMMA MemoryItemsIs ==
  ASSUME NEW mem \in Seq(Memos)
  PROVE  /\ Pack(MemoryItems(mem))
         /\ \A x \in ToSet(MemoryItems(mem)) :
              /\ x.kind = "memory"
              /\ \E k \in 1..Len(mem) : mem[k].active /\ x.name = <<"memory", mem[k].of>>
<1> DEFINE keep == {m \in ToSet(mem) : m.active}
           active == Retain(mem, keep)
           s == Shown(mem)
<1>1. active \in Seq(Memos) /\ Len(active) \in Nat
      /\ \A i \in 1..Len(active) : \E k \in 1..Len(mem) : active[i] = mem[k] /\ mem[k].active
  <2>1. /\ active \in Seq(Memos)
        /\ \E place \in [1..Len(active) -> 1..Len(mem)] :
              /\ \A i \in 1..Len(active) : active[i] = mem[place[i]] /\ mem[place[i]] \in keep
              /\ \A i, j \in 1..Len(active) : i < j => place[i] < place[j]
              /\ \A k \in 1..Len(mem) : mem[k] \in keep => \E i \in 1..Len(active) : place[i] = k
    <3> HIDE DEF keep, s
    <3> QED
      BY RetainKeeps, SMTT(30)
  <2>2. PICK place \in [1..Len(active) -> 1..Len(mem)] :
              \A i \in 1..Len(active) : active[i] = mem[place[i]] /\ mem[place[i]] \in keep
    BY <2>1
  <2> HIDE DEF active
  <2> QED
    BY <2>1, <2>2, LenProperties
<1> HIDE DEF active
<1> DEFINE first == Len(active) - Least(Len(active), MemoriesShown) + 1
<1>2. s = SubSeq(active, first, Len(active))
  <2>1. Listed(active) = active
    BY <1>1, ConcatEmptySeq DEF Listed
  <2> QED
    BY <2>1 DEF Shown, active
<1>3. first \in 1..(Len(active) + 1)
  <2> DEFINE l == Len(active)
  <2>1. l \in Nat /\ MemoriesShown \in Nat
    BY <1>1, PackAssumption
  <2> HIDE DEF l
  <2>2. l - Least(l, MemoriesShown) + 1 \in 1..(l + 1)
    BY <2>1 DEF Least
  <2> QED
    BY <2>2 DEF l
<1> HIDE DEF first, s
<1>4. /\ s \in Seq(Memos) /\ Len(s) \in Nat /\ DOMAIN s = 1..Len(s)
      /\ \A i \in 1..Len(s) : \E k \in 1..Len(mem) : s[i] = mem[k] /\ mem[k].active
  <2>1. /\ SubSeq(active, first, Len(active)) \in Seq(Memos)
        /\ Len(s) = IF first <= Len(active) THEN Len(active) - first + 1 ELSE 0
        /\ \A i \in 1..(Len(active) - first + 1) : s[i] = active[first + i - 1]
    <3> DEFINE l == Len(active)
    <3>1. l \in Nat /\ first \in 1..(l + 1) /\ active \in Seq(Memos)
      BY <1>1, <1>3
    <3>2. \A i \in first..l : active[i] \in Memos
      BY <1>1, <1>3, LenProperties
    <3> HIDE DEF l
    <3> QED
      BY <1>2, <3>1, <3>2, SubSeqProperties DEF l
  <2>2. Len(s) \in Nat /\ Len(s) = Len(active) - first + 1
    BY <1>1, <1>3, <2>1
  <2>3. ASSUME NEW i \in 1..Len(s)
        PROVE  \E k \in 1..Len(mem) : s[i] = mem[k] /\ mem[k].active
    <3>1. first + i - 1 \in 1..Len(active) /\ s[i] = active[first + i - 1]
      BY <1>1, <1>3, <2>1, <2>2
    <3> QED
      BY <1>1, <3>1
  <2> QED
    BY <1>2, <2>1, <2>2, <2>3, LenProperties
<1> DEFINE Of(i) == Item(<<"memory", s[i].of>>, "memory", 94, FALSE, s[i].size)
           r == [i \in 1..Len(s) |-> [Of(i) EXCEPT !.stable = TRUE]]
<1>5. MemoryItems(mem) = r
  BY <1>4 DEF MemoryItems, s
<1>6. ASSUME NEW i \in 1..Len(s) PROVE ItemOf(r[i], <<"memory", s[i].of>>, "memory")
  <2>4. s[i] \in Memos
    BY <1>4, LenProperties
  <2>1. s[i].size \in Nat /\ 94 \in Nat /\ FALSE \in BOOLEAN
    BY <2>4 DEF Memos
  <2>2. ItemOf(Of(i), <<"memory", s[i].of>>, "memory")
    BY <2>1, ItemIs
  <2>3. r[i] = [Of(i) EXCEPT !.stable = TRUE]
    OBVIOUS
  <2> HIDE DEF Of, r
  <2>5. ItemOf([Of(i) EXCEPT !.stable = TRUE], <<"memory", s[i].of>>, "memory")
    BY <2>2, StableItemIs
  <2> QED
    BY <2>3, <2>5
<1>7. r = [i \in 1..Len(s) |-> r[i]]
  OBVIOUS
<1> HIDE DEF r
<1>8. Len(r) = Len(s)
  BY <1>4, <1>7
<1>9. Pack(r)
  BY <1>4, <1>6, <1>7, <1>8 DEF Pack, ItemOf
<1>10. ASSUME NEW x \in ToSet(r)
       PROVE  /\ x.kind = "memory"
              /\ \E k \in 1..Len(mem) : mem[k].active /\ x.name = <<"memory", mem[k].of>>
  <2>1. PICK i \in 1..Len(s) : x = r[i]
    BY <1>8, <1>9, PackElements
  <2>2. x.kind = "memory" /\ x.name = <<"memory", s[i].of>>
    BY <1>6, <2>1 DEF ItemOf
  <2>3. PICK k \in 1..Len(mem) : s[i] = mem[k] /\ mem[k].active
    BY <1>4
  <2> QED
    BY <2>2, <2>3
<1> QED
  BY <1>5, <1>9, <1>10

(* What the names and the kinds of items say of a session.                 *)
Sourced(h, mem, x) ==
  LET conv == Conversation(h) IN
  /\ x.kind = "tool_result" =>
       \E c \in 1..Len(conv) : conv[c].role = "tool" /\ x.name = <<"result", conv[c].id>>
  /\ \A id : x.name = <<"result", id>> => x.kind = "tool_result"
  /\ x.kind = "work_state" => Compactions(h) # {}
  /\ \A id : x.name = <<"work_state", id>> => x.kind = "work_state"
  /\ x.kind = "memory" =>
       \E k \in 1..Len(mem) : mem[k].active /\ x.name = <<"memory", mem[k].of>>

Tells(h, mem, q) ==
  LET conv == Conversation(h) IN
  /\ \A x \in ToSet(q) : Sourced(h, mem, x)
  /\ \A c \in 1..Len(conv) : \E x \in ToSet(q) : x.name = MessageItem(conv[c], FALSE).name
  /\ Compactions(h) # {} => \E x \in ToSet(q) : x.name = <<"work_state", Latest(h)>>

LEMMA TellsOn ==
  ASSUME NEW h, NEW mem, NEW q, Tells(h, mem, q), NEW r,
         \A y \in ToSet(r) : \E x \in ToSet(q) : y.name = x.name /\ y.kind = x.kind,
         \A x \in ToSet(q) : \E y \in ToSet(r) : y.name = x.name
  PROVE  Tells(h, mem, r)
<1>1. ASSUME NEW y \in ToSet(r) PROVE Sourced(h, mem, y)
  <2>1. PICK x \in ToSet(q) : y.name = x.name /\ y.kind = x.kind
    OBVIOUS
  <2>2. Sourced(h, mem, x)
    BY DEF Tells
  <2> QED
    BY <2>1, <2>2 DEF Sourced
<1>2. ASSUME NEW c \in 1..Len(Conversation(h))
      PROVE  \E y \in ToSet(r) : y.name = MessageItem(Conversation(h)[c], FALSE).name
  <2>1. PICK x \in ToSet(q) : x.name = MessageItem(Conversation(h)[c], FALSE).name
    BY DEF Tells
  <2>2. PICK y \in ToSet(r) : y.name = x.name
    OBVIOUS
  <2> QED
    BY <2>1, <2>2
<1>3. ASSUME Compactions(h) # {} PROVE \E y \in ToSet(r) : y.name = <<"work_state", Latest(h)>>
  <2>1. PICK x \in ToSet(q) : x.name = <<"work_state", Latest(h)>>
    BY <1>3 DEF Tells
  <2>2. PICK y \in ToSet(r) : y.name = x.name
    OBVIOUS
  <2> QED
    BY <2>1, <2>2
<1> QED
  BY <1>1, <1>2, <1>3 DEF Tells

LEMMA CollectedIs ==
  ASSUME NEW h \in Seq(Records), Sane(h), NEW mem \in Seq(Memos)
  PROVE  Pack(Collected(h, mem)) /\ Tells(h, mem, Collected(h, mem))
<1> DEFINE conv == Conversation(h)
           w == WorkState(h)
           t == MessageItems(conv)
           s == MemoryItems(mem)
           q == Collected(h, mem)
<1>1. /\ conv \in Seq(Chats) /\ Len(conv) \in Nat
      /\ \A c \in 1..Len(conv) : conv[c] \in Chats
  BY ConversationIs
<1>2. Pack(Fixed) /\ Pack(w) /\ Pack(s)
  BY GivenItems, WorkStateIs, MemoryItemsIs
<1> HIDE DEF conv
<1>3. /\ Pack(t)
      /\ \A x \in ToSet(t) :
           \/ x \in ToSet(SessionItems)
           \/ \E c \in 1..Len(conv) :
                 \/ \E b \in BOOLEAN : x = MessageItem(conv[c], b)
                 \/ x.kind = "attachment" /\ x.name = <<"attachment", conv[c].id>>
      /\ \A c \in 1..Len(conv) : \E b \in BOOLEAN : MessageItem(conv[c], b) \in ToSet(t)
  BY <1>1, MessageItemsIs
<1>4. q = Fixed \o w \o t \o s
  BY DEF Collected, conv
<1> HIDE DEF w, t, s, q
<1>5. Pack(q) /\ ToSet(q) = ((ToSet(Fixed) \cup ToSet(w)) \cup ToSet(t)) \cup ToSet(s)
  <2>1. Pack(Fixed \o w) /\ ToSet(Fixed \o w) = ToSet(Fixed) \cup ToSet(w)
    BY <1>2, PackJoins
  <2>2. /\ Pack((Fixed \o w) \o t)
        /\ ToSet((Fixed \o w) \o t) = (ToSet(Fixed) \cup ToSet(w)) \cup ToSet(t)
    BY <1>3, <2>1, PackJoins
  <2>3. /\ Pack(((Fixed \o w) \o t) \o s)
        /\ ToSet(((Fixed \o w) \o t) \o s)
             = ((ToSet(Fixed) \cup ToSet(w)) \cup ToSet(t)) \cup ToSet(s)
    BY <1>2, <2>2, PackJoins
  <2> QED
    BY <1>4, <2>3
<1>6. ASSUME NEW x \in ToSet(Fixed) \cup ToSet(SessionItems) PROVE Sourced(h, mem, x)
  <2>1. /\ x.kind \notin {"message", "tool_result", "work_state", "memory"}
        /\ x.name[1] \notin {"message", "result", "work_state", "memory", "attachment"}
    BY GivenItems
  <2>2. \A id : <<"result", id>>[1] = "result" /\ <<"work_state", id>>[1] = "work_state"
    OBVIOUS
  <2>3. \A id : x.name # <<"result", id>> /\ x.name # <<"work_state", id>>
    BY <2>1, <2>2
  <2> QED
    BY <2>1, <2>3 DEF Sourced
<1>7. ASSUME NEW x \in ToSet(w) PROVE Sourced(h, mem, x)
  <2>1. /\ x.kind = "work_state" /\ x.name = <<"work_state", Latest(h)>>
        /\ Compactions(h) # {}
    BY WorkStateIs DEF w
  <2>2. \A id : x.name # <<"result", id>>
    BY <2>1
  <2> QED
    BY <2>1, <2>2 DEF Sourced
<1>8. ASSUME NEW x \in ToSet(s) PROVE Sourced(h, mem, x)
  <2>1. /\ x.kind = "memory"
        /\ \E k \in 1..Len(mem) : mem[k].active /\ x.name = <<"memory", mem[k].of>>
    BY MemoryItemsIs DEF s
  <2>2. \A id : x.name # <<"result", id>> /\ x.name # <<"work_state", id>>
    BY <2>1
  <2> QED
    BY <2>1, <2>2 DEF Sourced
<1>9. ASSUME NEW c \in 1..Len(conv), NEW b \in BOOLEAN, NEW x, x = MessageItem(conv[c], b)
      PROVE  Sourced(h, mem, x)
  <2> DEFINE m == conv[c]
  <2>1. m \in Chats
    BY <1>1
  <2>2. /\ m.role = "tool" => x.name = <<"result", m.id>> /\ x.kind = "tool_result"
        /\ m.role # "tool" => x.name = <<"message", m.id>> /\ x.kind = "message"
    BY <1>9, <2>1, MessageItemIs
  <2>3. CASE m.role = "tool"
    <3>1. \A id : x.name # <<"work_state", id>>
      BY <2>2, <2>3
    <3> QED
      BY <2>2, <2>3, <3>1 DEF Sourced, conv
  <2>4. CASE m.role # "tool"
    <3>1. \A id : x.name # <<"result", id>> /\ x.name # <<"work_state", id>>
      BY <2>2, <2>4
    <3> QED
      BY <2>2, <2>4, <3>1 DEF Sourced
  <2> QED
    BY <2>3, <2>4
<1>10. ASSUME NEW x, NEW id, x.kind = "attachment", x.name = <<"attachment", id>>
       PROVE  Sourced(h, mem, x)
  <2>1. \A i : x.name # <<"result", i>> /\ x.name # <<"work_state", i>>
    BY <1>10
  <2> QED
    BY <1>10, <2>1 DEF Sourced
<1>11. ASSUME NEW x \in ToSet(q) PROVE Sourced(h, mem, x)
  BY <1>3, <1>5, <1>6, <1>7, <1>8, <1>9, <1>10
<1>12. ASSUME NEW c \in 1..Len(conv)
       PROVE  \E x \in ToSet(q) : x.name = MessageItem(conv[c], FALSE).name
  <2>1. PICK b \in BOOLEAN : MessageItem(conv[c], b) \in ToSet(t)
    BY <1>3
  <2>2. MessageItem(conv[c], b).name = MessageItem(conv[c], FALSE).name
    BY <1>1, MessageItemIs
  <2> QED
    BY <1>5, <2>1, <2>2
<1>13. ASSUME Compactions(h) # {} PROVE \E x \in ToSet(q) : x.name = <<"work_state", Latest(h)>>
  <2>1. PICK x \in ToSet(w) : x.name = <<"work_state", Latest(h)>>
    BY <1>13, WorkStateIs DEF w
  <2> QED
    BY <1>5, <2>1
<1> QED
  BY <1>5, <1>11, <1>12, <1>13 DEF Tells, conv, q

(* Of items with one name one is kept.                                     *)
LEMMA DedupedIs ==
  ASSUME NEW q, Pack(q)
  PROVE  LET r == Deduped(q) IN
         /\ Pack(r) /\ ToSet(r) \subseteq ToSet(q)
         /\ \A m, n \in 1..Len(r) : r[m].name = r[n].name => m = n
         /\ \A x \in ToSet(q) : \E y \in ToSet(r) : y.name = x.name
<1> DEFINE D == DOMAIN q
           Same(i) == {j \in D : q[j].name = q[i].name}
           First(i) == \A j \in Same(i) : i <= j
           Best(i, j) == /\ \A k \in Same(i) : ~Outranks(q[k], q[j])
                         /\ \A k \in Same(i) : k < j => Outranks(q[j], q[k])
           Kept(i) == CHOOSE j \in Same(i) : Best(i, j)
           firsts == {i \in D : First(i)}
           key == [i \in firsts |-> i]
           order == InOrder(firsts, key)
           r == [n \in DOMAIN order |-> q[Kept(order[n])]]
<1>1. D = 1..Len(q) /\ Len(q) \in Nat /\ q \in Seq(ToSet(q))
  BY PackElements
<1>2. Deduped(q) = Listed([n \in DOMAIN Listed(order) |-> q[Kept(Listed(order)[n])]])
  BY DEF Deduped
<1>3. ASSUME NEW i \in D PROVE Kept(i) \in Same(i)
  <2>1. i \in Same(i) /\ Same(i) \in SUBSET D /\ Same(i) # {}
    OBVIOUS
  <2>2. PICK e \in Same(i) : \A d \in Same(i) : <<d, e>> \notin RankPairs(q)
    <3>1. IsFiniteSet(D)
      BY <1>1, UpTo
    <3>2. /\ \A d \in D : <<d, d>> \notin RankPairs(q)
          /\ \A c, d, e \in D : <<c, d>> \in RankPairs(q) /\ <<d, e>> \in RankPairs(q)
                                  => <<c, e>> \in RankPairs(q)
          /\ \A d, e \in D : d = e \/ <<d, e>> \in RankPairs(q) \/ <<e, d>> \in RankPairs(q)
      BY RankOrders
    <3> DEFINE T == Same(i)
    <3>3. T \in SUBSET D /\ T # {}
      BY <2>1
    <3> HIDE DEF D, T
    <3>4. \E e \in T : \A d \in T : <<d, e>> \notin RankPairs(q)
      BY <3>1, <3>2, <3>3, FirstOf
    <3> QED
      BY <3>4 DEF T
  <2>3. ASSUME NEW k \in Same(i)
        PROVE  ~Outranks(q[k], q[e]) /\ (k < e => Outranks(q[e], q[k]))
    <3>1. <<k, e>> \in D \X D /\ <<k, e>> \notin RankPairs(q)
      BY <2>2
    <3> QED
      BY <3>1 DEF RankPairs
  <2>4. Best(i, e)
    BY <2>3
  <2> HIDE DEF Best, Same
  <2> QED
    BY <2>2, <2>4
<1>4. firsts \subseteq D /\ IsFiniteSet(firsts)
  <2>1. firsts \subseteq D /\ IsFiniteSet(D)
    BY <1>1, UpTo
  <2> QED
    BY <2>1, FS_Subset
<1>5. ASSUME NEW i \in D PROVE \E f \in firsts : q[f].name = q[i].name
  <2>1. Same(i) \in SUBSET Nat /\ Same(i) # {}
    BY <1>1
  <2>2. PICK f \in Same(i) : \A j \in Same(i) : f <= j
    <3> HIDE DEF Same
    <3> QED
      BY <2>1, LeastNat
  <2>3. f \in D /\ q[f].name = q[i].name /\ Same(f) = Same(i)
    OBVIOUS
  <2>4. First(f)
    BY <2>2, <2>3
  <2> HIDE DEF First, Same
  <2> QED
    BY <2>3, <2>4
<1>6. ASSUME NEW e \in firsts, NEW f \in firsts, q[e].name = q[f].name PROVE e = f
  <2>1. e \in Same(f) /\ f \in Same(e)
    BY <1>6
  <2>2. f <= e /\ e <= f
    BY <2>1
  <2> QED
    BY <1>1, <2>2
<1> HIDE DEF Same, First, Best, firsts
<1>7. (\A e \in firsts : key[e] \in Nat) /\ (\A d, e \in firsts : key[d] = key[e] => d = e)
  BY <1>1, <1>4
<1>8. /\ order \in Seq(firsts)
      /\ \A i, j \in 1..Len(order) : i < j => key[order[i]] < key[order[j]]
      /\ \A e \in firsts : \E i \in 1..Len(order) : order[i] = e
  <2> HIDE DEF key
  <2> QED
    BY <1>4, <1>7, InOrderSorts
<1> HIDE DEF order
<1>9. /\ Len(order) \in Nat /\ DOMAIN order = 1..Len(order)
      /\ \A n \in 1..Len(order) : order[n] \in firsts /\ order[n] \in D
  BY <1>4, <1>8, LenProperties
<1>10. ASSUME NEW m \in 1..Len(order), NEW n \in 1..Len(order), order[m] = order[n] PROVE m = n
  <2>1. ~(key[order[m]] < key[order[n]]) /\ ~(key[order[n]] < key[order[m]])
    BY <1>1, <1>9, <1>10
  <2>2. ~(m < n) /\ ~(n < m)
    BY <1>8, <2>1
  <2> QED
    BY <1>9, <2>2
<1>11. \A n \in 1..Len(order) : /\ r[n] = q[Kept(order[n])] /\ Kept(order[n]) \in D
                                /\ r[n].name = q[order[n]].name
  <2> SUFFICES ASSUME NEW n \in 1..Len(order)
               PROVE  /\ r[n] = q[Kept(order[n])] /\ Kept(order[n]) \in D
                      /\ r[n].name = q[order[n]].name
    OBVIOUS
  <2>1. Kept(order[n]) \in Same(order[n])
    BY <1>3, <1>9
  <2>2. r[n] = q[Kept(order[n])]
    BY <1>9
  <2> HIDE DEF Kept, r
  <2> QED
    BY <2>1, <2>2 DEF Same
<1>12. r = [n \in 1..Len(order) |-> r[n]]
  BY <1>9
<1> HIDE DEF Kept, r
<1>13. r \in Seq(ToSet(q)) /\ Len(r) = Len(order)
  <2>1. \A n \in 1..Len(order) : r[n] \in ToSet(q)
    BY <1>11, ToSetIs
  <2>2. r \in Seq(ToSet(q))
    BY <1>9, <1>12, <2>1, IsASeq
  <2> QED
    BY <1>9, <1>12, <2>2, LenProperties
<1>14. Deduped(q) = r
  <2>1. Listed(order) = order
    BY <1>8, ConcatEmptySeq DEF Listed
  <2>2. Deduped(q) = Listed(r)
    BY <1>2, <2>1 DEF r
  <2> QED
    BY <1>13, <2>2, ConcatEmptySeq DEF Listed
<1>15. Pack(r) /\ ToSet(r) = {r[n] : n \in 1..Len(r)}
  <2>1. Pack(r)
    BY <1>13, PackElements, PackIs
  <2> QED
    BY <2>1, PackElements
<1>16. \A m, n \in 1..Len(r) : r[m].name = r[n].name => m = n
  BY <1>6, <1>9, <1>10, <1>11, <1>13
<1>17. ASSUME NEW x \in ToSet(q) PROVE \E y \in ToSet(r) : y.name = x.name
  <2>1. PICK i \in D : x = q[i]
    BY ToSetIs
  <2>2. PICK f \in firsts : q[f].name = x.name
    BY <1>5, <2>1
  <2>3. PICK n \in 1..Len(order) : order[n] = f
    BY <1>8
  <2>4. r[n].name = x.name /\ n \in 1..Len(r)
    BY <1>11, <1>13, <2>2, <2>3
  <2> QED
    BY <1>15, <2>4
<1>18. ToSet(r) \subseteq ToSet(q)
  BY <1>11, <1>13, <1>15, ToSetIs
<1> QED
  BY <1>14, <1>15, <1>16, <1>17, <1>18

(* Items of the same names, kinds and ranks.                               *)
Alike(q, r) ==
  /\ Len(r) = Len(q)
  /\ \A i \in 1..Len(q) :
       /\ r[i].name = q[i].name /\ r[i].kind = q[i].kind /\ r[i].priority = q[i].priority
       /\ r[i].pinned = q[i].pinned /\ r[i].sent = q[i].sent

LEMMA RepeatsIs ==
  ASSUME NEW q, Pack(q)
  PROVE  /\ Pack(WithRepeats(q)) /\ Alike(q, WithRepeats(q))
         /\ \A i \in 1..Len(q) : WithRepeats(q)[i].size = q[i].size
<1> DEFINE Again(i) == \E j \in 1..(i - 1) :
                         /\ q[i].stable /\ q[j].stable
                         /\ <<q[j].kind, q[j].sent, q[j].text>>
                              = <<q[i].kind, q[i].sent, q[i].text>>
           r == [i \in DOMAIN q |-> [q[i] EXCEPT !.repeats = Again(i)]]
<1>1. WithRepeats(q) = Listed(r)
  BY DEF WithRepeats
<1>2. DOMAIN q = 1..Len(q) /\ Len(q) \in Nat
  BY PackElements
<1>3. ASSUME NEW i \in 1..Len(q) PROVE Again(i) \in BOOLEAN
  OBVIOUS
<1> HIDE DEF Again
<1>4. ASSUME NEW i \in 1..Len(q)
      PROVE  /\ IsItem(r[i])
             /\ r[i].name = q[i].name /\ r[i].kind = q[i].kind /\ r[i].priority = q[i].priority
             /\ r[i].pinned = q[i].pinned /\ r[i].sent = q[i].sent /\ r[i].size = q[i].size
  <2>1. IsItem(q[i]) /\ r[i] = [q[i] EXCEPT !.repeats = Again(i)]
    BY <1>2 DEF Pack
  <2> HIDE DEF r
  <2> DEFINE x == q[i]
             y == [x EXCEPT !.repeats = Again(i)]
  <2>2. x = [name |-> x.name, kind |-> x.kind, priority |-> x.priority, pinned |-> x.pinned,
             size |-> x.size, stable |-> x.stable, sent |-> x.sent, text |-> x.text,
             repeats |-> x.repeats]
    BY <2>1 DEF IsItem
  <2> HIDE DEF x
  <2>3. /\ DOMAIN y = DOMAIN x /\ y.stable = x.stable /\ y.name = x.name /\ y.kind = x.kind
        /\ y.priority = x.priority /\ y.pinned = x.pinned /\ y.size = x.size
        /\ y.sent = x.sent /\ y.text = x.text /\ y.repeats = Again(i)
    BY <2>2
  <2>4. y = [name |-> y.name, kind |-> y.kind, priority |-> y.priority, pinned |-> y.pinned,
             size |-> y.size, stable |-> y.stable, sent |-> y.sent, text |-> y.text,
             repeats |-> y.repeats]
    <3>1. DOMAIN y = {"name", "kind", "priority", "pinned", "size", "stable", "sent", "text",
                      "repeats"}
      BY <2>2, <2>3
    <3>2. y = [f \in DOMAIN y |-> y[f]]
      OBVIOUS
    <3> HIDE DEF y
    <3> QED
      BY <3>1, <3>2
  <2> HIDE DEF y
  <2>5. IsItem(x)
    BY <2>1 DEF x
  <2>6. IsItem(y)
    BY <1>3, <2>3, <2>4, <2>5 DEF IsItem
  <2>7. r[i] = y
    BY <2>1 DEF y, x
  <2> QED
    BY <2>3, <2>6, <2>7 DEF x
<1>5. r = [i \in 1..Len(q) |-> r[i]]
  BY <1>2
<1> HIDE DEF r
<1>6. Len(r) = Len(q)
  BY <1>2, <1>5
<1>7. Pack(r)
  BY <1>2, <1>4, <1>5, <1>6 DEF Pack
<1>8. Listed(r) = r
  BY <1>7, ListedIs DEF Pack
<1> QED
  BY <1>1, <1>4, <1>6, <1>7, <1>8 DEF Alike

LEMMA PreviewedIs ==
  ASSUME NEW q, Pack(q)
  PROVE  /\ Pack(Previewed(q)) /\ Alike(q, Previewed(q))
         /\ \A i \in 1..Len(q) :
              Previewed(q)[i].size = IF q[i].kind = "tool_result" THEN Least(q[i].size, Preview)
                                     ELSE q[i].size
<1> DEFINE r == [i \in DOMAIN q |-> IF q[i].kind = "tool_result"
                                    THEN [q[i] EXCEPT !.size = Least(@, Preview)] ELSE q[i]]
<1>1. Previewed(q) = Listed(r)
  BY DEF Previewed
<1>2. DOMAIN q = 1..Len(q) /\ Len(q) \in Nat
  BY PackElements
<1>3. ASSUME NEW i \in 1..Len(q)
      PROVE  /\ IsItem(r[i])
             /\ r[i].name = q[i].name /\ r[i].kind = q[i].kind /\ r[i].priority = q[i].priority
             /\ r[i].pinned = q[i].pinned /\ r[i].sent = q[i].sent
             /\ r[i].size = IF q[i].kind = "tool_result" THEN Least(q[i].size, Preview)
                            ELSE q[i].size
  <2>1. IsItem(q[i])
    BY DEF Pack
  <2>2. CASE q[i].kind = "tool_result"
    <3> DEFINE x == q[i]
               z == Least(x.size, Preview)
               y == [x EXCEPT !.size = z]
    <3>1. r[i] = y
      BY <1>2, <2>2
    <3>2. z \in Nat
      BY <2>1, PackAssumption DEF IsItem, Least
    <3> HIDE DEF r, x, z
    <3>3. IsItem(x)
      BY <2>1 DEF x
    <3>4. /\ IsItem(y) /\ y.size = z
          /\ y.name = x.name /\ y.kind = x.kind /\ y.priority = x.priority
          /\ y.pinned = x.pinned /\ y.sent = x.sent
      BY <3>2, <3>3 DEF IsItem
    <3> HIDE DEF y
    <3> QED
      BY <2>2, <3>1, <3>4 DEF x, z
  <2>3. CASE q[i].kind # "tool_result"
    <3>1. r[i] = q[i]
      BY <1>2, <2>3
    <3> HIDE DEF r
    <3> QED
      BY <2>1, <2>3, <3>1
  <2> QED
    BY <2>2, <2>3
<1>5. r = [i \in 1..Len(q) |-> r[i]]
  BY <1>2
<1> HIDE DEF r
<1>6. Len(r) = Len(q)
  BY <1>2, <1>5
<1>7. Pack(r)
  BY <1>2, <1>3, <1>5, <1>6 DEF Pack
<1>8. Listed(r) = r
  BY <1>7, ListedIs DEF Pack
<1> QED
  BY <1>1, <1>3, <1>6, <1>7, <1>8 DEF Alike

(* What is required at its least.                                          *)
AtFloor(q) == [i \in DOMAIN q |-> Least(q[i].size, HardFloor)]
LeastRequired(q) == MapThenSumSet(LAMBDA i : Least(q[i].size, HardFloor), Required(q))

LEMMA LeastRequiredIs ==
  ASSUME NEW q, Pack(q)
  PROVE  LeastRequired(q) = SumOver(AtFloor(q), Required(q))
<1> DEFINE of == AtFloor(q)
           S == Required(q)
           Added(h) == h = [s \in SUBSET S |->
                             IF s = {} THEN 0
                             ELSE Least(q[CHOOSE x \in s : TRUE].size, HardFloor)
                                    + h[s \ {CHOOSE x \in s : TRUE}]]
<1>0. S \subseteq DOMAIN q
  BY RequiredIs
<1>1. LeastRequired(q) = (CHOOSE h : Added(h))[S]
  BY DEF LeastRequired, MapThenSumSet, MapThenFoldSet
<1> HIDE DEF S
<1>2. ASSUME NEW h PROVE Added(h) <=> Summed(of, S, h)
  <2>1. \A s \in SUBSET S : s # {} =>
          of[CHOOSE x \in s : TRUE] = Least(q[CHOOSE x \in s : TRUE].size, HardFloor)
    <3> SUFFICES ASSUME NEW s \in SUBSET S, s # {}
                 PROVE  of[CHOOSE x \in s : TRUE] = Least(q[CHOOSE x \in s : TRUE].size, HardFloor)
      OBVIOUS
    <3>1. PICK x \in s : x = CHOOSE y \in s : TRUE
      OBVIOUS
    <3> QED
      BY <1>0, <3>1 DEF AtFloor
  <2> HIDE DEF of
  <2> QED
    BY <2>1 DEF Summed
<1> HIDE DEF Added
<1>3. (CHOOSE h : Added(h)) = CHOOSE h : Summed(of, S, h)
  BY <1>2
<1> QED
  BY <1>1, <1>3 DEF SumOver, S

-----------------------------------------------------------------------------
(* The pack of a request.                                                  *)

Settings == [limit : Limits, strategy : {"auto", "error"}, ids : IdSchemes]

LEMMA BudgetIs ==
  ASSUME setting \in Settings
  PROVE  ItemBudget \in Nat /\ Overhead \in Nat /\ setting.limit \in Nat
<1>1. setting.limit \in Nat /\ Overhead \in Nat
  BY PackAssumption DEF Settings
<1> QED
  BY <1>1 DEF ItemBudget, Least

LEMMA AlikeFits ==
  ASSUME NEW q, Pack(q), NEW r, Pack(r), Alike(q, r)
  PROVE  /\ DOMAIN r = DOMAIN q /\ DOMAIN q = 1..Len(q) /\ Required(r) = Required(q)
         /\ \A i \in DOMAIN q : r[i].kind = q[i].kind /\ r[i].name = q[i].name
                                /\ r[i].sent = q[i].sent
<1>1. DOMAIN r = DOMAIN q /\ DOMAIN q = 1..Len(q)
  BY PackElements DEF Alike
<1> QED
  BY <1>1 DEF Alike, Required

LEMMA AlikeTells ==
  ASSUME NEW h, NEW mem, NEW q, Pack(q), Tells(h, mem, q), NEW r, Pack(r), Alike(q, r)
  PROVE  Tells(h, mem, r)
<1>1. /\ DOMAIN r = DOMAIN q
      /\ \A i \in DOMAIN q : r[i].kind = q[i].kind /\ r[i].name = q[i].name
  BY AlikeFits
<1>2. ToSet(q) = {q[i] : i \in DOMAIN q} /\ ToSet(r) = {r[i] : i \in DOMAIN q}
  BY <1>1, ToSetIs
<1>3. \A y \in ToSet(r) : \E x \in ToSet(q) : y.name = x.name /\ y.kind = x.kind
  BY <1>1, <1>2
<1>4. \A x \in ToSet(q) : \E y \in ToSet(r) : y.name = x.name
  BY <1>1, <1>2
<1> QED
  BY <1>3, <1>4, TellsOn

LEMMA AlikeOn ==
  ASSUME NEW p, NEW q, NEW r, Alike(p, q), Alike(q, r)
  PROVE  Alike(p, r)
BY DEF Alike

LEMMA AlikeBack ==
  ASSUME NEW p, NEW q, Alike(p, q)
  PROVE  Alike(q, p)
BY DEF Alike

(* What a request could hold, and what it is made of.                      *)
Whole(h, mem) == Previewed(Deduped(Collected(h, mem)))

LEMMA WholeIs ==
  ASSUME NEW h \in Seq(Records), Sane(h), NEW mem \in Seq(Memos)
  PROVE  LET whole == Whole(h, mem)
             all == Previewed(WithRepeats(Deduped(Collected(h, mem))))
         IN /\ Pack(whole) /\ Pack(all) /\ Alike(whole, all) /\ Tells(h, mem, all)
            /\ \A i \in 1..Len(all) : all[i].size = whole[i].size
            /\ \A i, j \in 1..Len(all) : all[i].name = all[j].name => i = j
<1> DEFINE c == Collected(h, mem)
           d == Deduped(c)
           w == WithRepeats(d)
           whole == Previewed(d)
           all == Previewed(w)
<1>1. Pack(c) /\ Tells(h, mem, c)
  BY CollectedIs
<1> HIDE DEF c
<1>2. /\ Pack(d) /\ ToSet(d) \subseteq ToSet(c)
      /\ \A m, n \in 1..Len(d) : d[m].name = d[n].name => m = n
      /\ \A x \in ToSet(c) : \E y \in ToSet(d) : y.name = x.name
  BY <1>1, DedupedIs
<1> HIDE DEF d
<1>3. Tells(h, mem, d)
  BY <1>1, <1>2, TellsOn
<1>4. Pack(w) /\ Alike(d, w) /\ \A i \in 1..Len(d) : w[i].size = d[i].size
  BY <1>2, RepeatsIs
<1> HIDE DEF w
<1>5. /\ Pack(whole) /\ Alike(d, whole)
      /\ \A i \in 1..Len(d) :
           whole[i].size = IF d[i].kind = "tool_result" THEN Least(d[i].size, Preview)
                           ELSE d[i].size
  BY <1>2, PreviewedIs
<1>6. /\ Pack(all) /\ Alike(w, all)
      /\ \A i \in 1..Len(w) :
           all[i].size = IF w[i].kind = "tool_result" THEN Least(w[i].size, Preview)
                         ELSE w[i].size
  BY <1>4, PreviewedIs
<1> HIDE DEF whole, all
<1>7. Alike(d, all) /\ Alike(whole, all)
  BY <1>4, <1>5, <1>6, AlikeOn, AlikeBack
<1>8. Len(all) = Len(d) /\ Len(w) = Len(d)
  BY <1>4, <1>7 DEF Alike
<1>9. \A i \in 1..Len(all) : all[i].size = whole[i].size
  BY <1>4, <1>5, <1>6, <1>8 DEF Alike
<1>10. \A i, j \in 1..Len(all) : all[i].name = all[j].name => i = j
  BY <1>2, <1>7, <1>8 DEF Alike
<1>11. Tells(h, mem, all)
  BY <1>2, <1>3, <1>6, <1>7, AlikeTells
<1>12. Pack(whole) /\ Pack(all) /\ Alike(whole, all)
  BY <1>5, <1>6, <1>7
<1> QED
  BY <1>9, <1>10, <1>11, <1>12 DEF Whole, whole, all, c, d, w

(* What is said of the pack of a request.                                  *)
KeepsBudget(p) == Total(p.items, Sent(p)) <= ItemBudget
HoldsRequired(whole, p) ==
  ~p.overflowed => \A i \in Required(whole) : p.items[i].repeats \/ i \in p.in
LacksRoom(whole, p) ==
  p.overflowed /\ setting.strategy # "error" =>
    Overhead > setting.limit \/ LeastRequired(whole) > ItemBudget
DropsNothing(whole, p) ==
  LET sent == {i \in DOMAIN whole : whole[i].sent}
  IN Total(whole, sent) <= ItemBudget =>
       \A i \in sent : p.items[i].size = whole[i].size /\ (p.items[i].repeats \/ i \in p.in)

LEMMA ProjectedHolds ==
  ASSUME NEW whole, Pack(whole), NEW all, Pack(all), Alike(whole, all),
         \A i \in 1..Len(all) : all[i].size = whole[i].size,
         NEW items, Pack(items), Alike(all, items),
         \/ setting.strategy = "error" /\ items = all
         \/ /\ setting.strategy # "error"
            /\ \/ Total(items, Required(all)) <= ItemBudget
               \/ \A i \in Required(all) : items[i].size = Least(all[i].size, HardFloor)
            /\ Total(all, Required(all)) <= ItemBudget => items = all,
         setting \in Settings,
         NEW p, p = [items |-> items, in |-> Projected(items, ItemBudget),
                     overflowed |-> \/ Overhead > setting.limit
                                    \/ \E i \in Required(items) :
                                         i \notin Projected(items, ItemBudget) /\ ~items[i].repeats]
  PROVE  /\ p.in \subseteq DOMAIN p.items
         /\ KeepsBudget(p) /\ HoldsRequired(whole, p)
         /\ LacksRoom(whole, p) /\ DropsNothing(whole, p)
<1> DEFINE in == Projected(items, ItemBudget)
           R == Required(whole)
           B == ItemBudget
<1>1. /\ p.items = items /\ p.in = in
      /\ p.overflowed <=> \/ Overhead > setting.limit
                          \/ \E i \in Required(items) : i \notin in /\ ~items[i].repeats
  OBVIOUS
<1>2. B \in Nat
  BY BudgetIs
<1>3. /\ in \subseteq DOMAIN items
      /\ Total(items, {i \in in : items[i].sent}) <= B
      /\ \A S \in SUBSET DOMAIN items :
           Before(items, S) /\ Total(items, S) <= B => \A i \in S : items[i].repeats \/ i \in in
  BY <1>2, ProjectedIs
<1>4. /\ DOMAIN all = DOMAIN whole /\ Required(all) = R /\ DOMAIN whole = 1..Len(all)
      /\ DOMAIN items = DOMAIN whole /\ Required(items) = R
      /\ \A i \in DOMAIN whole : items[i].sent = whole[i].sent /\ all[i].sent = whole[i].sent
  <2>1. /\ DOMAIN all = DOMAIN whole /\ Required(all) = R /\ DOMAIN whole = 1..Len(whole)
        /\ \A i \in DOMAIN whole : all[i].sent = whole[i].sent
    BY AlikeFits
  <2>2. /\ DOMAIN items = DOMAIN all /\ Required(items) = Required(all)
        /\ \A i \in DOMAIN all : items[i].sent = all[i].sent
    BY AlikeFits
  <2>3. Len(whole) = Len(all)
    BY DEF Alike
  <2> QED
    BY <2>1, <2>2, <2>3
<1>5. R \in SUBSET DOMAIN whole /\ \A i \in R : whole[i].sent
  BY DEF Required
<1> HIDE DEF in, B, R
<1>6. KeepsBudget(p)
  BY <1>1, <1>3 DEF KeepsBudget, Sent, B
<1>7. HoldsRequired(whole, p)
  BY <1>1, <1>4 DEF HoldsRequired, R
<1>8. LacksRoom(whole, p)
  <2> SUFFICES ASSUME p.overflowed, setting.strategy # "error", ~(Overhead > setting.limit)
               PROVE  LeastRequired(whole) > B
    BY DEF LacksRoom, B
  <2>1. PICK i \in R : i \notin in /\ ~items[i].repeats
    BY <1>1, <1>4
  <2>2. Before(items, R)
    <3>1. \A d, e \in DOMAIN items :
            items[e].pinned /\ <<d, e>> \in RankPairs(items) => items[d].pinned
      BY RankOrders
    <3>2. \A e \in R : items[e].pinned /\ e \in DOMAIN items
      BY <1>4 DEF Required
    <3>3. \A d \in DOMAIN items : items[d].pinned /\ items[d].sent => d \in R
      BY <1>4 DEF Required
    <3> QED
      BY <3>1, <3>2, <3>3 DEF Before
  <2>3. ~(Total(items, R) <= B)
    BY <1>3, <1>4, <1>5, <2>1, <2>2
  <2>4. \A j \in R : items[j].size = Least(all[j].size, HardFloor)
    BY <1>4, <2>3 DEF B
  <2>5. LeastRequired(whole) = SumOver(AtFloor(whole), R)
    BY LeastRequiredIs DEF R
  <2>6. /\ Total(items, R) = SumOver(Sizes(items), R) /\ SumOver(Sizes(items), R) \in Nat
        /\ Countable(Sizes(items), R) /\ \A j \in R : Sizes(items)[j] = items[j].size
    BY <1>4, <1>5, TotalIs, SizesCount
  <2>7. \A j \in R : AtFloor(whole)[j] = Sizes(items)[j]
    <3> SUFFICES ASSUME NEW j \in R PROVE AtFloor(whole)[j] = Sizes(items)[j]
      OBVIOUS
    <3>1. j \in DOMAIN whole /\ all[j].size = whole[j].size
      BY <1>4, <1>5
    <3>2. AtFloor(whole)[j] = Least(whole[j].size, HardFloor)
      BY <3>1 DEF AtFloor
    <3> QED
      BY <2>4, <2>6, <3>1, <3>2
  <2>8. SumOver(AtFloor(whole), R) = SumOver(Sizes(items), R)
    BY <2>6, <2>7, SumSame
  <2> QED
    BY <1>2, <2>3, <2>5, <2>6, <2>8
<1>9. DropsNothing(whole, p)
  <2> DEFINE S == {i \in DOMAIN whole : whole[i].sent}
  <2>1. SUFFICES ASSUME Total(whole, S) <= B
                 PROVE  \A i \in S : items[i].size = whole[i].size /\ (items[i].repeats \/ i \in in)
    BY <1>1 DEF DropsNothing, B
  <2>2. S \in SUBSET DOMAIN whole /\ R \in SUBSET DOMAIN whole /\ R \subseteq S
    BY <1>5
  <2>3. Before(items, S)
    BY <1>4 DEF Before
  <2> HIDE DEF S
  <2>4. /\ Total(whole, S) = SumOver(Sizes(whole), S)
        /\ Countable(Sizes(whole), S) /\ \A j \in S : Sizes(whole)[j] = whole[j].size
    BY <2>2, TotalIs, SizesCount
  <2>5. /\ Total(all, S) = SumOver(Sizes(all), S) /\ Total(all, R) = SumOver(Sizes(all), R)
        /\ Countable(Sizes(all), S) /\ Countable(Sizes(all), R)
        /\ SumOver(Sizes(all), S) \in Nat /\ SumOver(Sizes(all), R) \in Nat
        /\ \A j \in S : Sizes(all)[j] = all[j].size /\ Sizes(all)[j] \in Nat
    BY <1>4, <2>2, TotalIs, SizesCount
  <2>6. \A j \in S : Sizes(all)[j] = Sizes(whole)[j]
    BY <1>4, <2>2, <2>4, <2>5
  <2>7. SumOver(Sizes(all), S) = SumOver(Sizes(whole), S)
    BY <2>4, <2>6, SumSame
  <2>8. SumOver(Sizes(all), R) <= SumOver(Sizes(all), S)
    <3>1. (\A j \in R : Sizes(all)[j] <= Sizes(all)[j]) /\ (\A j \in S : 0 <= Sizes(all)[j])
      BY <2>2, <2>5
    <3> QED
      BY <2>2, <2>5, <3>1, SumGrows
  <2>9. Total(all, R) <= B /\ Total(all, S) <= B
    BY <1>2, <2>1, <2>4, <2>5, <2>7, <2>8
  <2>10. items = all
    BY <1>4, <2>9 DEF B
  <2>11. \A i \in S : items[i].repeats \/ i \in in
    BY <1>3, <1>4, <2>2, <2>3, <2>9, <2>10
  <2> QED
    BY <1>4, <2>2, <2>10, <2>11
<1> QED
  BY <1>1, <1>3, <1>6, <1>7, <1>8, <1>9

LEMMA PackOfIs ==
  ASSUME NEW h \in Seq(Records), Sane(h), NEW mem \in Seq(Memos), setting \in Settings
  PROVE  LET p == PackOf(h, mem)
             whole == Whole(h, mem)
         IN /\ p.in \subseteq DOMAIN p.items
            /\ KeepsBudget(p) /\ HoldsRequired(whole, p)
            /\ LacksRoom(whole, p) /\ DropsNothing(whole, p)
            /\ Pack(p.items) /\ Tells(h, mem, p.items)
            /\ \A i, j \in DOMAIN p.items : p.items[i].name = p.items[j].name => i = j
<1> DEFINE all == Previewed(WithRepeats(Deduped(Collected(h, mem))))
           whole == Whole(h, mem)
           items == IF setting.strategy = "error" THEN all ELSE Fitted(all, ItemBudget)
           p == PackOf(h, mem)
<1>1. p = [items |-> items, in |-> Projected(items, ItemBudget),
           overflowed |-> \/ Overhead > setting.limit
                          \/ \E i \in Required(items) :
                               i \notin Projected(items, ItemBudget) /\ ~items[i].repeats]
  BY DEF PackOf
<1>2. /\ Pack(whole) /\ Pack(all) /\ Alike(whole, all) /\ Tells(h, mem, all)
      /\ \A i \in 1..Len(all) : all[i].size = whole[i].size
      /\ \A i, j \in 1..Len(all) : all[i].name = all[j].name => i = j
  BY WholeIs
<1>3. ItemBudget \in Int
  BY BudgetIs
<1> HIDE DEF all, whole, p
<1>4. LET r == Fitted(all, ItemBudget) IN
      /\ CutFrom(all, r)
      /\ \/ Total(r, Required(all)) <= ItemBudget
         \/ \A i \in Required(all) : r[i].size = Least(all[i].size, HardFloor)
      /\ Total(all, Required(all)) <= ItemBudget => r = all
  BY <1>2, <1>3, FittedIs
<1>5. Pack(items) /\ Alike(all, items)
  <2>1. CASE setting.strategy = "error"
    BY <1>2, <2>1 DEF Alike
  <2>2. CASE setting.strategy # "error"
    <3> DEFINE r == Fitted(all, ItemBudget)
    <3>1. items = r /\ CutFrom(all, r)
      BY <1>4, <2>2
    <3> HIDE DEF r, items
    <3>2. /\ Pack(r) /\ Len(r) = Len(all)
          /\ \A i \in DOMAIN all :
              /\ r[i].name = all[i].name /\ r[i].kind = all[i].kind
              /\ r[i].pinned = all[i].pinned /\ r[i].sent = all[i].sent
              /\ r[i].priority = all[i].priority
      <4>1. Len(r) = Len(all)
        BY <3>1 DEF CutFrom
      <4> QED
        BY <1>2, <3>1, <4>1, CutKeeps
    <3>3. DOMAIN all = 1..Len(all)
      BY <1>2, PackElements
    <3> QED
      BY <3>1, <3>2, <3>3 DEF Alike
  <2> QED
    BY <2>1, <2>2
<1>6. \/ setting.strategy = "error" /\ items = all
      \/ /\ setting.strategy # "error"
         /\ \/ Total(items, Required(all)) <= ItemBudget
            \/ \A i \in Required(all) : items[i].size = Least(all[i].size, HardFloor)
         /\ Total(all, Required(all)) <= ItemBudget => items = all
  BY <1>4
<1> HIDE DEF items
<1>7. /\ p.in \subseteq DOMAIN p.items
      /\ KeepsBudget(p) /\ HoldsRequired(whole, p)
      /\ LacksRoom(whole, p) /\ DropsNothing(whole, p)
  BY <1>1, <1>2, <1>5, <1>6, ProjectedHolds
<1>8. Tells(h, mem, items)
  BY <1>2, <1>5, AlikeTells
<1>9. \A i, j \in DOMAIN items : items[i].name = items[j].name => i = j
  <2>1. /\ DOMAIN items = DOMAIN all /\ DOMAIN all = 1..Len(all)
        /\ \A i \in DOMAIN all : items[i].name = all[i].name
    BY <1>2, <1>5, AlikeFits
  <2> QED
    BY <1>2, <2>1
<1>10. p.items = items
  BY <1>1
<1> QED
  BY <1>5, <1>7, <1>8, <1>9, <1>10 DEF p, whole

(* With fresh ids every message and every result of the conversation has   *)
(* an item of its own.                                                     *)
LEMMA TraceIs ==
  ASSUME NEW h \in Seq(Records), Sane(h), Fresh(h), NEW mem, NEW q, Pack(q), Tells(h, mem, q),
         \A i, j \in DOMAIN q : q[i].name = q[j].name => i = j
  PROVE  LET conv == Conversation(h) IN
         /\ \A m \in ToSet(conv) : MessageItem(m, FALSE).name \in {q[i].name : i \in DOMAIN q}
         /\ Cardinality({i \in DOMAIN q : q[i].kind = "tool_result"})
              = Cardinality({i \in DOMAIN conv : conv[i].role = "tool"})
<1> DEFINE conv == Conversation(h)
           T == {i \in DOMAIN q : q[i].kind = "tool_result"}
           U == {i \in DOMAIN conv : conv[i].role = "tool"}
           f == [c \in U |-> CHOOSE i \in T : q[i].name = <<"result", conv[c].id>>]
<1>1. /\ conv \in Seq(Chats) /\ Len(conv) \in Nat /\ DOMAIN conv = 1..Len(conv)
      /\ \A c \in 1..Len(conv) : conv[c] \in Chats
      /\ \A c, d \in 1..Len(conv) : conv[c].id = conv[d].id => c = d
  BY ConversationIs
<1>2. /\ ToSet(q) = {q[i] : i \in DOMAIN q} /\ ToSet(conv) = {conv[c] : c \in DOMAIN conv}
  BY ToSetIs
<1>3. \A x \in ToSet(q) : Sourced(h, mem, x)
  BY DEF Tells
<1>4. \A c \in 1..Len(conv) : \E x \in ToSet(q) : x.name = MessageItem(conv[c], FALSE).name
  BY DEF Tells
<1>5. ASSUME NEW i \in T PROVE \E c \in U : q[i].name = <<"result", conv[c].id>>
  <2>1. Sourced(h, mem, q[i]) /\ q[i].kind = "tool_result"
    BY <1>2, <1>3
  <2>2. \E c \in 1..Len(conv) : conv[c].role = "tool" /\ q[i].name = <<"result", conv[c].id>>
    BY <2>1 DEF Sourced
  <2> QED
    BY <1>1, <2>2
<1>6. ASSUME NEW c \in U PROVE \E i \in T : q[i].name = <<"result", conv[c].id>>
  <2>1. c \in 1..Len(conv) /\ conv[c] \in Chats /\ conv[c].role = "tool"
    BY <1>1
  <2>2. MessageItem(conv[c], FALSE).name = <<"result", conv[c].id>>
    BY <2>1, MessageItemIs
  <2>3. PICK x \in ToSet(q) : x.name = <<"result", conv[c].id>>
    BY <1>4, <2>1, <2>2
  <2>4. x.kind = "tool_result"
    BY <1>3, <2>3 DEF Sourced
  <2> QED
    BY <1>2, <2>3, <2>4
<1>7. \A m \in ToSet(conv) : MessageItem(m, FALSE).name \in {q[i].name : i \in DOMAIN q}
  <2> SUFFICES ASSUME NEW m \in ToSet(conv)
               PROVE  \E i \in DOMAIN q : MessageItem(m, FALSE).name = q[i].name
    OBVIOUS
  <2>1. PICK c \in 1..Len(conv) : m = conv[c]
    BY <1>1, <1>2
  <2>2. PICK x \in ToSet(q) : x.name = MessageItem(m, FALSE).name
    BY <1>4, <2>1
  <2> QED
    BY <1>2, <2>2
<1>8. /\ T \subseteq DOMAIN q /\ U \subseteq 1..Len(conv)
      /\ \A c, d \in U : conv[c].id = conv[d].id => c = d
      /\ \A i, j \in T : q[i].name = q[j].name => i = j
  BY <1>1
<1>9. IsFiniteSet(T) /\ IsFiniteSet(U)
  <2>1. IsFiniteSet(DOMAIN q) /\ IsFiniteSet(1..Len(conv))
    BY <1>1, UpTo, PackElements
  <2> QED
    BY <1>8, <2>1, FS_Subset
<1> HIDE DEF T, U, conv
<1>10. ASSUME NEW c \in U PROVE f[c] \in T /\ q[f[c]].name = <<"result", conv[c].id>>
  BY <1>6
<1>11. f \in [U -> T]
  BY <1>10
<1> HIDE DEF f
<1>12. \A c, d \in U : f[c] = f[d] => c = d
  <2> SUFFICES ASSUME NEW c \in U, NEW d \in U, f[c] = f[d] PROVE c = d
    OBVIOUS
  <2>1. <<"result", conv[c].id>> = <<"result", conv[d].id>>
    BY <1>10
  <2>2. conv[c].id = conv[d].id
    BY <2>1
  <2> QED
    BY <1>8, <2>2
<1>13. \A i \in T : \E c \in U : f[c] = i
  <2> SUFFICES ASSUME NEW i \in T PROVE \E c \in U : f[c] = i
    OBVIOUS
  <2>1. PICK c \in U : q[i].name = <<"result", conv[c].id>>
    BY <1>5
  <2>2. f[c] \in T /\ q[f[c]].name = q[i].name
    BY <1>10, <2>1
  <2> QED
    BY <1>8, <2>2
<1>14. f \in Injection(U, T) /\ f \in Surjection(U, T)
  BY <1>11, <1>12, <1>13 DEF Injection, Surjection, IsInjective
<1>15. Cardinality(U) = Cardinality(T)
  BY <1>9, <1>14, FS_Injection
<1> QED
  BY <1>7, <1>15 DEF T, U, conv

(* Nothing of a compaction, and no memory, that should not be there.       *)
LEMMA TellsOnly ==
  ASSUME NEW h \in Seq(Records), NEW mem \in Seq(Memos), NEW q, Tells(h, mem, q)
  PROVE  /\ {i \in DOMAIN q : q[i].kind = "work_state"} = {} <=> Compactions(h) = {}
         /\ \A i \in DOMAIN q : q[i].kind = "memory" =>
              \E k \in DOMAIN mem : mem[k].active /\ q[i].name = <<"memory", mem[k].of>>
<1>1. ToSet(q) = {q[i] : i \in DOMAIN q} /\ DOMAIN mem = 1..Len(mem)
  BY ToSetIs, LenProperties
<1>2. \A i \in DOMAIN q : Sourced(h, mem, q[i])
  BY <1>1 DEF Tells
<1>3. ASSUME Compactions(h) # {} PROVE \E i \in DOMAIN q : q[i].kind = "work_state"
  <2>1. PICK x \in ToSet(q) : x.name = <<"work_state", Latest(h)>>
    BY <1>3 DEF Tells
  <2>2. PICK i \in DOMAIN q : x = q[i]
    BY <1>1
  <2>3. q[i].kind = "work_state"
    BY <1>2, <2>1, <2>2 DEF Sourced
  <2> QED
    BY <2>3
<1>4. \A i \in DOMAIN q : q[i].kind = "work_state" => Compactions(h) # {}
  BY <1>2 DEF Sourced
<1>5. \A i \in DOMAIN q : q[i].kind = "memory" =>
        \E k \in DOMAIN mem : mem[k].active /\ q[i].name = <<"memory", mem[k].of>>
  BY <1>1, <1>2 DEF Sourced
<1> QED
  BY <1>3, <1>4, <1>5

(* Of what the latest summary replaces there is nothing but what belongs   *)
(* to skills and results of the answer the cut fell on, when a cut that is *)
(* not from before the messages in memory is among them.                   *)
Placeable(h) == CutOf(h) < loaded \/ Holds(h, CutOf(h))

LEMMA ReplacedIs ==
  ASSUME NEW h \in Seq(Records), Sane(h), loaded \in Nat, Placeable(h),
         NEW m \in ToSet(Conversation(h))
  PROVE  \/ m.msg > CutOf(h) \/ h[m.msg].skill
         \/ m.msg = CutOf(h) /\ m.role = "tool"
<1> DEFINE conv == Conversation(h)
<1>1. /\ DOMAIN conv = 1..Len(conv)
      /\ \A c \in 1..Len(conv) : Holds(h, conv[c].msg) /\ ~Replaced(h, conv[c])
                                 /\ conv[c].msg \in 1..Len(h)
  BY ConversationIs
<1>2. Holds(h, m.msg) /\ ~Replaced(h, m) /\ m.msg \in 1..Len(h)
  BY <1>1, ToSetIs
<1>3. /\ CutOf(h) \in Nat /\ Len(h) \in Nat /\ DOMAIN h = 1..Len(h)
      /\ Compactions(h) \subseteq 1..Len(h)
  BY CutOfIs, LenProperties
<1>4. CASE CutOf(h) < loaded
  BY <1>2, <1>3, <1>4 DEF Holds
<1>5. CASE ~(CutOf(h) < loaded)
  <2>1. Holds(h, CutOf(h))
    BY <1>5 DEF Placeable
  <2>2. CutOf(h) # 0
    BY <1>3, <2>1 DEF Holds
  <2>3. Compactions(h) # {}
    BY <2>2 DEF CutOf
  <2>4. /\ Latest(h) \in Compactions(h) /\ \A j \in Compactions(h) : j <= Latest(h)
        /\ CutOf(h) = h[Latest(h)].until /\ CutOf(h) < Latest(h)
    BY <2>3, CutOfIs
  <2>5. Holds(h, Latest(h))
    <3>1. Latest(h) \in 1..Len(h) /\ h[Latest(h)].role = "boundary"
      BY <1>3, <2>4 DEF Compactions
    <3>2. Latest(h) >= loaded
      BY <1>3, <1>5, <2>4, <3>1
    <3> QED
      BY <1>3, <3>1, <3>2 DEF Holds
  <2>6. Latest(h) \in InForce(h) /\ InForce(h) \in SUBSET (1..Len(h)) /\ InForce(h) \subseteq Compactions(h)
    BY <1>3, <2>1, <2>4, <2>5 DEF InForce
  <2>7. LastIn(InForce(h)) \in InForce(h) /\ \A j \in InForce(h) : j <= LastIn(InForce(h))
    BY <1>3, <2>6, LastIs
  <2>8. LastIn(InForce(h)) = Latest(h)
    BY <1>3, <2>4, <2>6, <2>7
  <2>9. ~(m.msg < CutOf(h)) /\ ~(m.msg = CutOf(h) /\ m.role # "tool")
    BY <1>2, <2>4, <2>6, <2>8 DEF Replaced
  <2> QED
    BY <1>2, <1>3, <2>9
<1> QED
  BY <1>4, <1>5

(* Where a compaction in a turn ends.                                      *)
LEMMA KeptIs ==
  ASSUME history \in Seq(Records), NEW turns \in Nat \ {0}
  PROVE  Ending(turns) \in SUBSET (1..Len(InMemory(history)))
<1> DEFINE q == InMemory(history)
           said == {i \in DOMAIN q : q[i].role = "user"}
           key == [i \in said |-> i]
           users == InOrder(said, key)
           kept == KeptFrom(turns)
<1>1. Len(q) \in Nat /\ DOMAIN q = 1..Len(q) /\ turns \in Nat /\ turns >= 1 /\ KeepRecent \in Nat
  BY InMemoryIs, PackAssumption
<1>2. kept = IF Len(users) > turns THEN users[Len(users) - turns + 1]
             ELSE Len(q) - KeepRecent + 1
  BY DEF KeptFrom
<1> HIDE DEF q, kept
<1>3. said \subseteq 1..Len(q) /\ IsFiniteSet(said)
  <2>1. said \subseteq 1..Len(q) /\ IsFiniteSet(1..Len(q))
    BY <1>1, UpTo
  <2> QED
    BY <2>1, FS_Subset
<1> HIDE DEF said
<1>4. (\A e \in said : key[e] \in Nat) /\ (\A d, e \in said : key[d] = key[e] => d = e)
  BY <1>1, <1>3
<1>5. users \in Seq(said)
  <2> HIDE DEF key
  <2> QED
    BY <1>3, <1>4, InOrderSorts
<1> HIDE DEF users
<1>6. Len(users) \in Nat /\ \A n \in 1..Len(users) : users[n] \in 1..Len(q)
  BY <1>3, <1>5, LenProperties
<1>7. kept \in Int /\ kept <= Len(q) + 1
  <2>1. CASE Len(users) > turns
    <3>1. Len(users) - turns + 1 \in 1..Len(users)
      BY <1>1, <1>6, <2>1
    <3>2. kept \in 1..Len(q)
      BY <1>2, <1>6, <2>1, <3>1
    <3> QED
      BY <1>1, <3>2
  <2>2. CASE ~(Len(users) > turns)
    BY <1>1, <1>2, <2>2
  <2> QED
    BY <2>1, <2>2
<1>8. Ending(turns) \subseteq 1..(kept - 1)
  BY DEF Ending, kept
<1> QED
  BY <1>1, <1>7, <1>8 DEF q

LEMMA UntilIs ==
  ASSUME history \in Seq(Records), NEW p, CanCompact(p)
  PROVE  Until(p) \in 1..Len(history) /\ Holds(history, Until(p))
<1> DEFINE q == InMemory(history)
           ending == Ending(TurnsKept(p))
<1>1. /\ Len(q) \in Nat
      /\ \A c \in 1..Len(q) : Holds(history, q[c].msg) /\ q[c].msg \in 1..Len(history)
  BY InMemoryIs
<1>2. TurnsKept(p) \in Nat \ {0}
  BY PackAssumption DEF TurnsKept
<1>3. ending \in SUBSET (1..Len(q)) /\ ending # {}
  BY <1>2, KeptIs DEF CanCompact
<1>4. Until(p) = q[LastIn(ending)].msg
  BY DEF Until
<1> HIDE DEF q, ending
<1>5. LastIn(ending) \in ending
  BY <1>1, <1>3, LastIs
<1> QED
  BY <1>1, <1>3, <1>4, <1>5

-----------------------------------------------------------------------------
(* What a transcript keeps.                                                *)

Kempt(h) == h \in Seq(Records) /\ Sane(h)

LEMMA AppendedIs ==
  ASSUME NEW h, Kempt(h), NEW m \in Records, m.until < Len(h) + 1
  PROVE  /\ Kempt(Append(h, m)) /\ Len(Append(h, m)) = Len(h) + 1 /\ Len(h) \in Nat
         /\ Append(h, m)[Len(h) + 1] = m /\ \A i \in 1..Len(h) : Append(h, m)[i] = h[i]
         /\ Compactions(Append(h, m))
              = Compactions(h) \cup (IF m.role = "boundary" THEN {Len(h) + 1} ELSE {})
         /\ Compactions(h) \subseteq 1..Len(h)
         /\ Fresh(h) /\ (\A k \in 1..Len(m.results) : m.results[k].id = <<Len(h) + 1, k>>)
              => Fresh(Append(h, m))
<1> DEFINE g == Append(h, m)
           n == Len(h) + 1
<1>1. h \in Seq(Records) /\ Sane(h)
  BY DEF Kempt
<1>2. /\ g \in Seq(Records) /\ Len(g) = n /\ g[n] = m /\ Len(h) \in Nat /\ DOMAIN h = 1..Len(h)
      /\ \A i \in 1..Len(h) : g[i] = h[i]
  BY <1>1, AppendProperties, LenProperties
<1> HIDE DEF g
<1>3. DOMAIN g = 1..n /\ n = Len(h) + 1
  BY <1>2, LenProperties
<1> HIDE DEF n
<1>4. \A i \in 1..n : i \in 1..Len(h) \/ i = n
  BY <1>2, <1>3
<1>5. Compactions(h) \subseteq 1..Len(h)
  BY <1>2 DEF Compactions
<1>6. \A i \in 1..Len(h) : i \in 1..n /\ i < n
  BY <1>2, <1>3
<1>7. Compactions(g) = Compactions(h) \cup (IF m.role = "boundary" THEN {n} ELSE {})
  <2>1. ASSUME NEW i \in 1..n
        PROVE  i \in Compactions(g) <=>
                 i \in Compactions(h) \cup (IF m.role = "boundary" THEN {n} ELSE {})
    <3>1. CASE i \in 1..Len(h)
      <4>1. i # n /\ g[i] = h[i]
        BY <1>2, <1>3, <3>1
      <4> QED
        BY <1>2, <1>3, <3>1, <4>1 DEF Compactions
    <3>2. CASE i = n
      <4>1. n \notin 1..Len(h) /\ n \in 1..n
        BY <1>2, <1>3
      <4> QED
        BY <1>2, <1>3, <1>5, <3>2, <4>1 DEF Compactions
    <3> QED
      BY <1>4, <3>1, <3>2
  <2>2. Compactions(g) \subseteq 1..n
    BY <1>3 DEF Compactions
  <2>3. Compactions(h) \cup (IF m.role = "boundary" THEN {n} ELSE {}) \subseteq 1..n
    BY <1>2, <1>3, <1>5
  <2> QED
    BY <2>1, <2>2, <2>3
<1>8. Sane(g)
  <2> SUFFICES ASSUME NEW i \in 1..n PROVE g[i].until < i
    BY <1>2 DEF Sane
  <2>1. CASE i \in 1..Len(h)
    BY <1>1, <1>2, <2>1 DEF Sane
  <2>2. CASE i = n
    BY <1>2, <1>3, <2>2
  <2> QED
    BY <1>4, <2>1, <2>2
<1>10. ASSUME Fresh(h), \A k \in 1..Len(m.results) : m.results[k].id = <<n, k>>
       PROVE  Fresh(g)
  <2> SUFFICES ASSUME NEW i \in 1..n, NEW k \in 1..Len(g[i].results)
               PROVE  g[i].results[k].id = <<i, k>>
    BY <1>2 DEF Fresh
  <2>1. CASE i \in 1..Len(h)
    BY <1>2, <1>10, <2>1 DEF Fresh
  <2>2. CASE i = n
    BY <1>2, <1>10, <2>2
  <2> QED
    BY <1>4, <2>1, <2>2
<1> QED
  BY <1>2, <1>5, <1>7, <1>8, <1>10 DEF Kempt, g, n

LEMMA UndoneRecord ==
  ASSUME NEW r \in Records, NEW s, s = [r EXCEPT !.role = "undone"]
  PROVE  s \in Records /\ s.until = r.until /\ s.results = r.results /\ s.role = "undone"
BY DEF Records, Roles

LEMMA UndoneIs ==
  ASSUME NEW h, Kempt(h), NEW i \in 1..Len(h), NEW g, g = [h EXCEPT ![i].role = "undone"]
  PROVE  /\ Kempt(g) /\ Len(g) = Len(h) /\ (Fresh(h) => Fresh(g))
<1>1. h \in Seq(Records) /\ Sane(h)
  BY DEF Kempt
<1>2. /\ Len(h) \in Nat /\ DOMAIN h = 1..Len(h) /\ h \in [1..Len(h) -> Records]
  BY <1>1, LenProperties
<1>3. \A j \in 1..Len(h) : h[j] \in Records
  BY <1>2
<1>4. \A j \in 1..Len(h) : g[j] = IF j = i THEN [h[i] EXCEPT !.role = "undone"] ELSE h[j]
  BY <1>2
<1>5. g = [j \in 1..Len(h) |-> g[j]]
  BY <1>2
<1>6. \A j \in 1..Len(h) : /\ g[j] \in Records /\ g[j].until = h[j].until
                           /\ g[j].results = h[j].results
                           /\ g[j].role = "boundary" => h[j].role = "boundary"
  <2> SUFFICES ASSUME NEW j \in 1..Len(h)
               PROVE  /\ g[j] \in Records /\ g[j].until = h[j].until
                      /\ g[j].results = h[j].results
                      /\ g[j].role = "boundary" => h[j].role = "boundary"
    OBVIOUS
  <2>1. CASE j = i
    <3>1. g[j] = [h[j] EXCEPT !.role = "undone"] /\ h[j] \in Records
      BY <1>3, <1>4, <2>1
    <3>2. g[j] \in Records /\ g[j].until = h[j].until /\ g[j].results = h[j].results
          /\ g[j].role = "undone"
      BY <3>1, UndoneRecord
    <3> QED
      BY <3>2
  <2>2. CASE j # i
    BY <1>3, <1>4, <2>2
  <2> QED
    BY <2>1, <2>2
<1>7. g \in Seq(Records) /\ Len(g) = Len(h)
  <2>1. g \in Seq(Records)
    BY <1>2, <1>5, <1>6, IsASeq
  <2> QED
    BY <1>2, <1>5, <2>1, LenProperties
<1>8. DOMAIN g = 1..Len(h)
  BY <1>7, LenProperties
<1>9. Sane(g)
  BY <1>1, <1>6, <1>7 DEF Sane
<1>10. Fresh(h) => Fresh(g)
  BY <1>6, <1>7 DEF Fresh
<1> QED
  BY <1>7, <1>9, <1>10 DEF Kempt

(* Messages as they are made.                                              *)
MessageOf(x, role, until, results) ==
  x \in Records /\ x.role = role /\ x.until = until /\ x.results = results

LEMMA NewMessageIs ==
  ASSUME NEW role \in Roles, NEW size \in Nat
  PROVE  /\ \A extra \in Nat :
              MessageOf([NewMessage(role, size) EXCEPT !.extra = extra], role, 0, <<>>)
         /\ \A until \in Nat :
              MessageOf([NewMessage(role, size) EXCEPT !.until = until], role, until, <<>>)
         /\ \A results \in Seq([id : Nat \X Nat, size : Nat]), skill \in BOOLEAN :
              MessageOf([NewMessage(role, size) EXCEPT !.results = results, !.skill = skill],
                        role, 0, results)
<1> DEFINE T == Seq([id : Nat \X Nat, size : Nat])
           none == <<>>
           m == [role |-> role, size |-> size, extra |-> 0, results |-> none, skill |-> FALSE,
                 until |-> 0]
<1>1. none \in T /\ NewMessage(role, size) = m
  BY DEF NewMessage
<1>2. Records = [role : Roles, size : Nat, extra : Nat, until : Nat, results : T,
                    skill : BOOLEAN]
  BY DEF Records
<1> HIDE DEF T, none
<1>3. \A extra \in Nat : MessageOf([m EXCEPT !.extra = extra], role, 0, none)
  BY <1>1, <1>2 DEF MessageOf
<1>4. \A until \in Nat : MessageOf([m EXCEPT !.until = until], role, until, none)
  BY <1>1, <1>2 DEF MessageOf
<1>5. \A results \in T, skill \in BOOLEAN :
         MessageOf([m EXCEPT !.results = results, !.skill = skill], role, 0, results)
  BY <1>1, <1>2 DEF MessageOf
<1> HIDE DEF m
<1> QED
  BY <1>1, <1>3, <1>4, <1>5 DEF none, T

LEMMA BoundaryIs ==
  ASSUME setting \in Settings, NEW until \in Nat
  PROVE  /\ Boundary(until) \in Records /\ Boundary(until).role = "boundary"
         /\ Boundary(until).until = until /\ Boundary(until).results = <<>> /\ Summary \in Nat
<1>1. Summary \in Nat
  <2> DEFINE third == ItemBudget \div 3
  <2>1. ItemBudget \in Nat /\ SummaryMax \in Nat
    BY BudgetIs, PackAssumption
  <2>2. third \in Nat
    BY <2>1
  <2>3. Summary = Least(SummaryMax, IF third = 0 THEN 1 ELSE third)
    BY DEF Summary
  <2> HIDE DEF third
  <2> QED
    BY <2>1, <2>2, <2>3 DEF Least
<1>2. "boundary" \in Roles
  BY DEF Roles
<1>3. MessageOf(Boundary(until), "boundary", until, <<>>)
  BY <1>1, <1>2, NewMessageIs DEF Boundary
<1> QED
  BY <1>1, <1>3 DEF MessageOf

LEMMA RememberedIs ==
  ASSUME setting \in Settings, memories \in Seq(Memos), NEW of \in Nat
  PROVE  Remembered(of) \in Seq(Memos) /\ Len(Remembered(of)) <= MemoriesHold
<1> DEFINE x == [of |-> of, size |-> Summary, active |-> TRUE]
           all == Append(memories, x)
           l == Len(all)
           first == l - Least(l, MemoriesHold) + 1
           s == SubSeq(all, first, l)
<1>1. x \in Memos
  <2>1. 0 \in Nat
    OBVIOUS
  <2>2. Summary \in Nat
    BY <2>1, BoundaryIs
  <2> QED
    BY <2>2 DEF Memos
<1>2. all \in Seq(Memos) /\ l \in Nat /\ MemoriesHold \in Nat
  <2>1. all \in Seq(Memos)
    BY <1>1, AppendProperties
  <2> QED
    BY <2>1, LenProperties, PackAssumption
<1>3. Remembered(of) = s
  BY DEF Remembered
<1>4. \A i \in 1..l : all[i] \in Memos
  BY <1>2, LenProperties
<1> HIDE DEF l, all
<1>5. first \in 1..(l + 1) /\ l - first + 1 <= MemoriesHold /\ first \in Nat
  BY <1>2 DEF Least
<1> HIDE DEF first
<1>6. \A i \in first..l : all[i] \in Memos
  BY <1>2, <1>4, <1>5
<1>7. s \in Seq(Memos) /\ Len(s) = IF first <= l THEN l - first + 1 ELSE 0
  BY <1>2, <1>5, <1>6, SubSeqProperties
<1>8. Len(s) <= MemoriesHold
  BY <1>2, <1>5, <1>7
<1> QED
  BY <1>3, <1>7, <1>8

(* Memories that are switched on and off.                                  *)
LEMMA MemosOn ==
  ASSUME NEW mem \in Seq(Memos), NEW new, new = [k \in DOMAIN mem |-> new[k]],
         \A k \in DOMAIN mem : \E on \in BOOLEAN : new[k] = [mem[k] EXCEPT !.active = on]
  PROVE  new \in Seq(Memos) /\ Len(new) = Len(mem)
<1>1. Len(mem) \in Nat /\ DOMAIN mem = 1..Len(mem) /\ \A k \in 1..Len(mem) : mem[k] \in Memos
  BY LenProperties
<1>2. \A k \in 1..Len(mem) : new[k] \in Memos
  <2> SUFFICES ASSUME NEW k \in 1..Len(mem) PROVE new[k] \in Memos
    OBVIOUS
  <2>1. PICK on \in BOOLEAN : new[k] = [mem[k] EXCEPT !.active = on]
    BY <1>1
  <2>2. mem[k] \in Memos
    BY <1>1
  <2> QED
    BY <2>1, <2>2 DEF Memos
<1>3. new \in Seq(Memos)
  BY <1>1, <1>2, IsASeq
<1> QED
  BY <1>1, <1>3, LenProperties

-----------------------------------------------------------------------------
(* The invariant.                                                          *)

(* The inductive invariant: a boundary replaces what came before it; in a  *)
(* running turn the cut of the latest one is before the messages in memory *)
(* or among them; and a request that is out, or that failed, is the pack   *)
(* of the session as it still stands.                                      *)
PackInv ==
  /\ setting \in Settings
  /\ Kempt(history) /\ (setting.ids = "fresh" => Fresh(history))
  /\ loaded \in 1..(Len(history) + 1)
  /\ memories \in Seq(Memos) /\ Len(memories) <= MemoriesHold
  /\ step \in {"idle", "pack", "model", "failed"}
  /\ step \in {"pack", "model", "failed"} => Placeable(history)
  /\ pack.in \subseteq DOMAIN pack.items
  /\ step \in {"model", "failed"} =>
       pack = PackOf(history, memories) /\ (step = "failed" <=> pack.overflowed)

LEMMA CutOn ==
  ASSUME NEW h, Kempt(h), NEW m \in Records, m.until < Len(h) + 1
  PROVE  CutOf(Append(h, m)) = IF m.role = "boundary" THEN m.until ELSE CutOf(h)
<1> DEFINE g == Append(h, m)
           n == Len(h) + 1
<1>1. /\ Kempt(g) /\ Len(g) = n /\ Len(h) \in Nat /\ g[n] = m
      /\ \A i \in 1..Len(h) : g[i] = h[i]
      /\ Compactions(g) = Compactions(h) \cup (IF m.role = "boundary" THEN {n} ELSE {})
      /\ Compactions(h) \subseteq 1..Len(h)
  BY AppendedIs
<1> HIDE DEF g
<1>2. CASE m.role = "boundary"
  <2>1. n \in Compactions(g) /\ Compactions(g) \subseteq 1..n
    BY <1>1, <1>2
  <2>2. /\ Latest(g) \in Compactions(g) /\ \A j \in Compactions(g) : j <= Latest(g)
        /\ CutOf(g) = g[Latest(g)].until
    BY <1>1, <2>1, CutOfIs DEF Kempt
  <2>3. Latest(g) = n
    BY <1>1, <2>1, <2>2
  <2> QED
    BY <1>1, <1>2, <2>2, <2>3 DEF g
<1>3. CASE m.role # "boundary"
  <2>1. Compactions(g) = Compactions(h)
    BY <1>1, <1>3
  <2>2. Latest(g) = Latest(h)
    BY <2>1 DEF Latest
  <2>3. CASE Compactions(h) = {}
    BY <1>3, <2>1, <2>3 DEF CutOf, g
  <2>4. CASE Compactions(h) # {}
    <3>1. Latest(h) \in 1..Len(h)
      BY <1>1, <2>4, CutOfIs DEF Kempt
    <3>2. CutOf(g) = g[Latest(h)].until /\ CutOf(h) = h[Latest(h)].until
      BY <2>1, <2>2, <2>4 DEF CutOf
    <3> QED
      BY <1>1, <1>3, <3>1, <3>2 DEF g
  <2> QED
    BY <2>3, <2>4
<1> QED
  BY <1>2, <1>3

LEMMA PlaceableOn ==
  ASSUME Kempt(history), Placeable(history), NEW m \in Records, m.until < Len(history) + 1,
         m.role = "boundary" => Holds(history, m.until),
         history' = Append(history, m), loaded' = loaded
  PROVE  Placeable(history)'
<1>1. history \in Seq(Records) /\ Len(history) \in Nat
  BY LenProperties DEF Kempt
<1>2. /\ history' \in Seq(Records) /\ Len(history') = Len(history) + 1
      /\ \A i \in 1..Len(history) : history'[i] = history[i]
      /\ DOMAIN history = 1..Len(history) /\ DOMAIN history' = 1..Len(history')
  BY <1>1, AppendProperties, LenProperties
<1>3. CutOf(history') = IF m.role = "boundary" THEN m.until ELSE CutOf(history)
  BY CutOn
<1>4. \A i : Holds(history, i) => Holds(history, i)'
  BY <1>1, <1>2 DEF Holds
<1>5. (CutOf(history))' = CutOf(history')
  BY DEF CutOf, Latest, Compactions, LastIn
<1> QED
  BY <1>3, <1>4, <1>5 DEF Placeable

LEMMA PackInvInit == ASSUME PackInit PROVE PackInv
<1>1. setting \in Settings /\ history = <<>> /\ loaded = 1 /\ memories = <<>> /\ step = "idle"
      /\ pack = NoPack
  BY DEF PackInit, Settings
<1>2. history \in Seq(Records) /\ Len(history) = 0 /\ DOMAIN history = {}
      /\ memories \in Seq(Memos) /\ Len(memories) = 0
  BY <1>1
<1>3. Kempt(history) /\ Fresh(history)
  BY <1>2 DEF Kempt, Sane, Fresh
<1>4. Len(memories) <= MemoriesHold
  BY <1>2, PackAssumption
<1>5. pack.in \subseteq DOMAIN pack.items
  BY <1>1 DEF NoPack
<1> QED
  BY <1>1, <1>2, <1>3, <1>4, <1>5 DEF PackInv

LEMMA PackOfStays ==
  ASSUME setting' = setting, loaded' = loaded
  PROVE  (PackOf(history, memories))' = PackOf(history', memories')
BY DEF PackOf, ItemBudget, Collected, Conversation, InMemory, Holds, Replaced, InForce,
       Compactions, WorkState, Latest, LastIn

LEMMA SendsAsIsKeeps == ASSUME PackInv, SendsAsIs PROVE PackInv'
<1> DEFINE p == PackOf(history, memories)
<1>1. /\ setting' = setting /\ history' = history /\ loaded' = loaded /\ memories' = memories
      /\ pack' = p /\ step' = (IF p.overflowed THEN "failed" ELSE "model") /\ step = "pack"
  BY DEF SendsAsIs, SendsPack
<1>2. /\ setting \in Settings /\ Kempt(history) /\ (setting.ids = "fresh" => Fresh(history))
      /\ loaded \in 1..(Len(history) + 1) /\ memories \in Seq(Memos)
      /\ Len(memories) <= MemoriesHold /\ Placeable(history)
  BY <1>1 DEF PackInv
<1>3. p.in \subseteq DOMAIN p.items
  BY <1>2, PackOfIs DEF Kempt
<1>4. (PackOf(history, memories))' = p
  BY <1>1, PackOfStays
<1>6. Placeable(history)'
  BY <1>1, <1>2 DEF Placeable, Holds, CutOf, Latest, Compactions, LastIn
<1> HIDE DEF p
<1>5. step' \in {"failed", "model"} /\ (step' = "failed" <=> p.overflowed)
  BY <1>1
<1> QED
  BY <1>1, <1>2, <1>3, <1>4, <1>5, <1>6 DEF PackInv

LEMMA CompactsFirstKeeps == ASSUME PackInv, CompactsFirst PROVE PackInv'
<1> DEFINE before == PackOf(history, memories)
           m == Boundary(Until(before))
           p == PackOf(history', memories')
<1>1. /\ setting' = setting /\ history' = Append(history, m) /\ loaded' = loaded
      /\ memories' = Remembered(Len(history) + 1)
      /\ pack' = p /\ step' = (IF p.overflowed THEN "failed" ELSE "model") /\ step = "pack"
      /\ CanCompact(before)
  BY DEF CompactsFirst, SendsPack
<1>2. /\ setting \in Settings /\ Kempt(history) /\ (setting.ids = "fresh" => Fresh(history))
      /\ loaded \in 1..(Len(history) + 1) /\ memories \in Seq(Memos)
      /\ Len(memories) <= MemoriesHold /\ Placeable(history)
  BY <1>1 DEF PackInv
<1>3. history \in Seq(Records) /\ Len(history) \in Nat
  BY <1>2, LenProperties DEF Kempt
<1> HIDE DEF before, p
<1>4. Until(before) \in 1..Len(history) /\ Holds(history, Until(before))
  BY <1>1, <1>3, UntilIs
<1>5. /\ m \in Records /\ m.role = "boundary" /\ m.until = Until(before) /\ m.results = <<>>
  BY <1>2, <1>3, <1>4, BoundaryIs
<1> HIDE DEF m
<1>6. m.until < Len(history) + 1
  BY <1>3, <1>4, <1>5
<1>7. Placeable(history)'
  BY <1>1, <1>2, <1>4, <1>5, <1>6, PlaceableOn
<1>8. /\ Kempt(history') /\ Len(history') = Len(history) + 1
      /\ Fresh(history) => Fresh(history')
  BY <1>1, <1>2, <1>5, <1>6, AppendedIs
<1>9. memories' \in Seq(Memos) /\ Len(memories') <= MemoriesHold
  BY <1>1, <1>2, <1>3, RememberedIs
<1>10. loaded \in 1..(Len(history') + 1)
  BY <1>2, <1>3, <1>8
<1>11. p.in \subseteq DOMAIN p.items
  BY <1>2, <1>8, <1>9, PackOfIs DEF Kempt, p
<1>12. (PackOf(history, memories))' = p
  BY <1>1, PackOfStays DEF p
<1>13. step' \in {"failed", "model"} /\ (step' = "failed" <=> p.overflowed)
  BY <1>1
<1> QED
  BY <1>1, <1>2, <1>7, <1>8, <1>9, <1>10, <1>11, <1>12, <1>13 DEF PackInv

LEMMA CompactsKeeps == ASSUME PackInv, Compacts PROVE PackInv'
<1> DEFINE m == Boundary(LastIn(Visible))
<1>1. /\ setting' = setting /\ history' = Append(history, m) /\ loaded' = loaded
      /\ memories' = Remembered(Len(history) + 1)
      /\ pack' = pack /\ step' = "idle" /\ Visible # {}
  BY DEF Compacts
<1>2. /\ setting \in Settings /\ Kempt(history) /\ (setting.ids = "fresh" => Fresh(history))
      /\ loaded \in 1..(Len(history) + 1) /\ memories \in Seq(Memos)
      /\ pack.in \subseteq DOMAIN pack.items
  BY DEF PackInv
<1>3. history \in Seq(Records) /\ Len(history) \in Nat /\ DOMAIN history = 1..Len(history)
  BY <1>2, LenProperties DEF Kempt
<1>4. LastIn(Visible) \in 1..Len(history)
  <2>1. Visible \in SUBSET (1..Len(history))
    BY <1>3 DEF Visible
  <2> QED
    BY <1>1, <1>3, <2>1, LastIs
<1>5. m \in Records /\ m.role = "boundary" /\ m.until = LastIn(Visible) /\ m.results = <<>>
  BY <1>2, <1>3, <1>4, BoundaryIs
<1> HIDE DEF m
<1>6. m.until < Len(history) + 1
  BY <1>3, <1>4, <1>5
<1>7. /\ Kempt(history') /\ Len(history') = Len(history) + 1
      /\ Fresh(history) => Fresh(history')
  BY <1>1, <1>2, <1>5, <1>6, AppendedIs
<1>8. memories' \in Seq(Memos) /\ Len(memories') <= MemoriesHold
  BY <1>1, <1>2, <1>3, RememberedIs
<1>9. loaded \in 1..(Len(history') + 1)
  BY <1>2, <1>3, <1>7
<1> QED
  BY <1>1, <1>2, <1>7, <1>8, <1>9 DEF PackInv

(* A message that is no boundary, and whose calls, if any, have ids of      *)
(* their own.                                                              *)
LEMMA SpokenOn ==
  ASSUME NEW h, Kempt(h), NEW m \in Records, m.until < Len(h) + 1, m.role # "boundary"
  PROVE  /\ Kempt(Append(h, m)) /\ Len(Append(h, m)) = Len(h) + 1
         /\ \A i \in 1..Len(h) : Append(h, m)[i] = h[i]
         /\ Compactions(Append(h, m)) = Compactions(h)
         /\ Compactions(h) \subseteq 1..Len(h)
         /\ Fresh(h) /\ (\A k \in 1..Len(m.results) : m.results[k].id = <<Len(h) + 1, k>>)
              => Fresh(Append(h, m))
         /\ m.results = <<>> => (Fresh(h) => Fresh(Append(h, m)))
<1> DEFINE g == Append(h, m)
           idle == \A k \in 1..Len(m.results) : m.results[k].id = <<Len(h) + 1, k>>
<1>1. /\ Kempt(g) /\ Len(g) = Len(h) + 1
      /\ \A i \in 1..Len(h) : g[i] = h[i]
      /\ Compactions(g) = Compactions(h) \cup (IF m.role = "boundary" THEN {Len(h) + 1} ELSE {})
      /\ Compactions(h) \subseteq 1..Len(h)
      /\ Fresh(h) /\ idle => Fresh(g)
  BY AppendedIs
<1>2. m.results = <<>> => idle
  <2> SUFFICES ASSUME m.results = <<>> PROVE idle
    OBVIOUS
  <2>1. Len(m.results) = 0
    OBVIOUS
  <2>2. 1..0 = {}
    OBVIOUS
  <2> QED
    BY <2>1, <2>2
<1> HIDE DEF g, idle
<1>3. Compactions(g) = Compactions(h)
  BY <1>1
<1>4. m.results = <<>> => (Fresh(h) => Fresh(g))
  BY <1>1, <1>2
<1> QED
  BY <1>1, <1>3, <1>4 DEF g, idle

LEMMA SaysKeeps ==
  ASSUME PackInv, NEW q \in Questions, Says(q[1], q[2]) PROVE PackInv'
<1> DEFINE m == [NewMessage("user", q[1]) EXCEPT !.extra = q[2]]
<1>1. /\ setting' = setting /\ history' = Append(history, m) /\ loaded' = CutOf(history) + 1
      /\ memories' = memories /\ pack' = pack /\ step' = "pack"
  BY DEF Says
<1>2. /\ setting \in Settings /\ Kempt(history) /\ (setting.ids = "fresh" => Fresh(history))
      /\ memories \in Seq(Memos) /\ Len(memories) <= MemoriesHold
      /\ pack.in \subseteq DOMAIN pack.items
  BY DEF PackInv
<1>3. history \in Seq(Records) /\ Len(history) \in Nat /\ DOMAIN history = 1..Len(history)
  BY <1>2, LenProperties DEF Kempt
<1>4. MessageOf(m, "user", 0, <<>>)
  <2>1. q[1] \in Nat /\ q[2] \in Nat /\ "user" \in Roles
    BY PackAssumption DEF Roles
  <2> QED
    BY <2>1, NewMessageIs
<1> HIDE DEF m
<1>5. m \in Records /\ m.role = "user" /\ m.until = 0 /\ m.results = <<>>
  BY <1>4 DEF MessageOf
<1>6. m.until < Len(history) + 1 /\ m.role # "boundary"
  BY <1>3, <1>5
<1>7. /\ Kempt(history') /\ Len(history') = Len(history) + 1
      /\ \A i \in 1..Len(history) : history'[i] = history[i]
      /\ Compactions(history') = Compactions(history)
      /\ Compactions(history) \subseteq 1..Len(history)
      /\ Fresh(history) => Fresh(history')
  BY <1>1, <1>2, <1>3, <1>5, <1>6, SpokenOn
<1>8. CutOf(history) \in Nat /\ loaded' \in 1..(Len(history) + 1)
  BY <1>1, <1>2, <1>3, CutOfIs DEF Kempt
<1>9. loaded' \in 1..(Len(history') + 1)
  BY <1>3, <1>7, <1>8
<1>10. Placeable(history)'
  <2>1. CutOf(history') = CutOf(history)
    BY <1>1, <1>2, <1>5, <1>6, CutOn
  <2>2. (CutOf(history))' = CutOf(history')
    BY DEF CutOf, Latest, Compactions, LastIn
  <2>3. (CutOf(history))' < loaded'
    BY <1>1, <1>8, <2>1, <2>2
  <2> QED
    BY <2>3 DEF Placeable
<1> QED
  BY <1>1, <1>2, <1>7, <1>9, <1>10 DEF PackInv

(* The results of an answer's calls.                                       *)
LEMMA ResultsAre ==
  ASSUME NEW sizes \in Seq(Nat), Len(history) \in Nat
  PROVE  LET results == [k \in DOMAIN sizes |-> [id |-> CallId(k), size |-> sizes[k]]] IN
         /\ results \in Seq([id : Nat \X Nat, size : Nat]) /\ Len(results) = Len(sizes)
         /\ setting.ids = "fresh" =>
              \A k \in 1..Len(results) : results[k].id = <<Len(history) + 1, k>>
<1> DEFINE Result(k) == [id |-> CallId(k), size |-> sizes[k]]
           T == [id : Nat \X Nat, size : Nat]
           results == [k \in DOMAIN sizes |-> Result(k)]
<1>1. Len(sizes) \in Nat /\ DOMAIN sizes = 1..Len(sizes) /\ \A k \in 1..Len(sizes) : sizes[k] \in Nat
  BY LenProperties
<1>2. ASSUME NEW k \in 1..Len(sizes)
      PROVE  Result(k) \in T /\ (setting.ids = "fresh" => Result(k).id = <<Len(history) + 1, k>>)
  <2>1. k \in Nat /\ 0 \in Nat /\ Len(history) + 1 \in Nat
    BY <1>1
  <2>2. CallId(k) \in Nat \X Nat /\ (setting.ids = "fresh" => CallId(k) = <<Len(history) + 1, k>>)
    BY <2>1 DEF CallId
  <2>3. sizes[k] \in Nat
    BY <1>1, <1>2
  <2> QED
    BY <2>2, <2>3
<1> HIDE DEF Result, T
<1>3. DOMAIN results = 1..Len(sizes) /\ \A k \in 1..Len(sizes) : results[k] = Result(k)
  BY <1>1
<1>4. results = [k \in 1..Len(sizes) |-> results[k]]
  BY <1>1, <1>3
<1>5. \A k \in 1..Len(sizes) : results[k] \in T
  BY <1>2, <1>3
<1> HIDE DEF results
<1>6. results \in Seq(T)
  BY <1>1, <1>3, <1>4, <1>5, IsASeq
<1>7. Len(results) = Len(sizes)
  BY <1>1, <1>3, <1>6, LenProperties
<1>8. setting.ids = "fresh" => \A k \in 1..Len(results) : results[k].id = <<Len(history) + 1, k>>
  BY <1>2, <1>3, <1>7
<1> QED
  BY <1>6, <1>7, <1>8 DEF results, Result, T

LEMMA CallsKeeps ==
  ASSUME PackInv, NEW a \in Replies, Calls(a[1], a[2], a[3]) PROVE PackInv'
<1> DEFINE results == [k \in DOMAIN a[2] |-> [id |-> CallId(k), size |-> a[2][k]]]
           m == [NewMessage("assistant", a[1]) EXCEPT !.results = results, !.skill = a[3]]
<1>1. /\ setting' = setting /\ history' = Append(history, m) /\ loaded' = loaded
      /\ memories' = memories /\ pack' = pack /\ step = "model"
      /\ step' = (IF a[2] = <<>> THEN "idle" ELSE "pack")
  BY DEF Calls
<1>2. /\ setting \in Settings /\ Kempt(history) /\ (setting.ids = "fresh" => Fresh(history))
      /\ loaded \in 1..(Len(history) + 1)
      /\ memories \in Seq(Memos) /\ Len(memories) <= MemoriesHold
      /\ Placeable(history) /\ pack.in \subseteq DOMAIN pack.items
  BY <1>1 DEF PackInv
<1>3. history \in Seq(Records) /\ Len(history) \in Nat
  BY <1>2, LenProperties DEF Kempt
<1>4. a[1] \in Nat /\ a[2] \in Seq(Nat) /\ a[3] \in BOOLEAN
  BY PackAssumption
<1>5. /\ results \in Seq([id : Nat \X Nat, size : Nat])
      /\ setting.ids = "fresh" =>
           \A k \in 1..Len(results) : results[k].id = <<Len(history) + 1, k>>
  BY <1>3, <1>4, ResultsAre
<1> HIDE DEF results
<1>6. MessageOf(m, "assistant", 0, results)
  <2>1. "assistant" \in Roles
    BY DEF Roles
  <2> QED
    BY <1>4, <1>5, <2>1, NewMessageIs
<1> HIDE DEF m
<1>7. m \in Records /\ m.role = "assistant" /\ m.until = 0 /\ m.results = results
  BY <1>6 DEF MessageOf
<1>8. m.until < Len(history) + 1 /\ m.role # "boundary"
  BY <1>3, <1>7
<1>9. /\ Kempt(history') /\ Len(history') = Len(history) + 1
      /\ Fresh(history) /\ (\A k \in 1..Len(m.results) : m.results[k].id = <<Len(history) + 1, k>>)
           => Fresh(history')
  BY <1>1, <1>2, <1>7, <1>8, SpokenOn
<1>10. setting.ids = "fresh" => Fresh(history')
  BY <1>2, <1>5, <1>7, <1>9
<1>11. Placeable(history)'
  BY <1>1, <1>2, <1>7, <1>8, PlaceableOn
<1>12. loaded' \in 1..(Len(history') + 1)
  BY <1>1, <1>2, <1>3, <1>9
<1>13. step' \in {"idle", "pack"}
  BY <1>1
<1> QED
  BY <1>1, <1>2, <1>9, <1>10, <1>11, <1>12, <1>13 DEF PackInv

LEMMA UndoesKeeps ==
  ASSUME PackInv, NEW i \in DOMAIN history, Undoes(i) PROVE PackInv'
<1>1. /\ setting' = setting /\ history' = [history EXCEPT ![i].role = "undone"]
      /\ loaded' = loaded /\ pack' = pack /\ step' = "idle"
      /\ memories' = [k \in DOMAIN memories |->
                        [memories[k] EXCEPT !.active = @ /\ memories[k].of # i]]
  BY DEF Undoes
<1>2. /\ setting \in Settings /\ Kempt(history) /\ (setting.ids = "fresh" => Fresh(history))
      /\ loaded \in 1..(Len(history) + 1)
      /\ memories \in Seq(Memos) /\ Len(memories) <= MemoriesHold
      /\ pack.in \subseteq DOMAIN pack.items
  BY DEF PackInv
<1>3. history \in Seq(Records) /\ Len(history) \in Nat /\ i \in 1..Len(history)
  BY <1>2, LenProperties DEF Kempt
<1>4. Kempt(history') /\ Len(history') = Len(history) /\ (Fresh(history) => Fresh(history'))
  <2> DEFINE next == history'
  <2>1. next = [history EXCEPT ![i].role = "undone"] /\ Kempt(history)
    BY <1>1, <1>2
  <2> HIDE DEF next
  <2>2. Kempt(next) /\ Len(next) = Len(history) /\ (Fresh(history) => Fresh(next))
    <3>1. i \in 1..Len(history)
      BY <1>3
    <3>2. \A g : g = [history EXCEPT ![i].role = "undone"] =>
                Kempt(g) /\ Len(g) = Len(history) /\ (Fresh(history) => Fresh(g))
      BY <2>1, <3>1, UndoneIs
    <3> QED
      BY <2>1, <3>2
  <2> QED
    BY <2>2 DEF next
<1>5. memories' \in Seq(Memos) /\ Len(memories') = Len(memories)
  <2>1. DOMAIN memories' = DOMAIN memories
    BY <1>1
  <2>2. memories' = [k \in DOMAIN memories |-> memories'[k]]
    BY <1>1
  <2>3. ASSUME NEW k \in DOMAIN memories
        PROVE  \E on \in BOOLEAN : memories'[k] = [memories[k] EXCEPT !.active = on]
    <3>1. memories[k] \in Memos
      BY <1>2, LenProperties
    <3>2. (memories[k].active /\ memories[k].of # i) \in BOOLEAN
      BY <3>1 DEF Memos
    <3>3. memories'[k] = [memories[k] EXCEPT !.active = memories[k].active /\ memories[k].of # i]
      BY <1>1, <2>3
    <3> QED
      BY <3>2, <3>3
  <2> QED
    BY <1>2, <2>2, <2>3, MemosOn
<1> QED
  BY <1>1, <1>2, <1>4, <1>5 DEF PackInv

LEMMA SwitchesKeeps ==
  ASSUME PackInv, NEW k \in DOMAIN memories, Switches(k) PROVE PackInv'
<1>1. /\ setting' = setting /\ history' = history /\ loaded' = loaded /\ pack' = pack
      /\ step' = "idle" /\ memories' = [memories EXCEPT ![k].active = ~@]
  BY DEF Switches
<1>2. /\ setting \in Settings /\ Kempt(history) /\ (setting.ids = "fresh" => Fresh(history))
      /\ loaded \in 1..(Len(history) + 1)
      /\ memories \in Seq(Memos) /\ Len(memories) <= MemoriesHold
      /\ pack.in \subseteq DOMAIN pack.items
  BY DEF PackInv
<1>3. memories' \in Seq(Memos) /\ Len(memories') = Len(memories)
  <2>1. memories' = [j \in DOMAIN memories |-> memories'[j]]
    BY <1>1
  <2>2. ASSUME NEW j \in DOMAIN memories
        PROVE  \E on \in BOOLEAN : memories'[j] = [memories[j] EXCEPT !.active = on]
    <3>1. memories[j] \in Memos
      BY <1>2, LenProperties
    <3>2. memories[j].active \in BOOLEAN /\ (~memories[j].active) \in BOOLEAN
      BY <3>1 DEF Memos
    <3>3. CASE j = k
      <4>1. memories'[j] = [memories[j] EXCEPT !.active = ~memories[j].active]
        BY <1>1, <2>2, <3>3
      <4> QED
        BY <3>2, <4>1
    <3>4. CASE j # k
      <4>1. memories'[j] = memories[j]
        BY <1>1, <2>2, <3>4
      <4>2. memories[j] = [memories[j] EXCEPT !.active = memories[j].active]
        BY <3>1 DEF Memos
      <4> QED
        BY <3>2, <4>1, <4>2
    <3> QED
      BY <3>3, <3>4
  <2> QED
    BY <1>2, <2>1, <2>2, MemosOn
<1> QED
  BY <1>1, <1>2, <1>3 DEF PackInv

LEMMA PackStutters == ASSUME PackInv, UNCHANGED packVars PROVE PackInv'
<1>1. /\ setting' = setting /\ history' = history /\ loaded' = loaded /\ memories' = memories
      /\ pack' = pack /\ step' = step
  BY DEF packVars
<1>2. (PackOf(history, memories))' = PackOf(history, memories)
  BY <1>1, PackOfStays
<1>3. Placeable(history)' <=> Placeable(history)
  BY <1>1 DEF Placeable, Holds, CutOf, Latest, Compactions, LastIn
<1> QED
  BY <1>1, <1>2, <1>3 DEF PackInv

LEMMA PackInvNext == ASSUME PackInv, [PackNext]_packVars PROVE PackInv'
<1>1. CASE SendsAsIs
  BY <1>1, SendsAsIsKeeps
<1>2. CASE CompactsFirst
  BY <1>2, CompactsFirstKeeps
<1>3. CASE Compacts
  BY <1>3, CompactsKeeps
<1>4. CASE \E q \in Questions : Says(q[1], q[2])
  BY <1>4, SaysKeeps
<1>5. CASE \E a \in Replies : Calls(a[1], a[2], a[3])
  BY <1>5, CallsKeeps
<1>6. CASE \E i \in DOMAIN history : Undoes(i)
  BY <1>6, UndoesKeeps
<1>7. CASE \E k \in DOMAIN memories : Switches(k)
  BY <1>7, SwitchesKeeps
<1>8. CASE UNCHANGED packVars
  BY <1>8, PackStutters
<1> QED
  BY <1>1, <1>2, <1>3, <1>4, <1>5, <1>6, <1>7, <1>8 DEF PackNext

LEMMA PackInvAlways == PackSpec => []PackInv
<1>1. PackInit => PackInv
  BY PackInvInit
<1>2. PackInv /\ [PackNext]_packVars => PackInv'
  BY PackInvNext
<1> QED
  BY <1>1, <1>2, PTL DEF PackSpec

-----------------------------------------------------------------------------
(* The theorems.                                                           *)

LEMMA PackInvTypes == ASSUME PackInv PROVE PackTypeOK
<1>1. history \in Seq(Records) /\ Sane(history) /\ Len(history) \in Nat
      /\ DOMAIN history = 1..Len(history)
  BY LenProperties DEF PackInv, Kempt
<1>2. ASSUME NEW i \in DOMAIN history
      PROVE  history[i].role \in {"user", "assistant", "boundary", "undone"}
             /\ history[i].until < i
  BY <1>1, <1>2, EntryIs DEF Sane, Roles
<1> QED
  BY <1>2 DEF PackTypeOK, PackInv

(* Sessions keep their types: what a message replaces was said before it,  *)
(* a turn loads messages the transcript has, and a workspace keeps no more *)
(* memories than it may.                                                   *)
THEOREM PackTypeCorrect == PackSpec => []PackTypeOK
BY PackInvAlways, PackInvTypes, PTL

LEMMA PackInvTraces ==
  ASSUME PackInv, setting.ids = "fresh" PROVE TraceExplainsAll
<1> SUFFICES ASSUME step \in {"model", "failed"}
             PROVE  /\ \A m \in ToSet(Conversation(history)) : MessageItem(m, FALSE).name \in Names(pack)
                    /\ Cardinality({i \in DOMAIN pack.items : pack.items[i].kind = "tool_result"})
                         = Cardinality({i \in DOMAIN Conversation(history) :
                                          Conversation(history)[i].role = "tool"})
  BY DEF TraceExplainsAll
<1> DEFINE p == PackOf(history, memories)
           q == p.items
<1>1. /\ setting \in Settings /\ history \in Seq(Records) /\ Sane(history) /\ Fresh(history)
      /\ memories \in Seq(Memos) /\ pack = p
  BY DEF PackInv, Kempt
<1>2. /\ Pack(q) /\ Tells(history, memories, q)
      /\ \A i, j \in DOMAIN q : q[i].name = q[j].name => i = j
  BY <1>1, PackOfIs
<1>3. pack.items = q
  BY <1>1
<1> HIDE DEF p, q
<1>4. /\ \A m \in ToSet(Conversation(history)) :
           MessageItem(m, FALSE).name \in {q[i].name : i \in DOMAIN q}
      /\ Cardinality({i \in DOMAIN q : q[i].kind = "tool_result"})
           = Cardinality({i \in DOMAIN Conversation(history) :
                            Conversation(history)[i].role = "tool"})
  BY <1>1, <1>2, TraceIs
<1> QED
  BY <1>3, <1>4 DEF Names

LEMMA PackInvSounds ==
  ASSUME PackInv, setting.ids = "fresh" PROVE PacksAreSound
<1> DEFINE whole == Whole(history, memories)
           items == pack.items
           all == {i \in DOMAIN whole : whole[i].sent}
<1>1. /\ setting \in Settings /\ history \in Seq(Records) /\ Sane(history)
      /\ memories \in Seq(Memos) /\ loaded \in Nat
  BY DEF PackInv, Kempt
<1>2. ASSUME step \in {"model", "failed"}
      PROVE  /\ step = "failed" <=> pack.overflowed
             /\ KeepsBudget(pack) /\ HoldsRequired(whole, pack)
             /\ LacksRoom(whole, pack) /\ DropsNothing(whole, pack)
             /\ Tells(history, memories, items)
  <2>1. pack = PackOf(history, memories) /\ (step = "failed" <=> pack.overflowed)
    BY <1>2 DEF PackInv
  <2> HIDE DEF whole
  <2>2. LET p == PackOf(history, memories)
        IN /\ KeepsBudget(p) /\ HoldsRequired(whole, p)
           /\ LacksRoom(whole, p) /\ DropsNothing(whole, p)
           /\ Tells(history, memories, p.items)
    BY <1>1, PackOfIs DEF whole
  <2> QED
    BY <2>1, <2>2
<1> HIDE DEF whole
<1>3. step = "model" => /\ Total(items, Sent(pack)) <= ItemBudget
                        /\ \A i \in Required(whole) : items[i].repeats \/ i \in pack.in
  BY <1>2 DEF KeepsBudget, HoldsRequired
<1>4. step = "failed" /\ setting.strategy # "error" =>
        Overhead > setting.limit \/ LeastRequired(whole) > ItemBudget
  BY <1>2 DEF LacksRoom
<1>5. step \in {"model", "failed"} =>
        (Total(whole, all) <= ItemBudget =>
           \A i \in all : items[i].size = whole[i].size /\ (items[i].repeats \/ i \in pack.in))
  BY <1>2 DEF DropsNothing
<1>6. step \in {"model", "failed"} =>
        /\ {i \in DOMAIN items : items[i].kind = "work_state"} = {} <=> Compactions(history) = {}
        /\ \A i \in DOMAIN items :
             items[i].kind = "memory" =>
               \E k \in DOMAIN memories : memories[k].active
                                          /\ items[i].name = <<"memory", memories[k].of>>
  BY <1>1, <1>2, TellsOnly
<1>7. TraceExplainsAll
  BY PackInvTraces
<1>8. step \in {"model", "failed"} =>
        \A m \in ToSet(Conversation(history)) :
           \/ m.msg > CutOf(history) \/ history[m.msg].skill
           \/ m.msg = CutOf(history) /\ m.role = "tool"
  <2>1. step \in {"model", "failed"} => Placeable(history)
    BY DEF PackInv
  <2> QED
    BY <1>1, <2>1, ReplacedIs
<1>9. LeastRequired(whole)
        = MapThenSumSet(LAMBDA i : Least(whole[i].size, HardFloor), Required(whole))
  BY DEF LeastRequired
<1>10. whole = Previewed(Deduped(Collected(history, memories)))
  BY DEF whole, Whole
<1> QED
  BY <1>3, <1>4, <1>5, <1>6, <1>7, <1>8, <1>9, <1>10 DEF PacksAreSound

(* Packs are sound: a request keeps to its budget and holds everything     *)
(* required; a turn fails for lack of room only when what is required has  *)
(* none even when cut down to the floor; nothing is cut or left out while  *)
(* all of it fits; the trace of a pack names everything of the session;    *)
(* it holds the latest summary and, of what that replaces, nothing but     *)
(* answers that loaded a skill and results of the answer the cut fell on;  *)
(* and no memory that is switched off.  Calls have ids of their own: a     *)
(* provider that numbers them anew in every answer loses results.          *)
THEOREM PacksSound ==
  ASSUME IdSchemes = {"fresh"}
  PROVE  PackSpec => []PacksAreSound
<1>1. PackInv => setting.ids = "fresh"
  BY DEF PackInv, Settings
<1>2. PackInv => PacksAreSound
  BY <1>1, PackInvSounds
<1> QED
  BY <1>2, PackInvAlways, PTL
=============================================================================
