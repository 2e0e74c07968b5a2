----------------------------- MODULE OrdersProofs -----------------------------
(***************************************************************************)
(* What the operators of Orders return.                                    *)
(***************************************************************************)
EXTENDS Orders, FiniteSetTheorems, SequenceTheorems, WellFoundedInduction, TLAPS

\* Each number up to the size of the set is the rank of one element.
LEMMA RanksAreFilled ==
  ASSUME NEW S, IsFiniteSet(S), NEW key, \A e \in S : key[e] \in Nat,
         \A d, e \in S : key[d] = key[e] => d = e
  PROVE  /\ Cardinality(S) \in Nat
         /\ \A k \in 1..Cardinality(S) :
              \E e \in S : Cardinality({d \in S : key[d] <= key[e]}) = k
         /\ \A d, e \in S : key[d] < key[e] =>
              Cardinality({c \in S : key[c] <= key[d]}) < Cardinality({c \in S : key[c] <= key[e]})
<1> DEFINE upTo(e) == {d \in S : key[d] <= key[e]}
           n == Cardinality(S)
           rank == [e \in S |-> Cardinality(upTo(e))]
<1>1. n \in Nat
  BY FS_CardinalityType
<1>2. ASSUME NEW e \in S
      PROVE  IsFiniteSet(upTo(e)) /\ Cardinality(upTo(e)) \in 1..n
  <2>1. upTo(e) \in SUBSET S /\ e \in upTo(e)
    OBVIOUS
  <2> HIDE DEF upTo
  <2>2. IsFiniteSet(upTo(e)) /\ Cardinality(upTo(e)) <= n
    BY <2>1, FS_Subset
  <2>3. Cardinality(upTo(e)) \in Nat /\ Cardinality(upTo(e)) # 0
    BY <2>1, <2>2, FS_CardinalityType, FS_EmptySet
  <2> QED
    BY <1>1, <2>2, <2>3
<1>3. ASSUME NEW d \in S, NEW e \in S, key[d] < key[e]
      PROVE  Cardinality(upTo(d)) < Cardinality(upTo(e))
  <2>1. upTo(d) \in SUBSET upTo(e) /\ e \in upTo(e) /\ e \notin upTo(d)
    BY <1>3
  <2>2. IsFiniteSet(upTo(e)) /\ Cardinality(upTo(e)) \in Nat /\ Cardinality(upTo(d)) \in Nat
    BY <1>2
  <2> HIDE DEF upTo
  <2>3. /\ Cardinality(upTo(d)) <= Cardinality(upTo(e))
        /\ Cardinality(upTo(e)) = Cardinality(upTo(d)) => upTo(e) = upTo(d)
    BY <2>1, <2>2, FS_Subset
  <2> QED
    BY <2>1, <2>2, <2>3
<1> HIDE DEF upTo
<1>4. rank \in Injection(S, 1..n)
  <2>1. rank \in [S -> 1..n]
    BY <1>2
  <2>2. ASSUME NEW d \in S, NEW e \in S, rank[d] = rank[e] PROVE d = e
    <3>1. Cardinality(upTo(d)) = Cardinality(upTo(e)) /\ Cardinality(upTo(d)) \in Nat
      BY <1>2, <2>2
    <3>2. ~(key[d] < key[e]) /\ ~(key[e] < key[d])
      BY <1>3, <3>1
    <3> QED
      BY <3>2
  <2> QED
    BY <2>1, <2>2 DEF Injection, IsInjective
<1>5. IsFiniteSet(1..n) /\ Cardinality(1..n) = n
  BY <1>1, FS_Interval
<1>6. rank \in Surjection(S, 1..n)
  BY <1>4, <1>5, FS_Injection
<1>7. \A k \in 1..n : \E e \in S : Cardinality(upTo(e)) = k
  BY <1>6 DEF Surjection
<1> QED
  BY <1>1, <1>3, <1>7 DEF upTo

\* The elements of a set, by increasing key, each of them once.
LEMMA InOrderSorts ==
  ASSUME NEW S, IsFiniteSet(S), NEW key, \A e \in S : key[e] \in Nat,
         \A d, e \in S : key[d] = key[e] => d = e
  PROVE  /\ InOrder(S, key) \in Seq(S)
         /\ \A i, j \in 1..Len(InOrder(S, key)) :
              i < j => key[InOrder(S, key)[i]] < key[InOrder(S, key)[j]]
         /\ \A e \in S : \E i \in 1..Len(InOrder(S, key)) : InOrder(S, key)[i] = e
<1> DEFINE n == Cardinality(S)
           rank(e) == Cardinality({d \in S : key[d] <= key[e]})
           q == InOrder(S, key)
<1>1. /\ n \in Nat /\ \A k \in 1..n : \E e \in S : rank(e) = k
      /\ \A d, e \in S : key[d] < key[e] => rank(d) < rank(e)
  BY RanksAreFilled
<1>2. q = [k \in 1..n |-> CHOOSE e \in S : rank(e) = k]
  BY DEF InOrder
<1>3. \A e \in S : rank(e) \in 1..n
  <2> SUFFICES ASSUME NEW e \in S PROVE rank(e) \in 1..n
    OBVIOUS
  <2> DEFINE U == {d \in S : key[d] <= key[e]}
  <2>1. U \in SUBSET S /\ e \in U
    OBVIOUS
  <2> HIDE DEF U
  <2>2. IsFiniteSet(U) /\ Cardinality(U) <= n
    BY <2>1, FS_Subset
  <2>3. Cardinality(U) \in Nat /\ Cardinality(U) # 0
    BY <2>1, <2>2, FS_CardinalityType, FS_EmptySet
  <2>4. Cardinality(U) \in 1..n
    BY <1>1, <2>2, <2>3
  <2> QED
    BY <2>4 DEF U
<1> HIDE DEF q, n, rank
<1>4. \A k \in 1..n : q[k] \in S /\ rank(q[k]) = k
  BY <1>1, <1>2
<1>5. q \in Seq(S) /\ Len(q) = n
  BY <1>1, <1>2, <1>4, LenProperties, IsASeq
<1>6. \A i, j \in 1..n : i < j => key[q[i]] < key[q[j]]
  <2> SUFFICES ASSUME NEW i \in 1..n, NEW j \in 1..n, i < j PROVE key[q[i]] < key[q[j]]
    OBVIOUS
  <2>1. q[i] \in S /\ q[j] \in S /\ rank(q[i]) = i /\ rank(q[j]) = j
    BY <1>4
  <2>2. ~(key[q[j]] < key[q[i]])
    BY <1>1, <2>1
  <2>3. key[q[i]] # key[q[j]]
    BY <2>1
  <2> QED
    BY <2>1, <2>2, <2>3
<1>7. \A e \in S : \E i \in 1..n : q[i] = e
  <2> SUFFICES ASSUME NEW e \in S PROVE q[rank(e)] = e /\ rank(e) \in 1..n
    OBVIOUS
  <2>1. rank(e) \in 1..n /\ q[rank(e)] \in S /\ rank(q[rank(e)]) = rank(e)
    BY <1>3, <1>4
  <2>2. ~(key[q[rank(e)]] < key[e]) /\ ~(key[e] < key[q[rank(e)]])
    BY <1>1, <2>1
  <2> QED
    BY <2>1, <2>2
<1> QED
  BY <1>5, <1>6, <1>7 DEF q

\* What is retained stands in the order it stood in, and nothing else is lost.
LEMMA RetainKeeps ==
  ASSUME NEW A, NEW q \in Seq(A), NEW keep, NEW r, r = Retain(q, keep)
  PROVE  /\ r \in Seq(A)
         /\ \E place \in [1..Len(r) -> 1..Len(q)] :
              /\ \A i \in 1..Len(r) : r[i] = q[place[i]] /\ q[place[i]] \in keep
              /\ \A i, j \in 1..Len(r) : i < j => place[i] < place[j]
              /\ \A k \in 1..Len(q) : q[k] \in keep => \E i \in 1..Len(r) : place[i] = k
<1> DEFINE P == {i \in DOMAIN q : q[i] \in keep}
           key == [i \in P |-> i]
           order == InOrder(P, key)
<1>1. Len(q) \in Nat /\ DOMAIN q = 1..Len(q) /\ \A i \in 1..Len(q) : q[i] \in A
  BY LenProperties
<1>2. P \subseteq 1..Len(q) /\ \A i \in P : q[i] \in keep
  BY <1>1
<1>3. \A i \in 1..Len(q) : q[i] \in keep => i \in P
  BY <1>1
<1>4. r = [k \in DOMAIN order |-> q[order[k]]]
  BY DEF Retain
<1> HIDE DEF P
<1>5. IsFiniteSet(P)
  <2>1. IsFiniteSet(1..Len(q))
    BY <1>1, FS_Interval
  <2> QED
    BY <1>2, <2>1, FS_Subset
<1>6. (\A e \in P : key[e] \in Nat) /\ (\A d, e \in P : key[d] = key[e] => d = e)
  BY <1>1, <1>2
<1>7. /\ order \in Seq(P)
      /\ \A i, j \in 1..Len(order) : i < j => key[order[i]] < key[order[j]]
      /\ \A e \in P : \E i \in 1..Len(order) : order[i] = e
  <2> HIDE DEF key
  <2> QED
    BY <1>5, <1>6, InOrderSorts
<1> HIDE DEF order
<1>8. /\ Len(order) \in Nat /\ DOMAIN order = 1..Len(order)
      /\ \A i \in 1..Len(order) : order[i] \in P
  BY <1>7, LenProperties
<1>9. \A i, j \in 1..Len(order) : i < j => order[i] < order[j]
  BY <1>7, <1>8
<1> HIDE DEF key
<1>10. \A i \in 1..Len(order) : q[order[i]] \in A /\ r[i] = q[order[i]]
  BY <1>1, <1>2, <1>4, <1>8
<1>11. r \in Seq(A) /\ Len(r) = Len(order)
  BY <1>4, <1>8, <1>10, LenProperties, IsASeq
<1>12. order \in [1..Len(r) -> 1..Len(q)]
  <2>1. order \in [1..Len(order) -> P]
    BY <1>7, LenProperties
  <2> QED
    BY <1>2, <1>11, <2>1
<1> QED
  <2>1. \A i \in 1..Len(r) : r[i] = q[order[i]] /\ q[order[i]] \in keep
    BY <1>2, <1>8, <1>10, <1>11
  <2>2. \A k \in 1..Len(q) : q[k] \in keep => \E i \in 1..Len(r) : order[i] = k
    BY <1>3, <1>7, <1>11
  <2> QED
    BY <1>9, <1>11, <1>12, <2>1, <2>2

\* Numbers: the least of them, and what holds of each next one holds of all.
LEMMA LeastNat ==
  ASSUME NEW T \in SUBSET Nat, T # {}
  PROVE  \E x \in T : \A y \in T : x <= y
<1>1. PICK x \in T : \A y \in T : ~ (<<y, x>> \in OpToRel(<, Nat))
  BY NatLessThanWellFounded, WFMin
<1>2. \A y \in T : ~ (y < x)
  BY <1>1 DEF OpToRel
<1> QED
  BY <1>2

LEMMA SetInduction ==
  ASSUME NEW S \in SUBSET Nat, 0 \in S, \A n \in S : n + 1 \in S
  PROVE  S = Nat
<1> SUFFICES ASSUME S # Nat PROVE FALSE
  OBVIOUS
<1>1. PICK x \in Nat \ S : \A y \in Nat \ S : x <= y
  BY LeastNat
<1>2. x # 0
  BY <1>1
<1>3. x - 1 \in Nat /\ x - 1 \in S
  BY <1>1, <1>2
<1>4. (x - 1) + 1 \in S
  BY <1>3
<1> QED
  BY <1>1, <1>4

\* The numbers up to one are that many.
LEMMA UpTo ==
  ASSUME NEW n \in Nat
  PROVE  IsFiniteSet(1..n) /\ Cardinality(1..n) = n
<1>1. IsFiniteSet(1..n) /\ Cardinality(1..n) = IF 1 > n THEN 0 ELSE n - 1 + 1
  BY FS_Interval
<1> QED
  BY <1>1

\* What is retained of a sequence when exactly a stretch of it is to be kept.
LEMMA RetainStretch ==
  ASSUME NEW A, NEW q \in Seq(A), NEW keep, NEW a \in Nat \ {0}, NEW b \in Nat,
         b <= Len(q), a <= b + 1,
         \A i \in 1..Len(q) : q[i] \in keep <=> (a <= i /\ i <= b)
  PROVE  Retain(q, keep) = SubSeq(q, a, b)
<1> DEFINE P == {i \in DOMAIN q : q[i] \in keep}
           key == [i \in P |-> i]
           n == b - a + 1
<1>1. Len(q) \in Nat /\ DOMAIN q = 1..Len(q) /\ \A i \in 1..Len(q) : q[i] \in A
  BY LenProperties
<1>2. P = a..b
  BY <1>1
<1>3. n \in Nat /\ Cardinality(P) = n
  <2>1. Cardinality(a..b) = IF a > b THEN 0 ELSE b - a + 1
    BY FS_Interval
  <2>2. n \in Nat /\ (a > b => n = 0)
    BY <1>1
  <2> QED
    BY <1>2, <2>1, <2>2
<1>4. \A e \in P : Cardinality({d \in P : key[d] <= key[e]}) = e - a + 1
  <2> SUFFICES ASSUME NEW e \in P PROVE Cardinality({d \in P : key[d] <= key[e]}) = e - a + 1
    OBVIOUS
  <2>1. e \in a..b
    BY <1>2
  <2>2. {d \in P : key[d] <= key[e]} = a..e
    BY <1>2, <2>1
  <2>3. Cardinality(a..e) = e - a + 1
    BY <2>1, FS_Interval
  <2> QED
    BY <2>2, <2>3
<1>5. ASSUME NEW k \in 1..n PROVE InOrder(P, key)[k] = a + k - 1
  <2>1. InOrder(P, key)[k] = CHOOSE e \in P : Cardinality({d \in P : key[d] <= key[e]}) = k
    BY <1>3 DEF InOrder
  <2> DEFINE e == a + k - 1
  <2>2. e \in a..b /\ e - a + 1 = k
    BY <1>1
  <2>3. \A d \in a..b : d - a + 1 = k => d = e
    BY <1>1
  <2> HIDE DEF e, P, key
  <2>4. \E d \in P : Cardinality({c \in P : key[c] <= key[d]}) = k
    BY <1>2, <1>4, <2>2
  <2> QED
    BY <1>2, <1>4, <2>1, <2>3, <2>4 DEF e
<1>6. DOMAIN InOrder(P, key) = 1..n
  BY <1>3 DEF InOrder
<1>7. Retain(q, keep) = [k \in 1..n |-> q[InOrder(P, key)[k]]]
  BY <1>6 DEF Retain
<1>8. Retain(q, keep) = [k \in 1..n |-> q[a + k - 1]]
  <2> HIDE DEF P, key, n
  <2>1. \A k \in 1..n : InOrder(P, key)[k] = a + k - 1
    BY <1>5
  <2> QED
    BY <1>7, <2>1
<1>9. \A i \in a..b : q[i] \in A
  BY <1>1
<1>10. /\ SubSeq(q, a, b) \in Seq(A) /\ Len(SubSeq(q, a, b)) = n
       /\ \A k \in 1..n : SubSeq(q, a, b)[k] = q[a + k - 1]
  BY <1>3, <1>9, SubSeqProperties
<1>11. SubSeq(q, a, b) = [k \in 1..n |-> SubSeq(q, a, b)[k]]
  BY <1>10, LenProperties
<1> QED
  <2> HIDE DEF n
  <2> QED
    BY <1>8, <1>10, <1>11

\* What is sorted by a strict order of all its elements.
LEMMA SortedByOrders ==
  ASSUME NEW S, IsFiniteSet(S), NEW before,
         \A d \in S : <<d, d>> \notin before,
         \A c, d, e \in S : <<c, d>> \in before /\ <<d, e>> \in before => <<c, e>> \in before,
         \A d, e \in S : d = e \/ <<d, e>> \in before \/ <<e, d>> \in before
  PROVE  /\ SortedBy(S, before) \in Seq(S) /\ Len(SortedBy(S, before)) = Cardinality(S)
         /\ \A i, j \in 1..Len(SortedBy(S, before)) :
              i < j => <<SortedBy(S, before)[i], SortedBy(S, before)[j]>> \in before
         /\ \A e \in S : \E i \in 1..Len(SortedBy(S, before)) : SortedBy(S, before)[i] = e
<1> DEFINE under(e) == {d \in S : <<d, e>> \in before}
           n == Cardinality(S)
           rank == [e \in S |-> Cardinality(under(e)) + 1]
           q == SortedBy(S, before)
<1>1. n \in Nat
  BY FS_CardinalityType
<1>2. ASSUME NEW e \in S
      PROVE  IsFiniteSet(under(e)) /\ Cardinality(under(e)) \in Nat /\ Cardinality(under(e)) + 1 \in 1..n
  <2>1. under(e) \in SUBSET S /\ e \in S /\ e \notin under(e)
    OBVIOUS
  <2> HIDE DEF under
  <2>2. IsFiniteSet(under(e)) /\ Cardinality(under(e)) <= n /\ (n = Cardinality(under(e)) => S = under(e))
    BY <2>1, FS_Subset
  <2>3. Cardinality(under(e)) \in Nat
    BY <2>2, FS_CardinalityType
  <2> QED
    BY <1>1, <2>1, <2>2, <2>3
<1>3. ASSUME NEW d \in S, NEW e \in S, <<d, e>> \in before
      PROVE  Cardinality(under(d)) < Cardinality(under(e))
  <2>1. under(d) \in SUBSET under(e) /\ d \in under(e) /\ d \notin under(d)
    BY <1>3
  <2>2. IsFiniteSet(under(e)) /\ Cardinality(under(e)) \in Nat /\ Cardinality(under(d)) \in Nat
    BY <1>2
  <2> HIDE DEF under
  <2>3. /\ Cardinality(under(d)) <= Cardinality(under(e))
        /\ Cardinality(under(e)) = Cardinality(under(d)) => under(e) = under(d)
    BY <2>1, <2>2, FS_Subset
  <2> QED
    BY <2>1, <2>2, <2>3
<1> HIDE DEF under
<1>4. rank \in Injection(S, 1..n)
  <2>1. rank \in [S -> 1..n]
    BY <1>2
  <2>2. ASSUME NEW d \in S, NEW e \in S, rank[d] = rank[e] PROVE d = e
    <3>1. Cardinality(under(d)) = Cardinality(under(e)) /\ Cardinality(under(d)) \in Nat
      BY <1>2, <2>2
    <3>2. <<d, e>> \notin before /\ <<e, d>> \notin before
      BY <1>3, <3>1
    <3> QED
      BY <3>2
  <2> QED
    BY <2>1, <2>2 DEF Injection, IsInjective
<1>5. IsFiniteSet(1..n) /\ Cardinality(1..n) = n
  BY <1>1, UpTo
<1>6. rank \in Surjection(S, 1..n)
  BY <1>4, <1>5, FS_Injection
<1>7. \A k \in 1..n : \E e \in S : Cardinality(under(e)) = k - 1
  <2> SUFFICES ASSUME NEW k \in 1..n PROVE \E e \in S : Cardinality(under(e)) = k - 1
    OBVIOUS
  <2>1. PICK e \in S : rank[e] = k
    BY <1>6 DEF Surjection
  <2> QED
    BY <1>2, <2>1
<1>8. q = [k \in 1..n |-> CHOOSE e \in S : Cardinality(under(e)) = k - 1]
  BY DEF SortedBy, under
<1> HIDE DEF q, n
<1>9. \A k \in 1..n : q[k] \in S /\ Cardinality(under(q[k])) = k - 1
  BY <1>7, <1>8
<1>10. q \in Seq(S) /\ Len(q) = n
  BY <1>1, <1>8, <1>9, LenProperties, IsASeq
<1>11. \A i, j \in 1..n : i < j => <<q[i], q[j]>> \in before
  <2> SUFFICES ASSUME NEW i \in 1..n, NEW j \in 1..n, i < j PROVE <<q[i], q[j]>> \in before
    OBVIOUS
  <2>1. q[i] \in S /\ q[j] \in S /\ Cardinality(under(q[i])) = i - 1 /\ Cardinality(under(q[j])) = j - 1
    BY <1>9
  <2>2. <<q[j], q[i]>> \notin before
    BY <1>3, <2>1
  <2>3. q[i] # q[j]
    BY <2>1
  <2> QED
    BY <2>1, <2>2, <2>3
<1>12. \A e \in S : \E i \in 1..n : q[i] = e
  <2> SUFFICES ASSUME NEW e \in S PROVE \E i \in 1..n : q[i] = e
    OBVIOUS
  <2> DEFINE i == Cardinality(under(e)) + 1
  <2>1. i \in 1..n /\ i - 1 = Cardinality(under(e)) /\ Cardinality(under(e)) \in Nat
    BY <1>2
  <2>2. q[i] \in S /\ Cardinality(under(q[i])) = Cardinality(under(e))
    BY <1>9, <2>1
  <2>3. <<q[i], e>> \notin before /\ <<e, q[i]>> \notin before
    BY <1>3, <2>1, <2>2
  <2> QED
    BY <2>1, <2>2, <2>3
<1> QED
  BY <1>10, <1>11, <1>12 DEF q, n

\* Sums over the parts of a finite set, whichever element is taken first.
Summed(of, S, h) ==
  h = [s \in SUBSET S |->
         IF s = {} THEN 0
         ELSE of[CHOOSE x \in s : TRUE] + h[s \ {CHOOSE x \in s : TRUE}]]

Countable(of, S) == IsFiniteSet(S) /\ \A x \in S : of[x] \in Int

LEMMA SumAt ==
  ASSUME NEW of, NEW S, NEW h, Summed(of, S, h), NEW s \in SUBSET S
  PROVE  /\ s = {} => h[s] = 0
         /\ s # {} => \E x \in s : x = (CHOOSE y \in s : TRUE) /\ h[s] = of[x] + h[s \ {x}]
<1>1. h[s] = IF s = {} THEN 0
             ELSE of[CHOOSE x \in s : TRUE] + h[s \ {CHOOSE x \in s : TRUE}]
  BY DEF Summed
<1>2. s # {} => (CHOOSE y \in s : TRUE) \in s
  OBVIOUS
<1> QED
  BY <1>1, <1>2

\* A fold over a finite set, which takes the element `take` names first.
Folded(S, take, step, base, h) ==
  h = [s \in SUBSET S |-> IF s = {} THEN base ELSE step[take[s]][h[s \ {take[s]}]]]

LEMMA FoldExists ==
  ASSUME NEW S, IsFiniteSet(S), NEW take, \A s \in SUBSET S : s # {} => take[s] \in s,
         NEW A, NEW base \in A, NEW step, \A x \in S, a \in A : step[x][a] \in A
  PROVE  \E h \in [SUBSET S -> A] : Folded(S, take, step, base, h)
<1> DEFINE Upto(n) == {s \in SUBSET S : Cardinality(s) <= n}
           Body(h, s) == IF s = {} THEN base ELSE step[take[s]][h[s \ {take[s]}]]
           Good == {n \in Nat : \E h \in [Upto(n) -> A] : h = [s \in Upto(n) |-> Body(h, s)]}
<1>0. \A s \in SUBSET S : IsFiniteSet(s) /\ Cardinality(s) \in Nat
  BY FS_Subset, FS_CardinalityType
<1>1. 0 \in Good
  <2> DEFINE h == [s \in Upto(0) |-> base]
  <2>1. \A s \in Upto(0) : s = {}
    BY <1>0, FS_EmptySet
  <2>2. \A s \in Upto(0) : Body(h, s) = base
    BY <2>1
  <2>3. h = [s \in Upto(0) |-> Body(h, s)] /\ h \in [Upto(0) -> A]
    BY <2>2
  <2> QED
    BY <2>3
<1>2. ASSUME NEW n \in Good PROVE n + 1 \in Good
  <2>1. PICK h \in [Upto(n) -> A] : h = [s \in Upto(n) |-> Body(h, s)]
    OBVIOUS
  <2>2. n \in Nat
    OBVIOUS
  <2> DEFINE k == [s \in Upto(n + 1) |-> Body(h, s)]
  <2>3. \A s \in Upto(n + 1) : s # {} => take[s] \in S /\ (s \ {take[s]}) \in Upto(n)
    <3> SUFFICES ASSUME NEW s \in Upto(n + 1), s # {}
                 PROVE  take[s] \in S /\ (s \ {take[s]}) \in Upto(n)
      OBVIOUS
    <3>1. take[s] \in s
      OBVIOUS
    <3>2. Cardinality(s \ {take[s]}) = Cardinality(s) - 1
      BY <1>0, <3>1, FS_RemoveElement
    <3>3. Cardinality(s \ {take[s]}) <= n
      BY <1>0, <2>2, <3>2
    <3> QED
      BY <3>1, <3>3
  <2>4. \A s \in Upto(n) : s \in Upto(n + 1)
    BY <1>0, <2>2
  <2>5. \A s \in Upto(n) : k[s] = h[s]
    <3> HIDE DEF Body
    <3> QED
      BY <2>1, <2>4
  <2>6. k \in [Upto(n + 1) -> A]
    <3> SUFFICES ASSUME NEW s \in Upto(n + 1) PROVE Body(h, s) \in A
      OBVIOUS
    <3>1. CASE s = {}
      BY <3>1
    <3>2. CASE s # {}
      <4>1. take[s] \in S /\ h[s \ {take[s]}] \in A
        <5> HIDE DEF Upto
        <5> QED
          BY <2>3, <3>2
      <4> HIDE DEF Upto
      <4> QED
        BY <3>2, <4>1
    <3> QED
      BY <3>1, <3>2
  <2>7. \A s \in Upto(n + 1) : Body(k, s) = Body(h, s)
    <3> SUFFICES ASSUME NEW s \in Upto(n + 1), s # {} PROVE Body(k, s) = Body(h, s)
      OBVIOUS
    <3> DEFINE rest == s \ {take[s]}
    <3>1. k[rest] = h[rest]
      BY <2>3, <2>5
    <3> HIDE DEF k, Upto
    <3> QED
      BY <3>1
  <2>8. k = [s \in Upto(n + 1) |-> Body(k, s)]
    <3> HIDE DEF Body, Upto
    <3> QED
      BY <2>7
  <2>9. \E g \in [Upto(n + 1) -> A] : g = [s \in Upto(n + 1) |-> Body(g, s)]
    <3> HIDE DEF k, Body, Upto
    <3> QED
      BY <2>6, <2>8
  <2> HIDE DEF Upto, Body
  <2> QED
    BY <2>2, <2>9
<1>3. Good = Nat
  <2> HIDE DEF Good
  <2>1. Good \in SUBSET Nat
    BY DEF Good
  <2> QED
    BY <1>1, <1>2, <2>1, SetInduction
<1>4. Cardinality(S) \in Nat
  BY FS_CardinalityType
<1>5. Upto(Cardinality(S)) = SUBSET S
  BY <1>0, FS_Subset
<1>6. Cardinality(S) \in Good
  BY <1>3, <1>4
<1> QED
  BY <1>5, <1>6 DEF Folded

\* The greatest number of a finite set: Max of the community modules.
Greatest(s) == CHOOSE x \in s : \A y \in s : x >= y

LEMMA GreatestIs ==
  ASSUME NEW n \in Nat, NEW s \in SUBSET (1..n), s # {}
  PROVE  Greatest(s) \in s /\ \A y \in s : Greatest(s) >= y
<1> DEFINE Bounds == {m \in Nat : \A y \in s : y <= m}
<1>1. n \in Bounds
  OBVIOUS
<1>2. PICK m \in Bounds : \A k \in Bounds : m <= k
  <2>1. Bounds \in SUBSET Nat /\ Bounds # {}
    BY <1>1
  <2> HIDE DEF Bounds
  <2> QED
    BY <2>1, LeastNat
<1>3. m \in s
  <2> SUFFICES ASSUME m \notin s PROVE FALSE
    OBVIOUS
  <2>1. m # 0
    <3>1. PICK y \in s : y \in 1..n
      OBVIOUS
    <3>2. y <= m
      BY <1>2
    <3> QED
      BY <3>1, <3>2
  <2>2. \A y \in s : y \in Nat /\ y <= m /\ y # m
    BY <1>2
  <2>3. m - 1 \in Bounds
    BY <1>2, <2>1, <2>2
  <2> QED
    BY <1>2, <2>3
<1>4. \E x \in s : \A y \in s : x >= y
  BY <1>2, <1>3
<1> QED
  BY <1>4 DEF Greatest

LEMMA PrefixIs ==
  ASSUME NEW n \in Nat, NEW k \in 1..n
  PROVE  /\ 1..k \in SUBSET (1..n) /\ 1..k # {} /\ Greatest(1..k) = k
         /\ (1..k) \ {k} = 1..(k - 1) /\ 1..(k - 1) \in SUBSET (1..n)
<1>1. 1..k \in SUBSET (1..n) /\ k \in 1..k
  OBVIOUS
<1>2. Greatest(1..k) \in 1..k /\ \A y \in 1..k : Greatest(1..k) >= y
  BY <1>1, GreatestIs
<1>3. Greatest(1..k) >= k
  BY <1>1, <1>2
<1>4. Greatest(1..k) = k
  BY <1>2, <1>3
<1> QED
  BY <1>1, <1>4

\* A fold over a sequence from the left takes the last element last.
FoldedAlong(n, step, base, h) ==
  h = [s \in SUBSET (1..n) |->
         IF s = {} THEN base ELSE step[Greatest(s)][h[s \ {Greatest(s)}]]]

LEMMA FoldAlong ==
  ASSUME NEW n \in Nat, NEW A, NEW base \in A,
         NEW step, \A i \in 1..n, a \in A : step[i][a] \in A
  PROVE  \E h \in [SUBSET (1..n) -> A] : FoldedAlong(n, step, base, h)
<1> DEFINE take == [s \in SUBSET (1..n) |-> Greatest(s)]
<1>1. \A s \in SUBSET (1..n) : s # {} => take[s] \in s
  BY GreatestIs
<1>2. IsFiniteSet(1..n)
  BY UpTo
<1>3. PICK h \in [SUBSET (1..n) -> A] : Folded(1..n, take, step, base, h)
  <2> HIDE DEF take
  <2> QED
    BY <1>1, <1>2, FoldExists
<1>4. \A s \in SUBSET (1..n) :
        h[s] = IF s = {} THEN base ELSE step[Greatest(s)][h[s \ {Greatest(s)}]]
  BY <1>3 DEF Folded
<1> HIDE DEF take
<1>5. h = [s \in SUBSET (1..n) |->
             IF s = {} THEN base ELSE step[Greatest(s)][h[s \ {Greatest(s)}]]]
  BY <1>4
<1> QED
  BY <1>5 DEF FoldedAlong

\* What is worked out from number to number.
Stepped(n, step, base, f) == f[0] = base /\ \A i \in 1..n : f[i] = step[i][f[i - 1]]

LEMMA StepsExist ==
  ASSUME NEW n \in Nat, NEW A, NEW base \in A,
         NEW step, \A i \in 1..n, a \in A : step[i][a] \in A
  PROVE  \E f \in [0..n -> A] : Stepped(n, step, base, f)
<1>1. PICK h \in [SUBSET (1..n) -> A] : FoldedAlong(n, step, base, h)
  BY FoldAlong
<1>2. \A s \in SUBSET (1..n) :
        h[s] = IF s = {} THEN base ELSE step[Greatest(s)][h[s \ {Greatest(s)}]]
  BY <1>1 DEF FoldedAlong
<1> DEFINE f == [i \in 0..n |-> h[1..i]]
<1>3. f \in [0..n -> A]
  <2>1. \A i \in 0..n : 1..i \in SUBSET (1..n)
    OBVIOUS
  <2> QED
    BY <2>1
<1>4. f[0] = base
  <2>1. 1..0 = {} /\ 0 \in 0..n /\ {} \in SUBSET (1..n)
    OBVIOUS
  <2> QED
    BY <1>2, <2>1
<1>5. ASSUME NEW i \in 1..n PROVE f[i] = step[i][f[i - 1]]
  <2>1. /\ 1..i \in SUBSET (1..n) /\ 1..i # {} /\ Greatest(1..i) = i
        /\ (1..i) \ {i} = 1..(i - 1)
    BY PrefixIs
  <2>2. h[1..i] = step[i][h[1..(i - 1)]]
    BY <1>2, <2>1
  <2>3. i \in 0..n /\ i - 1 \in 0..n
    OBVIOUS
  <2> QED
    BY <2>2, <2>3
<1> HIDE DEF f
<1>6. Stepped(n, step, base, f)
  BY <1>4, <1>5 DEF Stepped
<1> QED
  BY <1>3, <1>6

LEMMA SumExists ==
  ASSUME NEW of, NEW S, Countable(of, S)
  PROVE  \E h : Summed(of, S, h)
<1> DEFINE take == [s \in SUBSET S |-> CHOOSE x \in s : TRUE]
           step == [x \in S |-> [a \in Int |-> of[x] + a]]
<1>1. \A s \in SUBSET S : s # {} => take[s] \in s
  OBVIOUS
<1>2. \A x \in S, a \in Int : step[x][a] \in Int
  BY DEF Countable
<1>3. PICK h \in [SUBSET S -> Int] : Folded(S, take, step, 0, h)
  <2>1. 0 \in Int /\ IsFiniteSet(S)
    BY DEF Countable
  <2> HIDE DEF take, step
  <2> QED
    BY <1>1, <1>2, <2>1, FoldExists
<1>4. ASSUME NEW s \in SUBSET S, s # {}
      PROVE  step[take[s]][h[s \ {take[s]}]]
               = of[CHOOSE x \in s : TRUE] + h[s \ {CHOOSE x \in s : TRUE}]
  <2>1. take[s] = (CHOOSE x \in s : TRUE) /\ take[s] \in S /\ h[s \ {take[s]}] \in Int
    BY <1>1, <1>4
  <2> QED
    BY <2>1
<1>5. \A s \in SUBSET S : h[s] = IF s = {} THEN 0 ELSE step[take[s]][h[s \ {take[s]}]]
  <2> HIDE DEF take, step
  <2> QED
    BY <1>3 DEF Folded
<1> HIDE DEF take, step
<1>6. h = [s \in SUBSET S |->
             IF s = {} THEN 0
             ELSE of[CHOOSE x \in s : TRUE] + h[s \ {CHOOSE x \in s : TRUE}]]
  BY <1>4, <1>5
<1> QED
  BY <1>6 DEF Summed

\* The order in which a sum is taken does not matter.
LEMMA SumTakes ==
  ASSUME NEW of, NEW S, Countable(of, S), NEW h, Summed(of, S, h)
  PROVE  \A s \in SUBSET S : /\ h[s] \in Int
                             /\ \A y \in s : h[s] = of[y] + h[s \ {y}]
<1> DEFINE Fine(s) == h[s] \in Int /\ \A y \in s : h[s] = of[y] + h[s \ {y}]
           Good == {n \in Nat : \A s \in SUBSET S : Cardinality(s) <= n => Fine(s)}
<1>0. \A s \in SUBSET S : IsFiniteSet(s) /\ Cardinality(s) \in Nat
  BY FS_Subset, FS_CardinalityType DEF Countable
<1>1. 0 \in Good
  <2>1. ASSUME NEW s \in SUBSET S, Cardinality(s) <= 0 PROVE Fine(s)
    <3>1. s = {}
      BY <1>0, <2>1, FS_EmptySet
    <3> QED
      BY <3>1, SumAt
  <2> QED
    BY <2>1
<1>2. ASSUME NEW n \in Good PROVE n + 1 \in Good
  <2>1. n \in Nat /\ \A s \in SUBSET S : Cardinality(s) <= n => Fine(s)
    OBVIOUS
  <2>2. ASSUME NEW s \in SUBSET S, NEW x \in s, Cardinality(s) <= n + 1
        PROVE  s \ {x} \in SUBSET S /\ Cardinality(s \ {x}) = Cardinality(s) - 1 /\ Fine(s \ {x})
    <3>1. Cardinality(s \ {x}) = Cardinality(s) - 1
      BY <1>0, FS_RemoveElement
    <3>2. Cardinality(s \ {x}) <= n
      BY <1>0, <2>1, <2>2, <3>1
    <3> QED
      BY <2>1, <3>1, <3>2
  <2> HIDE DEF Good
  <2>3. ASSUME NEW s \in SUBSET S, Cardinality(s) <= n + 1 PROVE Fine(s)
    <3>1. CASE s = {}
      BY <3>1, SumAt
    <3>2. CASE s # {}
      <4>1. PICK x \in s : h[s] = of[x] + h[s \ {x}]
        BY <3>2, SumAt
      <4>2. s \ {x} \in SUBSET S /\ Fine(s \ {x}) /\ Cardinality(s \ {x}) = Cardinality(s) - 1
        BY <2>2, <2>3
      <4>3. of[x] \in Int
        BY DEF Countable
      <4>4. h[s] \in Int
        BY <4>1, <4>2, <4>3
      <4>5. ASSUME NEW y \in s, y # x PROVE h[s] = of[y] + h[s \ {y}]
        <5>1. s \ {y} \in SUBSET S /\ Fine(s \ {y})
          BY <2>2, <2>3
        <5>2. h[s \ {x}] = of[y] + h[(s \ {x}) \ {y}]
          BY <4>2, <4>5
        <5>3. h[s \ {y}] = of[x] + h[(s \ {y}) \ {x}]
          BY <5>1, <4>5
        <5>4. (s \ {x}) \ {y} = (s \ {y}) \ {x}
          OBVIOUS
        <5>5. of[y] \in Int
          BY DEF Countable
        <5>6. h[(s \ {x}) \ {y}] \in Int
          <6>1. y \in s \ {x} /\ Cardinality(s \ {x}) <= n + 1
            BY <1>0, <2>1, <2>3, <4>2, <4>5
          <6>2. Fine((s \ {x}) \ {y})
            BY <2>2, <4>2, <6>1
          <6> QED
            BY <6>2
        <5> DEFINE a == of[x]
                   b == of[y]
                   c == h[(s \ {x}) \ {y}]
        <5>7. a \in Int /\ b \in Int /\ c \in Int
          BY <4>3, <5>5, <5>6
        <5>8. h[s] = a + (b + c)
          BY <4>1, <5>2
        <5>9. h[s \ {y}] = a + c
          BY <5>3, <5>4
        <5>10. h[s] = b + h[s \ {y}]
          <6> HIDE DEF a, b, c
          <6> QED
            BY <5>7, <5>8, <5>9
        <5> QED
          BY <5>10
      <4> QED
        BY <4>1, <4>4, <4>5
    <3> QED
      BY <3>1, <3>2
  <2> QED
    BY <2>1, <2>3 DEF Good
<1>3. Good = Nat
  <2> HIDE DEF Good
  <2>1. Good \in SUBSET Nat
    BY DEF Good
  <2> QED
    BY <1>1, <1>2, <2>1, SetInduction
<1>4. ASSUME NEW s \in SUBSET S PROVE Fine(s)
  <2>1. Cardinality(s) \in Good
    BY <1>0, <1>3
  <2> QED
    BY <1>0, <2>1
<1> QED
  BY <1>4

LEMMA TakesOne ==
  ASSUME NEW of, NEW S, Countable(of, S), NEW h, Summed(of, S, h), NEW y \in S
  PROVE  h[S] \in Int /\ h[S] = of[y] + h[S \ {y}]
  BY SumTakes

\* Two sums of the same numbers are the same.
LEMMA SumsAgree ==
  ASSUME NEW of, NEW S, Countable(of, S), NEW h, Summed(of, S, h),
         NEW other, NEW T, S \subseteq T, NEW k, Summed(other, T, k),
         \A x \in S : other[x] = of[x]
  PROVE  \A s \in SUBSET S : k[s] = h[s]
<1> DEFINE Good == {n \in Nat : \A s \in SUBSET S : Cardinality(s) <= n => k[s] = h[s]}
<1>0. \A s \in SUBSET S : IsFiniteSet(s) /\ Cardinality(s) \in Nat
  BY FS_Subset, FS_CardinalityType DEF Countable
<1>1. 0 \in Good
  <2>1. ASSUME NEW s \in SUBSET S, Cardinality(s) <= 0 PROVE k[s] = h[s]
    <3>1. s = {}
      BY <1>0, <2>1, FS_EmptySet
    <3> QED
      BY <3>1, SumAt
  <2> QED
    BY <2>1
<1>2. ASSUME NEW n \in Good PROVE n + 1 \in Good
  <2>1. n \in Nat /\ \A s \in SUBSET S : Cardinality(s) <= n => k[s] = h[s]
    OBVIOUS
  <2> HIDE DEF Good
  <2>2. ASSUME NEW s \in SUBSET S, Cardinality(s) <= n + 1 PROVE k[s] = h[s]
    <3>1. CASE s = {}
      BY <3>1, SumAt
    <3>2. CASE s # {}
      <4>1. PICK x \in s : x = (CHOOSE y \in s : TRUE) /\ h[s] = of[x] + h[s \ {x}]
        BY <3>2, SumAt
      <4>2. k[s] = other[x] + k[s \ {x}]
        <5>1. s \in SUBSET T
          OBVIOUS
        <5>2. PICK z \in s : z = (CHOOSE y \in s : TRUE) /\ k[s] = other[z] + k[s \ {z}]
          BY <3>2, <5>1, SumAt
        <5> QED
          BY <4>1, <5>2
      <4>3. Cardinality(s \ {x}) = Cardinality(s) - 1
        BY <1>0, FS_RemoveElement
      <4>4. k[s \ {x}] = h[s \ {x}]
        BY <1>0, <2>1, <2>2, <4>3
      <4> QED
        BY <4>1, <4>2, <4>4
    <3> QED
      BY <3>1, <3>2
  <2> QED
    BY <2>1, <2>2 DEF Good
<1>3. Good = Nat
  <2> HIDE DEF Good
  <2>1. Good \in SUBSET Nat
    BY DEF Good
  <2> QED
    BY <1>1, <1>2, <2>1, SetInduction
<1> QED
  BY <1>0, <1>3

\* What MapThenSumSet computes.
SumOver(of, S) == (CHOOSE h : Summed(of, S, h))[S]

LEMMA SumIs ==
  ASSUME NEW of, NEW S, Countable(of, S)
  PROVE  \E h : Summed(of, S, h) /\ SumOver(of, S) = h[S]
  BY SumExists DEF SumOver

LEMMA SumEmpty == ASSUME NEW of PROVE SumOver(of, {}) = 0
<1>1. Countable(of, {})
  BY FS_EmptySet DEF Countable
<1>2. PICK h : Summed(of, {}, h) /\ SumOver(of, {}) = h[{}]
  BY <1>1, SumIs
<1> QED
  BY <1>2, SumAt

LEMMA SumSame ==
  ASSUME NEW of, NEW S, Countable(of, S), NEW other, \A x \in S : other[x] = of[x]
  PROVE  SumOver(other, S) = SumOver(of, S)
<1>1. Countable(other, S)
  BY DEF Countable
<1>2. PICK h : Summed(of, S, h) /\ SumOver(of, S) = h[S]
  BY SumIs
<1>3. PICK k : Summed(other, S, k) /\ SumOver(other, S) = k[S]
  BY <1>1, SumIs
<1>4. \A s \in SUBSET S : k[s] = h[s]
  BY <1>2, <1>3, SumsAgree
<1> QED
  BY <1>2, <1>3, <1>4

LEMMA SumLess ==
  ASSUME NEW of, NEW S, Countable(of, S), NEW y \in S
  PROVE  /\ SumOver(of, S) \in Int /\ SumOver(of, S \ {y}) \in Int
         /\ SumOver(of, S) = of[y] + SumOver(of, S \ {y})
<1> DEFINE R == S \ {y}
<1>1. Countable(of, R) /\ R \subseteq S
  BY FS_RemoveElement DEF Countable
<1>2. PICK h : Summed(of, S, h) /\ SumOver(of, S) = h[S]
  BY SumIs
<1>3. h[S] \in Int /\ h[S] = of[y] + h[R]
  BY <1>2, TakesOne
<1> HIDE DEF R
<1>4. PICK k : Summed(of, R, k) /\ SumOver(of, R) = k[R]
  BY <1>1, SumIs
<1>5. \A s \in SUBSET R : h[s] = k[s]
  <2>1. Countable(of, R) /\ Summed(of, R, k) /\ Summed(of, S, h) /\ R \subseteq S
    BY <1>1, <1>2, <1>4
  <2>2. \A x \in R : of[x] = of[x]
    OBVIOUS
  <2> QED
    BY <2>1, <2>2, SumsAgree
<1>6. h[R] = k[R]
  BY <1>5
<1>7. h[R] \in Int
  BY <1>1, <1>2, SumTakes
<1> QED
  BY <1>2, <1>3, <1>4, <1>6, <1>7 DEF R

LEMMA SumInt ==
  ASSUME NEW of, NEW S, Countable(of, S)
  PROVE  SumOver(of, S) \in Int
<1>1. CASE S = {}
  BY <1>1, SumEmpty
<1>2. CASE S # {}
  BY <1>2, SumLess
<1> QED
  BY <1>1, <1>2

LEMMA SumMore ==
  ASSUME NEW of, NEW S, Countable(of, S), NEW y, y \notin S, of[y] \in Int
  PROVE  Countable(of, S \cup {y}) /\ SumOver(of, S \cup {y}) = SumOver(of, S) + of[y]
<1> DEFINE T == S \cup {y}
<1>1. Countable(of, T) /\ y \in T /\ T \ {y} = S
  BY FS_AddElement DEF Countable
<1> HIDE DEF T
<1>2. SumOver(of, T) = of[y] + SumOver(of, T \ {y}) /\ SumOver(of, T \ {y}) \in Int
  BY <1>1, SumLess
<1>3. SumOver(of, T) = SumOver(of, S) + of[y]
  <2>1. SumOver(of, T \ {y}) = SumOver(of, S)
    BY <1>1
  <2>2. SumOver(of, T) = of[y] + SumOver(of, S) /\ SumOver(of, S) \in Int
    BY <1>2, <2>1
  <2> QED
    BY <2>2
<1> QED
  BY <1>1, <1>3 DEF T

\* More numbers and greater ones have the greater sum.
LEMMA SumGrows ==
  ASSUME NEW of, NEW S, NEW other, NEW T, Countable(other, T), S \subseteq T, Countable(of, S),
         \A x \in S : of[x] <= other[x], \A x \in T : 0 <= other[x]
  PROVE  SumOver(of, S) <= SumOver(other, T)
<1> DEFINE Good == {n \in Nat : \A t \in SUBSET T : Cardinality(t) <= n =>
                                  SumOver(of, t \cap S) <= SumOver(other, t)}
<1>0. \A t \in SUBSET T : /\ IsFiniteSet(t) /\ Cardinality(t) \in Nat /\ Countable(other, t)
                          /\ IsFiniteSet(t \cap S) /\ Countable(of, t \cap S)
  <2> SUFFICES ASSUME NEW t \in SUBSET T
               PROVE  /\ IsFiniteSet(t) /\ Cardinality(t) \in Nat /\ Countable(other, t)
                      /\ IsFiniteSet(t \cap S) /\ Countable(of, t \cap S)
    OBVIOUS
  <2>1. IsFiniteSet(t)
    BY FS_Subset DEF Countable
  <2>2. IsFiniteSet(t \cap S) /\ Cardinality(t) \in Nat
    BY <2>1, FS_Subset, FS_CardinalityType
  <2> QED
    BY <2>1, <2>2 DEF Countable
<1>1. 0 \in Good
  <2>1. ASSUME NEW t \in SUBSET T, Cardinality(t) <= 0
        PROVE  SumOver(of, t \cap S) <= SumOver(other, t)
    <3>0. Cardinality(t) = 0 /\ IsFiniteSet(t)
      <4>1. Cardinality(t) \in Nat /\ IsFiniteSet(t)
        BY <1>0
      <4> QED
        BY <2>1, <4>1
    <3>1. t = {}
      BY <3>0, FS_EmptySet
    <3>2. SumOver(of, t \cap S) = 0 /\ SumOver(other, t) = 0
      <4>1. t \cap S = {}
        BY <3>1
      <4> QED
        BY <3>1, <4>1, SumEmpty
    <3> QED
      BY <3>2
  <2> QED
    BY <2>1
<1>2. ASSUME NEW n \in Good PROVE n + 1 \in Good
  <2>1. /\ n \in Nat
        /\ \A t \in SUBSET T : Cardinality(t) <= n => SumOver(of, t \cap S) <= SumOver(other, t)
    OBVIOUS
  <2> HIDE DEF Good
  <2>2. ASSUME NEW t \in SUBSET T, Cardinality(t) <= n + 1
        PROVE  SumOver(of, t \cap S) <= SumOver(other, t)
    <3>1. CASE t = {}
      <4>1. Cardinality(t) = 0
        BY <3>1, FS_EmptySet
      <4> QED
        BY <2>1, <4>1
    <3>2. ASSUME NEW y \in t PROVE SumOver(of, t \cap S) <= SumOver(other, t)
      <4> DEFINE r == t \ {y}
      <4>1. r \in SUBSET T /\ Cardinality(r) = Cardinality(t) - 1
        BY <1>0, FS_RemoveElement
      <4>2. SumOver(of, r \cap S) <= SumOver(other, r)
        <5>0. Cardinality(t) \in Nat
          BY <1>0
        <5> HIDE DEF r
        <5>1. Cardinality(r) <= n
          BY <2>1, <2>2, <4>1, <5>0
        <5> QED
          BY <2>1, <4>1, <5>1
      <4>3. SumOver(other, t) = other[y] + SumOver(other, r) /\ SumOver(other, r) \in Int
        <5>1. Countable(other, t)
          BY <1>0
        <5> QED
          BY <5>1, SumLess
      <4>4. other[y] \in Int /\ 0 <= other[y]
        BY DEF Countable
      <4>5. SumOver(of, r \cap S) \in Int
        <5>1. Countable(of, r \cap S)
          BY <1>0, <4>1
        <5> QED
          BY <5>1, SumInt
      <4>6. CASE y \in S
        <5> DEFINE u == t \cap S
        <5>1. u \ {y} = r \cap S /\ y \in u /\ Countable(of, u)
          BY <1>0, <4>6
        <5>2. of[y] \in Int /\ of[y] <= other[y]
          BY <4>6 DEF Countable
        <5> HIDE DEF u, r
        <5>3. SumOver(of, u) = of[y] + SumOver(of, u \ {y})
          BY <5>1, SumLess
        <5>4. SumOver(of, u) = of[y] + SumOver(of, r \cap S)
          BY <5>1, <5>3
        <5>5. SumOver(of, u) <= SumOver(other, t)
          BY <4>2, <4>3, <4>4, <4>5, <5>2, <5>4
        <5> QED
          BY <5>5 DEF u
      <4>7. CASE y \notin S
        <5>1. t \cap S = r \cap S
          BY <4>7
        <5> HIDE DEF r
        <5> QED
          BY <4>2, <4>3, <4>4, <4>5, <5>1
      <4> QED
        BY <4>6, <4>7
    <3> QED
      BY <3>1, <3>2
  <2> QED
    BY <2>1, <2>2 DEF Good
<1>3. Good = Nat
  <2> HIDE DEF Good
  <2>1. Good \in SUBSET Nat
    BY DEF Good
  <2> QED
    BY <1>1, <1>2, <2>1, SetInduction
<1>4. T \in SUBSET T /\ T \cap S = S
  OBVIOUS
<1>5. Cardinality(T) \in Good /\ Cardinality(T) \in Nat
  BY <1>0, <1>3, <1>4
<1>6. SumOver(of, T \cap S) <= SumOver(other, T)
  BY <1>5
<1> QED
  BY <1>4, <1>6

LEMMA SumNat ==
  ASSUME NEW of, NEW S, Countable(of, S), \A x \in S : 0 <= of[x]
  PROVE  SumOver(of, S) \in Nat
<1>1. Countable(of, {})
  BY FS_EmptySet DEF Countable
<1>2. SumOver(of, {}) <= SumOver(of, S)
  BY <1>1, SumGrows
<1>3. SumOver(of, {}) = 0 /\ SumOver(of, S) \in Int
  BY SumEmpty, SumInt
<1> QED
  BY <1>2, <1>3

\* The sum of what is left and the sum of what was taken are the sum of what there was.
LEMMA SumSplits ==
  ASSUME NEW of, NEW left, NEW taken, NEW S,
         Countable(of, S), Countable(left, S), Countable(taken, S),
         \A x \in S : of[x] = left[x] + taken[x]
  PROVE  SumOver(of, S) = SumOver(left, S) + SumOver(taken, S)
<1> DEFINE Fine(t) == SumOver(of, t) = SumOver(left, t) + SumOver(taken, t)
           Good == {n \in Nat : \A t \in SUBSET S : Cardinality(t) <= n => Fine(t)}
<1>0. \A t \in SUBSET S : /\ IsFiniteSet(t) /\ Cardinality(t) \in Nat
                          /\ Countable(of, t) /\ Countable(left, t) /\ Countable(taken, t)
  <2> SUFFICES ASSUME NEW t \in SUBSET S
               PROVE  /\ IsFiniteSet(t) /\ Cardinality(t) \in Nat
                      /\ Countable(of, t) /\ Countable(left, t) /\ Countable(taken, t)
    OBVIOUS
  <2>1. IsFiniteSet(t)
    BY FS_Subset DEF Countable
  <2>2. Cardinality(t) \in Nat
    BY <2>1, FS_CardinalityType
  <2> QED
    BY <2>1, <2>2 DEF Countable
<1>1. 0 \in Good
  <2>1. ASSUME NEW t \in SUBSET S, Cardinality(t) <= 0 PROVE Fine(t)
    <3>1. Cardinality(t) \in Nat /\ IsFiniteSet(t)
      BY <1>0
    <3>2. Cardinality(t) = 0
      BY <2>1, <3>1
    <3>3. t = {}
      BY <3>1, <3>2, FS_EmptySet
    <3>4. SumOver(of, t) = 0 /\ SumOver(left, t) = 0 /\ SumOver(taken, t) = 0
      BY <3>3, SumEmpty
    <3> QED
      BY <3>4
  <2> QED
    BY <2>1
<1>2. ASSUME NEW n \in Good PROVE n + 1 \in Good
  <2>1. n \in Nat /\ \A t \in SUBSET S : Cardinality(t) <= n => Fine(t)
    OBVIOUS
  <2> HIDE DEF Good
  <2>2. ASSUME NEW t \in SUBSET S, Cardinality(t) <= n + 1 PROVE Fine(t)
    <3>1. CASE t = {}
      <4>1. SumOver(of, t) = 0 /\ SumOver(left, t) = 0 /\ SumOver(taken, t) = 0
        BY <3>1, SumEmpty
      <4> QED
        BY <4>1
    <3>2. ASSUME NEW y \in t PROVE Fine(t)
      <4> DEFINE r == t \ {y}
      <4>1. r \in SUBSET S /\ Cardinality(r) = Cardinality(t) - 1 /\ Cardinality(t) \in Nat
        BY <1>0, FS_RemoveElement
      <4>2. /\ SumOver(of, t) = of[y] + SumOver(of, r)
            /\ SumOver(left, t) = left[y] + SumOver(left, r)
            /\ SumOver(taken, t) = taken[y] + SumOver(taken, r)
            /\ SumOver(left, r) \in Int /\ SumOver(taken, r) \in Int
        <5>1. Countable(of, t) /\ Countable(left, t) /\ Countable(taken, t)
          BY <1>0
        <5> QED
          BY <5>1, SumLess
      <4> HIDE DEF r
      <4>3. Cardinality(r) <= n
        BY <2>1, <2>2, <4>1
      <4>4. SumOver(of, r) = SumOver(left, r) + SumOver(taken, r)
        BY <2>1, <4>1, <4>3
      <4>5. of[y] = left[y] + taken[y] /\ left[y] \in Int /\ taken[y] \in Int
        BY DEF Countable
      <4> QED
        BY <4>2, <4>4, <4>5
    <3> QED
      BY <3>1, <3>2
  <2> QED
    BY <2>1, <2>2 DEF Good
<1>3. Good = Nat
  <2> HIDE DEF Good
  <2>1. Good \in SUBSET Nat
    BY DEF Good
  <2> QED
    BY <1>1, <1>2, <2>1, SetInduction
<1>4. S \in SUBSET S /\ Cardinality(S) \in Good
  BY <1>0, <1>3
<1> QED
  BY <1>0, <1>4

\* A strict order of a finite set has a first element in every part of it.
LEMMA FirstOf ==
  ASSUME NEW S, IsFiniteSet(S), NEW before,
         \A d \in S : <<d, d>> \notin before,
         \A c, d, e \in S : <<c, d>> \in before /\ <<d, e>> \in before => <<c, e>> \in before,
         \A d, e \in S : d = e \/ <<d, e>> \in before \/ <<e, d>> \in before,
         NEW T \in SUBSET S, T # {}
  PROVE  \E e \in T : \A d \in T : <<d, e>> \notin before
<1> DEFINE q == SortedBy(S, before)
           places == {i \in 1..Len(q) : q[i] \in T}
<1>1. /\ q \in Seq(S) /\ Len(q) \in Nat
      /\ \A i, j \in 1..Len(q) : i < j => <<q[i], q[j]>> \in before
      /\ \A e \in S : \E i \in 1..Len(q) : q[i] = e
  BY SortedByOrders, LenProperties
<1> HIDE DEF q
<1>2. places \in SUBSET Nat /\ places # {}
  <2>1. PICK e \in T : e \in S
    OBVIOUS
  <2>2. PICK i \in 1..Len(q) : q[i] = e
    BY <1>1, <2>1
  <2>3. i \in places
    BY <2>1, <2>2
  <2>4. places \in SUBSET Nat
    OBVIOUS
  <2> QED
    BY <2>3, <2>4
<1>3. PICK i \in places : \A j \in places : i <= j
  <2> HIDE DEF places
  <2> QED
    BY <1>2, LeastNat
<1>4. ASSUME NEW d \in T PROVE <<d, q[i]>> \notin before
  <2>1. PICK j \in 1..Len(q) : q[j] = d
    BY <1>1
  <2>2. j \in places /\ i <= j /\ i \in 1..Len(q) /\ q[i] \in T
    BY <1>3, <2>1
  <2>3. i = j \/ <<q[i], d>> \in before
    <3>1. i < j => <<q[i], q[j]>> \in before
      BY <1>1, <2>2
    <3> QED
      BY <1>1, <2>1, <2>2, <3>1
  <2> QED
    BY <2>1, <2>2, <2>3
<1> QED
  BY <1>3, <1>4
=============================================================================
