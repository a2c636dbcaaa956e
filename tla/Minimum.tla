------------------------------- MODULE Minimum -------------------------------
(***************************************************************************)
(* Smallest numbers.  What holds of every number, or of every place of a   *)
(* forest or a text, is proved by looking at the least one of which it     *)
(* does not hold: that one exists because < on Nat is well-founded.        *)
(***************************************************************************)
EXTENDS Integers, WellFoundedInduction, TLAPS

(* Every set of numbers that has a member has a least one. *)
LEMMA LeastNumber ==
    ASSUME NEW S, S \subseteq Nat, S # {}
    PROVE  \E m \in S : \A k \in S : m <= k
<1>1. PICK R : R = OpToRel(<, Nat)
  OBVIOUS
<1>2. IsWellFoundedOn(R, Nat)
  BY <1>1, NatLessThanWellFounded, Zenon
<1>3. PICK m \in S : \A k \in S : ~(<<k, m>> \in R)
  BY <1>2, WFMin, Zenon
<1>4. R = {ss \in Nat \X Nat : ss[1] < ss[2]}
  BY <1>1, Zenon DEF OpToRel
<1>5. ASSUME NEW k \in S
      PROVE  m <= k
  <2>1. k \in Nat /\ m \in Nat
    OBVIOUS
  <2>2. k < m => <<k, m>> \in R
    BY <2>1, <1>4
  <2>3. ~(<<k, m>> \in R)
    BY <1>3
  <2> QED
    BY <2>1, <2>2, <2>3
<1> QED
  BY <1>5

(* Finitely many numbers have an upper bound. *)
LEMMA UpperBound ==
    ASSUME NEW n \in Nat, NEW w, \A i \in 0 .. n - 1 : w[i] \in Nat
    PROVE  \E b \in Nat : \A i \in 0 .. n - 1 : w[i] <= b
<1> DEFINE Bounded(k) == \E b \in Nat : \A i \in 0 .. k - 1 : w[i] <= b
<1> DEFINE Beyond == {k \in 0 .. n : ~Bounded(k)}
<1>1. ASSUME Beyond # {}
      PROVE  FALSE
  <2>1. Beyond \subseteq Nat
    OBVIOUS
  <2>2. PICK m \in Beyond : \A k \in Beyond : m <= k
    BY <1>1, <2>1, LeastNumber
  <2>3. m # 0
    <3>1. Bounded(0)
      OBVIOUS
    <3> QED
      BY <3>1
  <2>4. m - 1 \in 0 .. n /\ m - 1 \notin Beyond /\ m \in 1 .. n
    <3>1. m \in 0 .. n
      BY <2>2
    <3>2. m - 1 \in 0 .. n /\ m \in 1 .. n /\ ~(m <= m - 1)
      BY <2>3, <3>1
    <3>3. m - 1 \notin Beyond
      BY <2>2, <3>2
    <3> QED
      BY <3>2, <3>3
  <2>5. PICK b \in Nat : \A i \in 0 .. (m - 1) - 1 : w[i] <= b
    BY <2>4
  <2>6. PICK more \in Nat : b <= more /\ w[m - 1] <= more
    <3>1. w[m - 1] \in Nat
      BY <2>4
    <3>2. b + w[m - 1] \in Nat /\ b <= b + w[m - 1] /\ w[m - 1] <= b + w[m - 1]
      BY <3>1
    <3> QED
      BY <3>2
  <2>7. ASSUME NEW i \in 0 .. m - 1
        PROVE  w[i] <= more
    <3>1. i = m - 1 \/ i \in 0 .. (m - 1) - 1
      BY <2>4
    <3>2. w[i] \in Nat
      BY <2>4
    <3> QED
      BY <2>5, <2>6, <3>1, <3>2
  <2> QED
    BY <2>2, <2>7
<1>2. n \notin Beyond
  BY <1>1
<1> QED
  BY <1>2

(* A function whose value at each place is made of values at places of a   *)
(* lower rank exists: it is put together rank by rank.                     *)
LooksDown(D, S, rank, value) ==
    \A x \in D : \A g, h \in [D -> S] :
        /\ value[x][g] \in S
        /\ (\A y \in D : rank[y] < rank[x] => g[y] = h[y]) => value[x][g] = value[x][h]

(* For ranks up to n. *)
LEMMA DefinedByRank ==
    ASSUME NEW D, NEW S, NEW s \in S, NEW n \in Nat, NEW rank \in [D -> 0 .. n],
           NEW value, LooksDown(D, S, rank, value)
    PROVE  \E f \in [D -> S] : \A x \in D : f[x] = value[x][f]
<1> DEFINE Solves(f, k) == \A x \in D : rank[x] < k => f[x] = value[x][f]
<1> DEFINE Beyond == {k \in 0 .. n + 1 : ~\E f \in [D -> S] : Solves(f, k)}
<1>0. \A x \in D : rank[x] \in 0 .. n
  OBVIOUS
<1>1. ASSUME Beyond # {}
      PROVE  FALSE
  <2>1. Beyond \subseteq Nat
    OBVIOUS
  <2>2. PICK k \in Beyond : \A l \in Beyond : k <= l
    BY <1>1, <2>1, LeastNumber
  <2>3. k # 0
    <3>1. PICK f : f = [x \in D |-> s]
      OBVIOUS
    <3>2. f \in [D -> S]
      BY <3>1
    <3>3. Solves(f, 0)
      BY <1>0
    <3> QED
      BY <3>2, <3>3
  <2>4. PICK p \in Nat : p = k - 1 /\ p \in 0 .. n + 1 /\ ~(k <= p)
    <3>1. k \in 0 .. n + 1
      BY <2>2
    <3>2. k - 1 \in Nat /\ k - 1 \in 0 .. n + 1 /\ ~(k <= k - 1)
      BY <2>3, <3>1
    <3> QED
      BY <3>2
  <2>5. PICK f \in [D -> S] : Solves(f, p)
    BY <2>2, <2>4
  <2>6. PICK g : g = [x \in D |-> IF rank[x] = p THEN value[x][f] ELSE f[x]]
    OBVIOUS
  <2>7. g \in [D -> S]
    <3>1. \A x \in D : value[x][f] \in S
      BY DEF LooksDown
    <3> QED
      BY <2>6, <3>1
  <2>8. ASSUME NEW x \in D, rank[x] < k
        PROVE  g[x] = value[x][g]
    <3>1. rank[x] = p \/ rank[x] < p
      BY <1>0, <2>2, <2>4, <2>8
    <3>2. value[x][g] = value[x][f]
      <4>1. \A y \in D : rank[y] < rank[x] => g[y] = f[y]
        BY <1>0, <2>4, <2>6, <3>1
      <4> QED
        BY <2>7, <4>1 DEF LooksDown
    <3>3. CASE rank[x] = p
      BY <2>6, <3>2, <3>3
    <3>4. CASE rank[x] < p
      <4>1. g[x] = f[x] /\ f[x] = value[x][f]
        BY <1>0, <2>4, <2>5, <2>6, <3>4
      <4> QED
        BY <3>2, <4>1
    <3> QED
      BY <3>1, <3>3, <3>4
  <2>9. Solves(g, k)
    BY <2>8
  <2> QED
    BY <2>2, <2>7, <2>9
<1>2. PICK f \in [D -> S] : Solves(f, n + 1)
  <2>1. n + 1 \in 0 .. n + 1
    OBVIOUS
  <2>2. n + 1 \notin Beyond
    <3> HIDE DEF Beyond
    <3> QED
      BY <1>1
  <2> QED
    BY <2>1, <2>2
<1> QED
  BY <1>0, <1>2

(* The value at each place is made of the values behind it. *)
LooksAhead(n, S, value) ==
    \A i \in 0 .. n : \A g, h \in [0 .. n -> S] :
        /\ value[i][g] \in S
        /\ (\A j \in i + 1 .. n : g[j] = h[j]) => value[i][g] = value[i][h]

(* A function on 0 .. n that is defined by such values exists: it is put   *)
(* together from its end.                                                  *)
LEMMA DefinedFromEnd ==
    ASSUME NEW n \in Nat, NEW S, NEW s \in S, NEW value, LooksAhead(n, S, value)
    PROVE  \E f \in [0 .. n -> S] : \A i \in 0 .. n : f[i] = value[i][f]
<1> DEFINE Solves(f, k) == \A i \in n + 1 - k .. n : f[i] = value[i][f]
<1> DEFINE Beyond == {k \in 0 .. n + 1 : ~\E f \in [0 .. n -> S] : Solves(f, k)}
<1>1. ASSUME Beyond # {}
      PROVE  FALSE
  <2>1. Beyond \subseteq Nat
    OBVIOUS
  <2>2. PICK k \in Beyond : \A l \in Beyond : k <= l
    BY <1>1, <2>1, LeastNumber
  <2>3. k # 0
    <3>1. PICK f : f = [i \in 0 .. n |-> s]
      OBVIOUS
    <3>2. f \in [0 .. n -> S]
      BY <3>1
    <3>3. Solves(f, 0)
      OBVIOUS
    <3> QED
      BY <3>2, <3>3
  <2>4. k \in 1 .. n + 1 /\ k - 1 \in 0 .. n + 1 /\ ~(k <= k - 1)
    <3>1. k \in 0 .. n + 1
      BY <2>2
    <3> QED
      BY <2>3, <3>1
  <2>5. PICK f \in [0 .. n -> S] : Solves(f, k - 1)
    BY <2>2, <2>4
  <2>6. PICK p \in 0 .. n : p = n + 1 - k /\ n + 1 - (k - 1) = p + 1
    BY <2>4
  <2>7. \A i \in p + 1 .. n : f[i] = value[i][f]
    BY <2>5, <2>6
  <2>8. PICK g : g = [f EXCEPT ![p] = value[p][f]]
    OBVIOUS
  <2>9. value[p][f] \in S
    BY DEF LooksAhead
  <2>10. g \in [0 .. n -> S] /\ g[p] = value[p][f]
    BY <2>8, <2>9
  <2>11. \A i \in p + 1 .. n : g[i] = f[i]
    BY <2>8
  <2>12. ASSUME NEW i \in p .. n
         PROVE  g[i] = value[i][g]
    <3>1. i \in 0 .. n /\ \A j \in i + 1 .. n : j \in p + 1 .. n
      OBVIOUS
    <3>2. value[i][g] = value[i][f]
      <4>1. \A j \in i + 1 .. n : g[j] = f[j]
        BY <2>11, <3>1
      <4> QED
        BY <2>10, <3>1, <4>1 DEF LooksAhead
    <3>3. CASE i = p
      BY <2>10, <3>2, <3>3
    <3>4. CASE i # p
      <4>1. i \in p + 1 .. n
        BY <3>4
      <4> QED
        BY <2>7, <2>11, <3>2, <4>1
    <3> QED
      BY <3>3, <3>4
  <2>13. Solves(g, k)
    BY <2>6, <2>12
  <2> QED
    BY <2>2, <2>10, <2>13
<1>2. n + 1 \in 0 .. n + 1 /\ n + 1 \notin Beyond
  <2>1. n + 1 \in 0 .. n + 1
    OBVIOUS
  <2>2. n + 1 \notin Beyond
    <3> HIDE DEF Beyond
    <3> QED
      BY <1>1
  <2> QED
    BY <2>1, <2>2
<1>3. PICK f \in [0 .. n -> S] : Solves(f, n + 1)
  BY <1>2
<1>4. n + 1 - (n + 1) = 0
  OBVIOUS
<1> QED
  BY <1>3, <1>4
=============================================================================
