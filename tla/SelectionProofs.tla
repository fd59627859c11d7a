---------------------------- MODULE SelectionProofs ----------------------------
(***************************************************************************)
(* What Keep returns, whatever the sequence and the set, and what the other  *)
(* operators on sequences return that the models are built from.            *)
(*                                                                         *)
(* Induction over the length of a sequence is by its least counterexample:   *)
(* the numbers for which a claim fails are a set of naturals, and a set of   *)
(* naturals that is not empty has a least element.                          *)
(***************************************************************************)
EXTENDS Selection, FiniteSetTheorems, WellFoundedInduction, TLAPS

LEMMA LeastElement ==
  ASSUME NEW S \in SUBSET Nat, S # {}
  PROVE  \E m \in S : \A k \in S : m <= k
<1>1. PICK m \in S : \A k \in S : <<k, m>> \notin OpToRel(<, Nat)
  BY WFMin, NatLessThanWellFounded, Zenon
<1>2. \A k \in S : ~(k < m)
  BY <1>1, Zenon DEF OpToRel
<1> QED
  BY <1>2

\* The least and the greatest of some numbers are among them.
LEMMA MinIsLeast ==
  ASSUME NEW S \in SUBSET Nat, S # {}
  PROVE  Min(S) \in S /\ \A k \in S : Min(S) <= k
BY LeastElement DEF Min

LEMMA MaxIsGreatest ==
  ASSUME NEW n \in Nat, NEW S \in SUBSET (0..n), S # {}
  PROVE  Max(S) \in S /\ \A k \in S : k <= Max(S)
<1> DEFINE D == {n - k : k \in S}
<1>0. \A k \in S : k \in Nat /\ n - k \in Nat
  OBVIOUS
<1>1. D \in SUBSET Nat /\ D # {}
  BY <1>0, Zenon
<1>2. PICK d \in D : \A e \in D : d <= e
  BY <1>1, LeastElement
<1>3. PICK m \in S : d = n - m
  OBVIOUS
<1>4. \A k \in S : n - m <= n - k
  BY <1>2, <1>3
<1>5. \A k \in S : k <= m
  BY <1>4
<1> QED
  BY <1>5 DEF Max

LEMMA MinOfTwo ==
  ASSUME NEW a \in Nat, NEW b \in Nat
  PROVE  Min({a, b}) = IF a <= b THEN a ELSE b
<1>1. Min({a, b}) \in {a, b} /\ \A k \in {a, b} : Min({a, b}) <= k
  BY MinIsLeast
<1> QED
  BY <1>1

-----------------------------------------------------------------------------
\* The values that the recursive function inside Keep takes.
LEMMA KeepSteps ==
  ASSUME NEW T, NEW s \in Seq(T), NEW S
  PROVE  \E k : /\ k = [n \in 0..Len(s) |->
                           IF n = 0 THEN <<>>
                           ELSE IF s[n] \in S THEN Append(k[n-1], s[n])
                           ELSE k[n-1]]
                /\ Keep(s, S) = k[Len(s)]
<1> DEFINE P(m) == \E k : k = [n \in 0..m |->
                                  IF n = 0 THEN <<>>
                                  ELSE IF s[n] \in S THEN Append(k[n-1], s[n])
                                  ELSE k[n-1]]
           bad == {m \in 0..Len(s) : ~P(m)}
<1>0. Len(s) \in Nat
  OBVIOUS
<1>1. ASSUME bad # {}
      PROVE  FALSE
  <2>1. bad \in SUBSET Nat
    BY <1>0
  <2>2. PICK m \in bad : \A j \in bad : m <= j
    BY <1>1, <2>1, LeastElement
  <2>3. CASE m = 0
    <3> DEFINE k == [n \in 0..0 |-> <<>>]
    <3>1. k = [n \in 0..m |-> IF n = 0 THEN <<>>
                              ELSE IF s[n] \in S THEN Append(k[n-1], s[n])
                              ELSE k[n-1]]
      BY <2>3
    <3> QED
      BY <3>1, <2>2
  <2>4. CASE m # 0
    <3>1. m \in Nat /\ m - 1 \in 0..Len(s) /\ ~(m <= m - 1)
      BY <1>0, <2>4
    <3>2. m - 1 \notin bad
      BY <2>2, <3>1
    <3>3. PICK k : k = [n \in 0..(m-1) |->
                           IF n = 0 THEN <<>>
                           ELSE IF s[n] \in S THEN Append(k[n-1], s[n])
                           ELSE k[n-1]]
      BY <3>1, <3>2
    <3> DEFINE last == IF s[m] \in S THEN Append(k[m-1], s[m]) ELSE k[m-1]
               j == [n \in 0..m |-> IF n = m THEN last ELSE k[n]]
    <3>4. \A n \in 0..(m-1) : j[n] = k[n]
      BY <3>1
    <3>5. \A n \in 0..m : j[n] = IF n = 0 THEN <<>>
                                 ELSE IF s[n] \in S THEN Append(j[n-1], s[n])
                                 ELSE j[n-1]
      <4> TAKE n \in 0..m
      <4>1. CASE n = m
        <5>1. j[n] = last /\ j[n-1] = k[m-1]
          BY <3>1, <3>4, <4>1
        <5> HIDE DEF j
        <5> QED
          BY <2>4, <4>1, <5>1
      <4>2. CASE n # m
        <5>1. n \in 0..(m-1) /\ (n # 0 => n - 1 \in 0..(m-1))
          BY <3>1, <4>2
        <5>2. k[n] = IF n = 0 THEN <<>>
                     ELSE IF s[n] \in S THEN Append(k[n-1], s[n])
                     ELSE k[n-1]
          BY <3>3, <5>1
        <5>3. j[n] = k[n] /\ (n # 0 => j[n-1] = k[n-1])
          BY <3>4, <5>1
        <5> HIDE DEF j
        <5> QED
          BY <5>2, <5>3
      <4> QED
        BY <4>1, <4>2
    <3>6. j = [n \in 0..m |-> IF n = 0 THEN <<>>
                              ELSE IF s[n] \in S THEN Append(j[n-1], s[n])
                              ELSE j[n-1]]
      <4>1. j = [n \in 0..m |-> j[n]]
        OBVIOUS
      <4> HIDE DEF j
      <4> QED
        BY <3>5, <4>1
    <3> QED
      BY <2>2, <3>6
  <2> QED
    BY <2>3, <2>4
<1>2. P(Len(s))
  <2>1. Len(s) \in 0..Len(s)
    BY <1>0
  <2> HIDE DEF P
  <2> QED
    BY <1>1, <2>1
<1> QED
  BY <1>2 DEF Keep

\* f tells for each place of q which place of s it comes from.
Places(f, q, s, S) ==
    /\ \A a, b \in DOMAIN f : a < b => f[a] < f[b]
    /\ \A a \in DOMAIN f : q[a] = s[f[a]] /\ s[f[a]] \in S
    /\ \A i \in 1..Len(s) : s[i] \in S => \E a \in DOMAIN f : f[a] = i

\* Keep goes through the places of s in order and loses none that is in S.
LEMMA KeepPlaces ==
  ASSUME NEW T, NEW s \in Seq(T), NEW S
  PROVE  /\ Keep(s, S) \in Seq(T)
         /\ \E f \in [1..Len(Keep(s, S)) -> 1..Len(s)] : Places(f, Keep(s, S), s, S)
<1>0. Len(s) \in Nat
  OBVIOUS
<1>1. PICK k : /\ k = [n \in 0..Len(s) |->
                          IF n = 0 THEN <<>>
                          ELSE IF s[n] \in S THEN Append(k[n-1], s[n])
                          ELSE k[n-1]]
               /\ Keep(s, S) = k[Len(s)]
  BY KeepSteps
<1>2. /\ k[0] = <<>>
      /\ \A n \in 1..Len(s) :
             k[n] = IF s[n] \in S THEN Append(k[n-1], s[n]) ELSE k[n-1]
  <2>1. \A n \in 0..Len(s) : k[n] = IF n = 0 THEN <<>>
                                    ELSE IF s[n] \in S THEN Append(k[n-1], s[n])
                                    ELSE k[n-1]
    BY <1>1
  <2> QED
    BY <1>0, <2>1
<1> DEFINE R(w, n) ==
      /\ w \in Seq(T)
      /\ \E f \in [1..Len(w) -> 1..n] :
             /\ \A a, b \in DOMAIN f : a < b => f[a] < f[b]
             /\ \A a \in DOMAIN f : w[a] = s[f[a]] /\ s[f[a]] \in S
             /\ \A i \in 1..n : s[i] \in S => \E a \in DOMAIN f : f[a] = i
           Q(n) == R(k[n], n)
           bad == {n \in 0..Len(s) : ~Q(n)}
<1>3. ASSUME bad # {}
      PROVE  FALSE
  <2>1. bad \in SUBSET Nat
    BY <1>0
  <2>2. PICK m \in bad : \A j \in bad : m <= j
    BY <1>3, <2>1, LeastElement
  <2>3. CASE m = 0
    <3>1. k[m] = <<>>
      BY <1>2, <2>3
    <3> DEFINE f == [a \in 1..0 |-> 0]
    <3>2. /\ f \in [1..Len(k[m]) -> 1..m]
          /\ DOMAIN f = {}
      BY <2>3, <3>1
    <3>3. \A i \in 1..m : FALSE
      BY <2>3
    <3> HIDE DEF f
    <3>4. k[m] \in Seq(T)
      BY <3>1
    <3>5. \E g \in [1..Len(k[m]) -> 1..m] :
             /\ \A a, b \in DOMAIN g : a < b => g[a] < g[b]
             /\ \A a \in DOMAIN g : k[m][a] = s[g[a]] /\ s[g[a]] \in S
             /\ \A i \in 1..m : s[i] \in S => \E a \in DOMAIN g : g[a] = i
      BY <3>2, <3>3, Zenon
    <3> QED
      BY <3>4, <3>5, <2>2
  <2>4. CASE m # 0
    <3>1. m \in 1..Len(s) /\ m - 1 \in 0..Len(s) /\ ~(m <= m - 1) /\ m \in Nat
      BY <1>0, <2>4
    <3>2. Q(m - 1)
      BY <2>2, <3>1
    <3>3. PICK f \in [1..Len(k[m-1]) -> 1..(m-1)] :
             /\ \A a, b \in DOMAIN f : a < b => f[a] < f[b]
             /\ \A a \in DOMAIN f : k[m-1][a] = s[f[a]] /\ s[f[a]] \in S
             /\ \A i \in 1..(m-1) : s[i] \in S => \E a \in DOMAIN f : f[a] = i
      BY <3>2
    <3> DEFINE q == k[m-1]
    <3>4. q \in Seq(T) /\ Len(q) \in Nat /\ DOMAIN f = 1..Len(q)
      BY <3>2, <3>3
    <3>5. k[m] = IF s[m] \in S THEN Append(q, s[m]) ELSE q
      BY <1>2, <3>1
    <3>6. \A a \in 1..Len(q) : f[a] \in 1..(m-1)
      BY <3>3
    <3>7. CASE s[m] \notin S
      <4>1. k[m] = q
        BY <3>5, <3>7
      <4>2. f \in [1..Len(k[m]) -> 1..m]
        BY <3>1, <3>3, <4>1
      <4>3. \A i \in 1..m : s[i] \in S => \E a \in DOMAIN f : f[a] = i
        BY <3>1, <3>3, <3>7
      <4>4. \A a \in DOMAIN f : k[m][a] = s[f[a]] /\ s[f[a]] \in S
        BY <3>3, <4>1
      <4>5. k[m] \in Seq(T)
        BY <3>4, <4>1
      <4>6. Q(m)
        BY <3>3, <4>2, <4>3, <4>4, <4>5, Zenon
      <4> QED
        BY <2>2, <4>6
    <3>8. CASE s[m] \in S
      <4>1. s[m] \in T
        BY <3>1
      <4>2. /\ k[m] = Append(q, s[m]) /\ k[m] \in Seq(T)
            /\ Len(k[m]) = Len(q) + 1
            /\ k[m][Len(q) + 1] = s[m]
            /\ \A a \in 1..Len(q) : k[m][a] = q[a]
        BY <3>4, <3>5, <3>8, <4>1
      <4> DEFINE g == [a \in 1..(Len(q) + 1) |-> IF a = Len(q) + 1 THEN m ELSE f[a]]
      <4>3. /\ g[Len(q) + 1] = m
            /\ \A a \in 1..Len(q) : g[a] = f[a]
            /\ DOMAIN g = 1..(Len(q) + 1)
        BY <3>4
      <4>4. g \in [1..Len(k[m]) -> 1..m]
        BY <3>1, <3>4, <3>6, <4>2
      <4> HIDE DEF g
      <4>5. \A a, b \in DOMAIN g : a < b => g[a] < g[b]
        <5> TAKE a, b \in DOMAIN g
        <5> HAVE a < b
        <5>1. a \in 1..Len(q) /\ b \in 1..(Len(q) + 1)
          BY <3>4, <4>3
        <5>2. CASE b = Len(q) + 1
          BY <3>1, <3>6, <4>3, <5>1, <5>2
        <5>3. CASE b \in 1..Len(q)
          BY <3>3, <3>4, <4>3, <5>1, <5>3
        <5>4. b = Len(q) + 1 \/ b \in 1..Len(q)
          <6>1. \A l \in Nat : \A x \in 1..(l + 1) : x = l + 1 \/ x \in 1..l
            OBVIOUS
          <6> QED
            BY <3>4, <5>1, <6>1, Zenon
        <5> QED
          BY <5>2, <5>3, <5>4
      <4>6. \A a \in DOMAIN g : k[m][a] = s[g[a]] /\ s[g[a]] \in S
        <5> TAKE a \in DOMAIN g
        <5>1. CASE a = Len(q) + 1
          BY <3>8, <4>2, <4>3, <5>1
        <5>2. CASE a \in 1..Len(q)
          BY <3>3, <3>4, <4>2, <4>3, <5>2
        <5>3. a = Len(q) + 1 \/ a \in 1..Len(q)
          BY <3>4, <4>3
        <5> QED
          BY <5>1, <5>2, <5>3
      <4>7. \A i \in 1..m : s[i] \in S => \E a \in DOMAIN g : g[a] = i
        <5> TAKE i \in 1..m
        <5> HAVE s[i] \in S
        <5>1. CASE i = m
          <6>1. Len(q) + 1 \in DOMAIN g
            BY <3>4, <4>3
          <6> QED
            BY <4>3, <5>1, <6>1, Zenon
        <5>2. CASE i \in 1..(m-1)
          <6>1. PICK a \in DOMAIN f : f[a] = i
            BY <3>3, <5>2
          <6> QED
            BY <3>4, <4>3, <6>1
        <5> QED
          BY <3>1, <5>1, <5>2
      <4>8. Q(m)
        BY <4>2, <4>4, <4>5, <4>6, <4>7
      <4> QED
        BY <2>2, <4>8
    <3> QED
      BY <3>7, <3>8
  <2> QED
    BY <2>3, <2>4
<1>4. Q(Len(s))
  BY <1>0, <1>3
<1> HIDE DEF R
<1>5. R(Keep(s, S), Len(s))
  BY <1>1, <1>4, Zenon
<1> QED
  BY <1>5, Zenon DEF R, Places

\* Nothing is kept that is not in the sequence and in the set, and all that is.
LEMMA KeepElements ==
  ASSUME NEW T, NEW s \in Seq(T), NEW S
  PROVE  Range(Keep(s, S)) = Range(s) \cap S
<1> DEFINE q == Keep(s, S)
<1>1. PICK f \in [1..Len(q) -> 1..Len(s)] : Places(f, q, s, S)
  BY KeepPlaces, Zenon
<1>2. q \in Seq(T)
  BY KeepPlaces
<1> HIDE DEF q
<1>3. DOMAIN q = 1..Len(q) /\ DOMAIN f = DOMAIN q /\ DOMAIN s = 1..Len(s)
  BY <1>1, <1>2
<1>4. \A x \in Range(q) : x \in Range(s) \cap S
  BY <1>1, <1>3 DEF Places, Range
<1>5. \A x \in Range(s) \cap S : x \in Range(q)
  BY <1>1, <1>3 DEF Places, Range
<1> QED
  BY <1>4, <1>5 DEF q

\* Nothing is kept more often than it is there.
LEMMA KeepCount ==
  ASSUME NEW T, NEW s \in Seq(T), NEW S, NEW e
  PROVE  /\ Len(Keep(s, S)) <= Len(s)
         /\ Count(Keep(s, S), e) <= Count(s, e)
<1> DEFINE q == Keep(s, S)
<1>1. PICK f \in [1..Len(q) -> 1..Len(s)] : Places(f, q, s, S)
  BY KeepPlaces, Zenon
<1>2. q \in Seq(T)
  BY KeepPlaces
<1> HIDE DEF q
<1>3. /\ DOMAIN q = 1..Len(q) /\ DOMAIN f = DOMAIN q /\ DOMAIN s = 1..Len(s)
      /\ Len(q) \in Nat /\ Len(s) \in Nat
  BY <1>1, <1>2
<1>4. \A a, b \in 1..Len(q) : f[a] = f[b] => a = b
  <2> TAKE a, b \in 1..Len(q)
  <2>1. f[a] \in Nat /\ f[b] \in Nat
    BY <1>1, <1>3
  <2> QED
    BY <1>1, <1>3, <2>1 DEF Places
<1>5. f \in Injection(1..Len(q), 1..Len(s))
  BY <1>3, <1>4 DEF Injection, IsInjective
<1>6. Cardinality(1..Len(q)) <= Cardinality(1..Len(s))
  BY <1>3, <1>5, FS_Injection, FS_Interval
<1>7. Len(q) <= Len(s)
  <2>1. \A n \in Nat : Cardinality(1..n) = n
    BY FS_Interval
  <2> QED
    BY <1>3, <1>6, <2>1
<1> DEFINE A == {a \in DOMAIN q : q[a] = e}
           B == {i \in DOMAIN s : s[i] = e}
           g == [a \in A |-> f[a]]
<1>8. g \in Injection(A, B)
  <2>1. \A a \in A : f[a] \in B
    BY <1>1, <1>3 DEF Places
  <2>2. \A a, b \in A : f[a] = f[b] => a = b
    BY <1>3, <1>4
  <2> HIDE DEF A, B
  <2> QED
    BY <2>1, <2>2 DEF Injection, IsInjective
<1>9. IsFiniteSet(B)
  <2>1. IsFiniteSet(1..Len(s))
    BY <1>3, FS_Interval
  <2>2. B \in SUBSET (1..Len(s))
    BY <1>3
  <2> QED
    BY <2>1, <2>2, FS_Subset
<1>10. Cardinality(A) <= Cardinality(B)
  <2> HIDE DEF g, A, B
  <2> QED
    BY <1>8, <1>9, FS_Injection
<1> QED
  BY <1>7, <1>10 DEF q, Count

\* A sequence whose elements are all in the set is kept as it is.
LEMMA KeepAll ==
  ASSUME NEW T, NEW s \in Seq(T), NEW S, \A i \in 1..Len(s) : s[i] \in S
  PROVE  Keep(s, S) = s
<1>0. Len(s) \in Nat /\ s = [i \in 1..Len(s) |-> s[i]]
  OBVIOUS
<1>1. PICK k : /\ k = [n \in 0..Len(s) |->
                          IF n = 0 THEN <<>>
                          ELSE IF s[n] \in S THEN Append(k[n-1], s[n])
                          ELSE k[n-1]]
               /\ Keep(s, S) = k[Len(s)]
  BY KeepSteps
<1>2. /\ k[0] = <<>>
      /\ \A n \in 1..Len(s) : k[n] = Append(k[n-1], s[n])
  <2>1. \A n \in 0..Len(s) : k[n] = IF n = 0 THEN <<>>
                                    ELSE IF s[n] \in S THEN Append(k[n-1], s[n])
                                    ELSE k[n-1]
    BY <1>1
  <2>2. \A n \in 1..Len(s) : n \in 0..Len(s) /\ n # 0 /\ s[n] \in S
    BY <1>0
  <2>3. 0 \in 0..Len(s)
    BY <1>0
  <2> QED
    BY <2>1, <2>2, <2>3, Zenon
<1> DEFINE Q(n) == /\ k[n] \in Seq(T) /\ Len(k[n]) = n
                   /\ \A i \in 1..n : k[n][i] = s[i]
           bad == {n \in 0..Len(s) : ~Q(n)}
<1>3. ASSUME bad # {}
      PROVE  FALSE
  <2>1. bad \in SUBSET Nat
    BY <1>0
  <2>2. PICK m \in bad : \A j \in bad : m <= j
    BY <1>3, <2>1, LeastElement
  <2>3. CASE m = 0
    <3>1. k[m] = <<>> /\ \A i \in 1..m : FALSE
      BY <1>2, <2>3
    <3>2. k[m] \in Seq(T) /\ Len(k[m]) = m
      BY <2>3, <3>1
    <3> QED
      BY <2>2, <3>1, <3>2
  <2>4. CASE m # 0
    <3>1. m \in 1..Len(s) /\ m - 1 \in 0..Len(s) /\ ~(m <= m - 1) /\ m \in Nat
      BY <1>0, <2>4
    <3>2. Q(m - 1)
      BY <2>2, <3>1
    <3> DEFINE q == k[m-1]
    <3>3. q \in Seq(T) /\ Len(q) = m - 1 /\ \A i \in 1..(m-1) : q[i] = s[i]
      BY <3>2
    <3>4. k[m] = Append(q, s[m])
      BY <1>2, <3>1
    <3>5. s[m] \in T
      BY <3>1
    <3> HIDE DEF q
    <3>6. Q(m)
      BY <3>1, <3>3, <3>4, <3>5
    <3> QED
      BY <2>2, <3>6
  <2> QED
    BY <2>3, <2>4
<1>4. Q(Len(s))
  BY <1>0, <1>3
<1>5. /\ Keep(s, S) \in Seq(T) /\ Len(Keep(s, S)) = Len(s)
      /\ \A i \in 1..Len(s) : Keep(s, S)[i] = s[i]
  BY <1>1, <1>4
<1> QED
  BY <1>0, <1>5

\* What FlattenSeq makes of sequences over a set is a sequence over that set.
LEMMA FlattenType ==
  ASSUME NEW T, NEW seqs \in Seq(Seq(T))
  PROVE  FlattenSeq(seqs) \in Seq(T)
<1>0. /\ Len(seqs) \in Nat
      /\ \A i \in 1..Len(seqs) : seqs[i] \in Seq(T)
  OBVIOUS
<1>1. CASE Len(seqs) = 0
  BY <1>1 DEF FlattenSeq
<1>2. CASE Len(seqs) # 0
  <2> DEFINE P(m) == \E k : k = [i \in 1..m |->
                                    IF i = 1 THEN seqs[i] ELSE k[i-1] \o seqs[i]]
             bad == {m \in 1..Len(seqs) : ~P(m)}
  <2>1. ASSUME bad # {}
        PROVE  FALSE
    <3>0. \A m \in 1..Len(seqs) : m \in Nat
      BY <1>0
    <3>1. bad \in SUBSET Nat
      BY <3>0, Zenon
    <3>2. PICK m \in bad : \A j \in bad : m <= j
      BY <2>1, <3>1, LeastElement
    <3>3. CASE m = 1
      <4> DEFINE k == [i \in 1..1 |-> seqs[1]]
      <4>1. k = [i \in 1..m |-> IF i = 1 THEN seqs[i] ELSE k[i-1] \o seqs[i]]
        BY <3>3
      <4> QED
        BY <4>1, <3>2
    <3>4. CASE m # 1
      <4>1. m \in Nat /\ m > 1 /\ m - 1 \in 1..Len(seqs) /\ ~(m <= m - 1)
        BY <1>0, <3>4
      <4>2. m - 1 \notin bad
        BY <3>2, <4>1
      <4>3. PICK k : k = [i \in 1..(m-1) |->
                             IF i = 1 THEN seqs[i] ELSE k[i-1] \o seqs[i]]
        BY <4>1, <4>2
      <4> DEFINE j == [i \in 1..m |-> IF i = m THEN k[m-1] \o seqs[m] ELSE k[i]]
      <4>4. \A i \in 1..(m-1) : j[i] = k[i]
        BY <4>1
      <4>5. \A i \in 1..m : j[i] = IF i = 1 THEN seqs[i] ELSE j[i-1] \o seqs[i]
        <5> TAKE i \in 1..m
        <5>1. CASE i = m
          <6>1. m - 1 \in 1..(m-1)
            BY <4>1
          <6>2. j[i] = k[m-1] \o seqs[m] /\ j[i-1] = k[m-1]
            BY <4>4, <5>1, <6>1, Zenon
          <6> HIDE DEF j
          <6> QED
            BY <3>4, <5>1, <6>2
        <5>2. CASE i # m
          <6>1. i \in 1..(m-1) /\ (i # 1 => i - 1 \in 1..(m-1))
            BY <4>1, <5>2
          <6>2. k[i] = IF i = 1 THEN seqs[i] ELSE k[i-1] \o seqs[i]
            BY <4>3, <6>1
          <6>3. j[i] = k[i] /\ (i # 1 => j[i-1] = k[i-1])
            BY <4>4, <6>1
          <6> HIDE DEF j
          <6> QED
            BY <6>2, <6>3
        <5> QED
          BY <5>1, <5>2
      <4>6. j = [i \in 1..m |-> IF i = 1 THEN seqs[i] ELSE j[i-1] \o seqs[i]]
        <5>1. j = [i \in 1..m |-> j[i]]
          OBVIOUS
        <5> HIDE DEF j
        <5> QED
          BY <4>5, <5>1
      <4> QED
        BY <3>2, <4>6
    <3> QED
      BY <3>3, <3>4
  <2>2. P(Len(seqs))
    <3>1. Len(seqs) \in 1..Len(seqs)
      BY <1>0, <1>2
    <3> HIDE DEF P
    <3> QED
      BY <2>1, <3>1
  <2>3. PICK k : /\ k = [i \in 1..Len(seqs) |->
                            IF i = 1 THEN seqs[i] ELSE k[i-1] \o seqs[i]]
                 /\ FlattenSeq(seqs) = k[Len(seqs)]
    BY <1>2, <2>2 DEF FlattenSeq
  <2>4. \A i \in 1..Len(seqs) :
           k[i] = IF i = 1 THEN seqs[i] ELSE k[i-1] \o seqs[i]
    BY <2>3
  <2> DEFINE worse == {m \in 1..Len(seqs) : k[m] \notin Seq(T)}
  <2>5. ASSUME worse # {}
        PROVE  FALSE
    <3>1. worse \in SUBSET Nat
      BY <1>0
    <3>2. PICK m \in worse : \A j \in worse : m <= j
      BY <2>5, <3>1, LeastElement
    <3>3. CASE m = 1
      BY <1>0, <2>4, <3>2, <3>3
    <3>4. CASE m # 1
      <4>1. m - 1 \in 1..Len(seqs) /\ ~(m <= m - 1)
        BY <1>0, <3>4
      <4>2. k[m-1] \in Seq(T)
        BY <3>2, <4>1
      <4>3. k[m] = k[m-1] \o seqs[m] /\ seqs[m] \in Seq(T)
        BY <1>0, <2>4, <3>2, <3>4
      <4>4. k[m] \in Seq(T)
        BY <4>2, <4>3
      <4> QED
        BY <3>2, <4>4
    <3> QED
      BY <3>3, <3>4
  <2>6. Len(seqs) \in 1..Len(seqs)
    BY <1>0, <1>2
  <2> QED
    BY <2>3, <2>5, <2>6
<1> QED
  BY <1>1, <1>2
=============================================================================
