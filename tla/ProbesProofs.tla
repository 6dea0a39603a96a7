---------------------------- MODULE ProbesProofs -----------------------------
(***************************************************************************)
(* Proofs about Probes, for any libraries, probes, hosts and bounds.       *)
(***************************************************************************)
EXTENDS Probes, FiniteSetTheorems, NaturalsInduction, TLAPS

-----------------------------------------------------------------------------
\* Numbers.

\* A set of numbers has a least element.
LEMMA LeastNat ==
  ASSUME NEW T, T \subseteq Nat, T # {}
  PROVE  \E n \in T : \A m \in T : n <= m
<1>1. PICK n \in T : \A m \in T : ~(<<m, n>> \in OpToRel(<, Nat))
  BY NatLessThanWellFounded, WFMin
<1>2. \A m \in T : ~(m < n)
  BY <1>1 DEF OpToRel
<1> QED
  BY <1>2

\* What holds of 0 and passes from each number to the next holds up to n.
LEMMA StepsUp ==
  ASSUME NEW n \in Nat, NEW T, 0 \in T, \A k \in 1..n : k - 1 \in T => k \in T
  PROVE  0..n \subseteq T
<1> DEFINE B == 0..n \ T
<1>1. SUFFICES ASSUME B # {} PROVE FALSE
  OBVIOUS
<1>2. PICK k \in B : \A m \in B : k <= m
  <2>1. B \subseteq Nat
    OBVIOUS
  <2> HIDE DEF B
  <2> QED
    BY <1>1, <2>1, LeastNat
<1>3. k \in 1..n /\ k - 1 \in 0..n
  BY <1>2
<1>4. k - 1 \in T
  BY <1>2, <1>3
<1> QED
  BY <1>2, <1>3, <1>4

\* A set of indices has a greatest one.
LEMMA MaxIn ==
  ASSUME NEW n \in Nat, NEW S, S \subseteq 1..n, S # {}
  PROVE  Max(S) \in S /\ \A y \in S : y <= Max(S)
<1> DEFINE T == {k \in Nat : n - k \in S}
<1>1. PICK m \in T : \A k \in T : m <= k
  <2>1. PICK x \in S : x \in 1..n
    OBVIOUS
  <2>2. n - x \in Nat /\ n - (n - x) = x
    BY <2>1
  <2>3. n - x \in T
    BY <2>2
  <2> HIDE DEF T
  <2> QED
    BY <2>3, LeastNat DEF T
<1>2. PICK x \in S : x = n - m /\ m \in Nat
  BY <1>1
<1>3. \A y \in S : x >= y
  <2> TAKE y \in S
  <2>1. y \in 1..n /\ n - y \in Nat /\ n - (n - y) = y
    OBVIOUS
  <2>2. n - y \in T
    BY <2>1
  <2>3. m <= n - y
    BY <1>1, <2>2
  <2> QED
    BY <1>2, <2>1, <2>3
<1>4. \A y \in S : Max(S) >= y /\ Max(S) \in S
  BY <1>3 DEF Max
<1> QED
  BY <1>4

\* The first of the indices that a test selects.
LEMMA MinIn ==
  ASSUME NEW S, S \subseteq Nat, S # {}
  PROVE  Min(S) \in S /\ \A y \in S : Min(S) <= y
<1>1. PICK n \in S : \A m \in S : n <= m
  BY LeastNat
<1> QED
  BY <1>1 DEF Min

-----------------------------------------------------------------------------
\* Folds.

\* g is the fold of the function F along s, as FoldLeft builds it up.
IsFold(g, F, base, s) ==
  g = [S \in SUBSET DOMAIN s |->
         IF S = {} THEN base ELSE F[<<g[S \ {Max(S)}], s[Max(S)]>>]]

\* It exists: it is built up by the size of the subsets.
LEMMA FoldExists ==
  ASSUME NEW A, NEW E, NEW F \in [A \X E -> A], NEW base \in A, NEW s \in Seq(E)
  PROVE  \E g \in [SUBSET DOMAIN s -> A] : IsFold(g, F, base, s)
<1> DEFINE D == DOMAIN s
           Upto(n) == {S \in SUBSET D : Cardinality(S) <= n}
           Val(g, S) == IF S = {} THEN base ELSE F[<<g[S \ {Max(S)}], s[Max(S)]>>]
           Part(g, n) == g \in [Upto(n) -> A] /\ \A S \in Upto(n) : g[S] = Val(g, S)
           T == {n \in Nat : \E g : Part(g, n)}
<1>1. D = 1..Len(s) /\ Len(s) \in Nat /\ IsFiniteSet(D)
  BY FS_Interval
<1>2. \A S \in SUBSET D : Cardinality(S) \in Nat /\ IsFiniteSet(S)
  BY <1>1, FS_Subset, FS_CardinalityType
<1>3. Cardinality(D) \in Nat /\ Upto(Cardinality(D)) = SUBSET D
  BY <1>1, FS_Subset, FS_CardinalityType
<1>4. \A S \in SUBSET D : S # {} => Max(S) \in S /\ Max(S) \in D
  BY <1>1, MaxIn
<1>5. \A S \in SUBSET D : S # {} => /\ S \ {Max(S)} \in SUBSET D
                                    /\ Cardinality(S \ {Max(S)}) = Cardinality(S) - 1
  BY <1>2, <1>4, FS_RemoveElement
<1>6. 0 \in T
  <2> DEFINE g == [S \in Upto(0) |-> base]
  <2>1. \A S \in Upto(0) : S = {}
    BY <1>2, FS_EmptySet
  <2>2. Part(g, 0)
    BY <2>1
  <2> QED
    BY <2>2
<1>7. ASSUME NEW n \in Nat, n \in T
      PROVE  n + 1 \in T
  <2>1. PICK g : Part(g, n)
    BY <1>7
  <2> DEFINE h == [S \in Upto(n + 1) |-> Val(g, S)]
  <2>2. \A S \in Upto(n) : S \in Upto(n + 1)
    BY <1>2
  <2>3. \A S \in Upto(n) : h[S] = g[S]
    BY <2>1, <2>2
  <2>4. \A S \in Upto(n + 1) : S # {} => S \ {Max(S)} \in Upto(n)
    BY <1>2, <1>5
  <2>5. \A S \in Upto(n + 1) : S # {} => s[Max(S)] \in E /\ g[S \ {Max(S)}] \in A
    BY <1>4, <2>1, <2>4
  <2>6. h \in [Upto(n + 1) -> A]
    BY <2>5
  <2>7. \A S \in Upto(n + 1) : h[S] = Val(h, S)
    BY <2>3, <2>4
  <2>8. Part(h, n + 1)
    BY <2>6, <2>7
  <2> HIDE DEF Part, h
  <2> QED
    BY <2>8
<1>8. Cardinality(D) \in T
  <2> HIDE DEF T
  <2>1. \A k \in 1..Cardinality(D) : k - 1 \in T => k \in T
    <3> TAKE k \in 1..Cardinality(D)
    <3> HAVE k - 1 \in T
    <3>1. k - 1 \in Nat /\ (k - 1) + 1 = k
      BY <1>3
    <3> QED
      BY <1>7, <3>1
  <2> DEFINE n == Cardinality(D)
  <2> HIDE DEF n
  <2>2. n \in Nat /\ \A k \in 1..n : k - 1 \in T => k \in T
    BY <1>3, <2>1 DEF n
  <2>3. 0..n \subseteq T
    BY <1>6, <2>2, StepsUp
  <2>4. n \in 0..n
    BY <2>2
  <2> QED
    BY <2>3, <2>4 DEF n
<1>9. PICK g : Part(g, Cardinality(D))
  BY <1>8
<1> QED
  BY <1>3, <1>9 DEF IsFold

\* The prefixes of a sequence, by which FoldLeft goes down.
LEMMA NoPrefix ==
  ASSUME NEW E, NEW s \in Seq(E)
  PROVE  1..0 = {} /\ 0 \in 0..Len(s) /\ 1..0 \in SUBSET DOMAIN s
OBVIOUS

\* The prefix of length k ends with k.
LEMMA Prefix ==
  ASSUME NEW E, NEW s \in Seq(E), NEW k \in 1..Len(s)
  PROVE  /\ k \in 0..Len(s) /\ k - 1 \in 0..Len(s)
         /\ 1..k \in SUBSET DOMAIN s /\ 1..k # {}
         /\ Max(1..k) = k /\ (1..k) \ {k} = 1..(k - 1)
<1>1. k \in 1..k /\ k \in Nat /\ 1..k \in SUBSET DOMAIN s
  OBVIOUS
<1>2. 1..k # {}
  BY <1>1, Zenon
<1>3. Max(1..k) \in 1..k /\ \A y \in 1..k : y <= Max(1..k)
  BY <1>1, <1>2, MaxIn
<1>4. Max(1..k) = k
  BY <1>1, <1>3
<1>5. (1..k) \ {k} = 1..(k - 1)
  BY <1>1
<1> QED
  BY <1>1, <1>2, <1>4, <1>5

AppendRun(h, A, base, s) ==
  /\ h \in [0..Len(s) -> A] /\ h[0] = base
  /\ \A k \in 1..Len(s) : h[k] = data_list_append(h[k - 1], s[k])
  /\ FoldLeft(data_list_append, base, s) = h[Len(s)]

\* A fold of data_list_append goes element by element.
LEMMA AppendSteps ==
  ASSUME NEW A, NEW E, NEW base \in A, NEW s \in Seq(E),
         \A a \in A, e \in E : data_list_append(a, e) \in A
  PROVE  \E h : AppendRun(h, A, base, s)
<1> DEFINE F == [x \in A \X E |-> data_list_append(x[1], x[2])]
           Eq(g) == g = [S \in SUBSET DOMAIN s |->
                           IF S = {} THEN base ELSE data_list_append(g[S \ {Max(S)}], s[Max(S)])]
           c == CHOOSE g : Eq(g)
           h == [k \in 0..Len(s) |-> c[1..k]]
           G == {k \in 0..Len(s) : h[k] \in A}
<1>1. FoldLeft(data_list_append, base, s) = c[DOMAIN s]
  BY DEF FoldLeft, MapThenFoldSet
<1> DOMAIN s = 1..Len(s) /\ Len(s) \in Nat /\ \A i \in 1..Len(s) : s[i] \in E
  OBVIOUS
<1>2. F \in [A \X E -> A] /\ \A a \in A, e \in E : F[<<a, e>>] = data_list_append(a, e)
  OBVIOUS
<1> HIDE DEF F
<1>3. PICK g \in [SUBSET DOMAIN s -> A] : IsFold(g, F, base, s)
  BY <1>2, FoldExists
<1>4. Eq(g)
  <2>1. \A S \in SUBSET DOMAIN s : S # {} =>
          F[<<g[S \ {Max(S)}], s[Max(S)]>>] = data_list_append(g[S \ {Max(S)}], s[Max(S)])
    BY <1>2, <1>3, MaxIn
  <2> QED
    BY <1>3, <2>1 DEF IsFold
<1>5. Eq(c)
  <2> HIDE DEF Eq
  <2> QED
    BY <1>4, Zenon
<1>6. \A S \in SUBSET DOMAIN s :
        c[S] = IF S = {} THEN base ELSE data_list_append(c[S \ {Max(S)}], s[Max(S)])
  BY <1>5
<1> HIDE DEF c, Eq
<1>7. h[0] = base
  BY <1>6, NoPrefix
<1>8. \A k \in 1..Len(s) : h[k] = data_list_append(h[k - 1], s[k])
  BY <1>6, Prefix, ZenonT(60)
<1>9. 0 \in G /\ \A k \in 1..Len(s) : k - 1 \in G => k \in G
  <2> HIDE DEF h
  <2> QED
    BY <1>7, <1>8
<1> HIDE DEF G
<1>10. 0..Len(s) \subseteq G
  BY <1>9, StepsUp
<1>11. h \in [0..Len(s) -> A] /\ FoldLeft(data_list_append, base, s) = h[Len(s)]
  BY <1>1, <1>10 DEF G
<1>12. AppendRun(h, A, base, s)
  BY <1>7, <1>8, <1>11 DEF AppendRun
<1> QED
  BY <1>12

TrimRun(h, A, base, s) ==
  /\ h \in [0..Len(s) -> A] /\ h[0] = base
  /\ \A k \in 1..Len(s) : h[k] = trim(h[k - 1], s[k])
  /\ FoldLeft(trim, base, s) = h[Len(s)]

\* A fold of trim goes element by element.
LEMMA TrimSteps ==
  ASSUME NEW A, NEW E, NEW base \in A, NEW s \in Seq(E),
         \A a \in A, e \in E : trim(a, e) \in A
  PROVE  \E h : TrimRun(h, A, base, s)
<1> DEFINE F == [x \in A \X E |-> trim(x[1], x[2])]
           Eq(g) == g = [S \in SUBSET DOMAIN s |->
                           IF S = {} THEN base ELSE trim(g[S \ {Max(S)}], s[Max(S)])]
           c == CHOOSE g : Eq(g)
           h == [k \in 0..Len(s) |-> c[1..k]]
           G == {k \in 0..Len(s) : h[k] \in A}
<1>1. FoldLeft(trim, base, s) = c[DOMAIN s]
  BY DEF FoldLeft, MapThenFoldSet
<1> DOMAIN s = 1..Len(s) /\ Len(s) \in Nat /\ \A i \in 1..Len(s) : s[i] \in E
  OBVIOUS
<1>2. F \in [A \X E -> A] /\ \A a \in A, e \in E : F[<<a, e>>] = trim(a, e)
  OBVIOUS
<1> HIDE DEF F
<1>3. PICK g \in [SUBSET DOMAIN s -> A] : IsFold(g, F, base, s)
  BY <1>2, FoldExists
<1>4. Eq(g)
  <2>1. \A S \in SUBSET DOMAIN s : S # {} =>
          F[<<g[S \ {Max(S)}], s[Max(S)]>>] = trim(g[S \ {Max(S)}], s[Max(S)])
    BY <1>2, <1>3, MaxIn
  <2> QED
    BY <1>3, <2>1 DEF IsFold
<1>5. Eq(c)
  <2> HIDE DEF Eq
  <2> QED
    BY <1>4, Zenon
<1>6. \A S \in SUBSET DOMAIN s :
        c[S] = IF S = {} THEN base ELSE trim(c[S \ {Max(S)}], s[Max(S)])
  BY <1>5
<1> HIDE DEF c, Eq
<1>7. h[0] = base
  BY <1>6, NoPrefix
<1>8. \A k \in 1..Len(s) : h[k] = trim(h[k - 1], s[k])
  BY <1>6, Prefix, ZenonT(60)
<1>9. 0 \in G /\ \A k \in 1..Len(s) : k - 1 \in G => k \in G
  <2> HIDE DEF h
  <2> QED
    BY <1>7, <1>8
<1> HIDE DEF G
<1>10. 0..Len(s) \subseteq G
  BY <1>9, StepsUp
<1>11. h \in [0..Len(s) -> A] /\ FoldLeft(trim, base, s) = h[Len(s)]
  BY <1>1, <1>10 DEF G
<1>12. TrimRun(h, A, base, s)
  BY <1>7, <1>8, <1>11 DEF TrimRun
<1> QED
  BY <1>12

AddRun(h, A, base, s) ==
  /\ h \in [0..Len(s) -> A] /\ h[0] = base
  /\ \A k \in 1..Len(s) : h[k] = resolve_add(h[k - 1], s[k])
  /\ FoldLeft(resolve_add, base, s) = h[Len(s)]

\* A fold of resolve_add goes element by element.
LEMMA AddSteps ==
  ASSUME NEW A, NEW E, NEW base \in A, NEW s \in Seq(E),
         \A a \in A, e \in E : resolve_add(a, e) \in A
  PROVE  \E h : AddRun(h, A, base, s)
<1> DEFINE F == [x \in A \X E |-> resolve_add(x[1], x[2])]
           Eq(g) == g = [S \in SUBSET DOMAIN s |->
                           IF S = {} THEN base ELSE resolve_add(g[S \ {Max(S)}], s[Max(S)])]
           c == CHOOSE g : Eq(g)
           h == [k \in 0..Len(s) |-> c[1..k]]
           G == {k \in 0..Len(s) : h[k] \in A}
<1>1. FoldLeft(resolve_add, base, s) = c[DOMAIN s]
  BY DEF FoldLeft, MapThenFoldSet
<1> DOMAIN s = 1..Len(s) /\ Len(s) \in Nat /\ \A i \in 1..Len(s) : s[i] \in E
  OBVIOUS
<1>2. F \in [A \X E -> A] /\ \A a \in A, e \in E : F[<<a, e>>] = resolve_add(a, e)
  OBVIOUS
<1> HIDE DEF F
<1>3. PICK g \in [SUBSET DOMAIN s -> A] : IsFold(g, F, base, s)
  BY <1>2, FoldExists
<1>4. Eq(g)
  <2>1. \A S \in SUBSET DOMAIN s : S # {} =>
          F[<<g[S \ {Max(S)}], s[Max(S)]>>] = resolve_add(g[S \ {Max(S)}], s[Max(S)])
    BY <1>2, <1>3, MaxIn
  <2> QED
    BY <1>3, <2>1 DEF IsFold
<1>5. Eq(c)
  <2> HIDE DEF Eq
  <2> QED
    BY <1>4, Zenon
<1>6. \A S \in SUBSET DOMAIN s :
        c[S] = IF S = {} THEN base ELSE resolve_add(c[S \ {Max(S)}], s[Max(S)])
  BY <1>5
<1> HIDE DEF c, Eq
<1>7. h[0] = base
  BY <1>6, NoPrefix
<1>8. \A k \in 1..Len(s) : h[k] = resolve_add(h[k - 1], s[k])
  BY <1>6, Prefix, ZenonT(60)
<1>9. 0 \in G /\ \A k \in 1..Len(s) : k - 1 \in G => k \in G
  <2> HIDE DEF h
  <2> QED
    BY <1>7, <1>8
<1> HIDE DEF G
<1>10. 0..Len(s) \subseteq G
  BY <1>9, StepsUp
<1>11. h \in [0..Len(s) -> A] /\ FoldLeft(resolve_add, base, s) = h[Len(s)]
  BY <1>1, <1>10 DEF G
<1>12. AddRun(h, A, base, s)
  BY <1>7, <1>8, <1>11 DEF AddRun
<1> QED
  BY <1>12

MoveRun(h, A, base, s) ==
  /\ h \in [0..Len(s) -> A] /\ h[0] = base
  /\ \A k \in 1..Len(s) : h[k] = move(h[k - 1], s[k])
  /\ FoldLeft(move, base, s) = h[Len(s)]

\* A fold of move goes element by element.
LEMMA MoveSteps ==
  ASSUME NEW A, NEW E, NEW base \in A, NEW s \in Seq(E),
         \A a \in A, e \in E : move(a, e) \in A
  PROVE  \E h : MoveRun(h, A, base, s)
<1> DEFINE F == [x \in A \X E |-> move(x[1], x[2])]
           Eq(g) == g = [S \in SUBSET DOMAIN s |->
                           IF S = {} THEN base ELSE move(g[S \ {Max(S)}], s[Max(S)])]
           c == CHOOSE g : Eq(g)
           h == [k \in 0..Len(s) |-> c[1..k]]
           G == {k \in 0..Len(s) : h[k] \in A}
<1>1. FoldLeft(move, base, s) = c[DOMAIN s]
  BY DEF FoldLeft, MapThenFoldSet
<1> DOMAIN s = 1..Len(s) /\ Len(s) \in Nat /\ \A i \in 1..Len(s) : s[i] \in E
  OBVIOUS
<1>2. F \in [A \X E -> A] /\ \A a \in A, e \in E : F[<<a, e>>] = move(a, e)
  OBVIOUS
<1> HIDE DEF F
<1>3. PICK g \in [SUBSET DOMAIN s -> A] : IsFold(g, F, base, s)
  BY <1>2, FoldExists
<1>4. Eq(g)
  <2>1. \A S \in SUBSET DOMAIN s : S # {} =>
          F[<<g[S \ {Max(S)}], s[Max(S)]>>] = move(g[S \ {Max(S)}], s[Max(S)])
    BY <1>2, <1>3, MaxIn
  <2> QED
    BY <1>3, <2>1 DEF IsFold
<1>5. Eq(c)
  <2> HIDE DEF Eq
  <2> QED
    BY <1>4, Zenon
<1>6. \A S \in SUBSET DOMAIN s :
        c[S] = IF S = {} THEN base ELSE move(c[S \ {Max(S)}], s[Max(S)])
  BY <1>5
<1> HIDE DEF c, Eq
<1>7. h[0] = base
  BY <1>6, NoPrefix
<1>8. \A k \in 1..Len(s) : h[k] = move(h[k - 1], s[k])
  BY <1>6, Prefix, ZenonT(60)
<1>9. 0 \in G /\ \A k \in 1..Len(s) : k - 1 \in G => k \in G
  <2> HIDE DEF h
  <2> QED
    BY <1>7, <1>8
<1> HIDE DEF G
<1>10. 0..Len(s) \subseteq G
  BY <1>9, StepsUp
<1>11. h \in [0..Len(s) -> A] /\ FoldLeft(move, base, s) = h[Len(s)]
  BY <1>1, <1>10 DEF G
<1>12. MoveRun(h, A, base, s)
  BY <1>7, <1>8, <1>11 DEF MoveRun
<1> QED
  BY <1>12

RmRun(h, A, base, s) ==
  /\ h \in [0..Len(s) -> A] /\ h[0] = base
  /\ \A k \in 1..Len(s) : h[k] = rm(h[k - 1], s[k])
  /\ FoldLeft(rm, base, s) = h[Len(s)]

\* A fold of rm goes element by element.
LEMMA RmSteps ==
  ASSUME NEW A, NEW E, NEW base \in A, NEW s \in Seq(E),
         \A a \in A, e \in E : rm(a, e) \in A
  PROVE  \E h : RmRun(h, A, base, s)
<1> DEFINE F == [x \in A \X E |-> rm(x[1], x[2])]
           Eq(g) == g = [S \in SUBSET DOMAIN s |->
                           IF S = {} THEN base ELSE rm(g[S \ {Max(S)}], s[Max(S)])]
           c == CHOOSE g : Eq(g)
           h == [k \in 0..Len(s) |-> c[1..k]]
           G == {k \in 0..Len(s) : h[k] \in A}
<1>1. FoldLeft(rm, base, s) = c[DOMAIN s]
  BY DEF FoldLeft, MapThenFoldSet
<1> DOMAIN s = 1..Len(s) /\ Len(s) \in Nat /\ \A i \in 1..Len(s) : s[i] \in E
  OBVIOUS
<1>2. F \in [A \X E -> A] /\ \A a \in A, e \in E : F[<<a, e>>] = rm(a, e)
  OBVIOUS
<1> HIDE DEF F
<1>3. PICK g \in [SUBSET DOMAIN s -> A] : IsFold(g, F, base, s)
  BY <1>2, FoldExists
<1>4. Eq(g)
  <2>1. \A S \in SUBSET DOMAIN s : S # {} =>
          F[<<g[S \ {Max(S)}], s[Max(S)]>>] = rm(g[S \ {Max(S)}], s[Max(S)])
    BY <1>2, <1>3, MaxIn
  <2> QED
    BY <1>3, <2>1 DEF IsFold
<1>5. Eq(c)
  <2> HIDE DEF Eq
  <2> QED
    BY <1>4, Zenon
<1>6. \A S \in SUBSET DOMAIN s :
        c[S] = IF S = {} THEN base ELSE rm(c[S \ {Max(S)}], s[Max(S)])
  BY <1>5
<1> HIDE DEF c, Eq
<1>7. h[0] = base
  BY <1>6, NoPrefix
<1>8. \A k \in 1..Len(s) : h[k] = rm(h[k - 1], s[k])
  BY <1>6, Prefix, ZenonT(60)
<1>9. 0 \in G /\ \A k \in 1..Len(s) : k - 1 \in G => k \in G
  <2> HIDE DEF h
  <2> QED
    BY <1>7, <1>8
<1> HIDE DEF G
<1>10. 0..Len(s) \subseteq G
  BY <1>9, StepsUp
<1>11. h \in [0..Len(s) -> A] /\ FoldLeft(rm, base, s) = h[Len(s)]
  BY <1>1, <1>10 DEF G
<1>12. RmRun(h, A, base, s)
  BY <1>7, <1>8, <1>11 DEF RmRun
<1> QED
  BY <1>12

RemoveRun(h, A, base, s) ==
  /\ h \in [0..Len(s) -> A] /\ h[0] = base
  /\ \A k \in 1..Len(s) : h[k] = resolve_rm(h[k - 1], s[k])
  /\ FoldLeft(resolve_rm, base, s) = h[Len(s)]

\* A fold of resolve_rm goes element by element.
LEMMA RemoveSteps ==
  ASSUME NEW A, NEW E, NEW base \in A, NEW s \in Seq(E),
         \A a \in A, e \in E : resolve_rm(a, e) \in A
  PROVE  \E h : RemoveRun(h, A, base, s)
<1> DEFINE F == [x \in A \X E |-> resolve_rm(x[1], x[2])]
           Eq(g) == g = [S \in SUBSET DOMAIN s |->
                           IF S = {} THEN base ELSE resolve_rm(g[S \ {Max(S)}], s[Max(S)])]
           c == CHOOSE g : Eq(g)
           h == [k \in 0..Len(s) |-> c[1..k]]
           G == {k \in 0..Len(s) : h[k] \in A}
<1>1. FoldLeft(resolve_rm, base, s) = c[DOMAIN s]
  BY DEF FoldLeft, MapThenFoldSet
<1> DOMAIN s = 1..Len(s) /\ Len(s) \in Nat /\ \A i \in 1..Len(s) : s[i] \in E
  OBVIOUS
<1>2. F \in [A \X E -> A] /\ \A a \in A, e \in E : F[<<a, e>>] = resolve_rm(a, e)
  OBVIOUS
<1> HIDE DEF F
<1>3. PICK g \in [SUBSET DOMAIN s -> A] : IsFold(g, F, base, s)
  BY <1>2, FoldExists
<1>4. Eq(g)
  <2>1. \A S \in SUBSET DOMAIN s : S # {} =>
          F[<<g[S \ {Max(S)}], s[Max(S)]>>] = resolve_rm(g[S \ {Max(S)}], s[Max(S)])
    BY <1>2, <1>3, MaxIn
  <2> QED
    BY <1>3, <2>1 DEF IsFold
<1>5. Eq(c)
  <2> HIDE DEF Eq
  <2> QED
    BY <1>4, Zenon
<1>6. \A S \in SUBSET DOMAIN s :
        c[S] = IF S = {} THEN base ELSE resolve_rm(c[S \ {Max(S)}], s[Max(S)])
  BY <1>5
<1> HIDE DEF c, Eq
<1>7. h[0] = base
  BY <1>6, NoPrefix
<1>8. \A k \in 1..Len(s) : h[k] = resolve_rm(h[k - 1], s[k])
  BY <1>6, Prefix, ZenonT(60)
<1>9. 0 \in G /\ \A k \in 1..Len(s) : k - 1 \in G => k \in G
  <2> HIDE DEF h
  <2> QED
    BY <1>7, <1>8
<1> HIDE DEF G
<1>10. 0..Len(s) \subseteq G
  BY <1>9, StepsUp
<1>11. h \in [0..Len(s) -> A] /\ FoldLeft(resolve_rm, base, s) = h[Len(s)]
  BY <1>1, <1>10 DEF G
<1>12. RemoveRun(h, A, base, s)
  BY <1>7, <1>8, <1>11 DEF RemoveRun
<1> QED
  BY <1>12

-----------------------------------------------------------------------------
\* Sequences.

\* The length of a concatenation.
LEMMA Concat ==
  ASSUME NEW S, NEW a \in Seq(S), NEW b \in Seq(S)
  PROVE  a \o b \in Seq(S) /\ Len(a \o b) = Len(b) + Len(a)
OBVIOUS

\* What RemoveAt leaves, index by index.
LEMMA RemoveAtIs ==
  ASSUME NEW S, NEW s \in Seq(S), NEW i \in 1..Len(s)
  PROVE  /\ RemoveAt(s, i) \in Seq(S) /\ Len(RemoveAt(s, i)) = Len(s) - 1
         /\ \A j \in 1..(Len(s) - 1) :
              RemoveAt(s, i)[j] = IF j < i THEN s[j] ELSE s[j + 1]
<1> DEFINE a == SubSeq(s, 1, i - 1)
           b == SubSeq(s, i + 1, Len(s))
<1>1. a \in Seq(S) /\ Len(a) = i - 1 /\ \A j \in 1..(i - 1) : a[j] = s[j]
  OBVIOUS
<1>2. b \in Seq(S) /\ Len(b) = Len(s) - i /\ \A j \in 1..(Len(s) - i) : b[j] = s[i + j]
  OBVIOUS
<1>3. RemoveAt(s, i) = a \o b
  BY DEF RemoveAt
<1> HIDE DEF a, b
<1>4. RemoveAt(s, i) \in Seq(S) /\ Len(RemoveAt(s, i)) = Len(s) - 1
  BY <1>1, <1>2, <1>3
<1>5. ASSUME NEW j \in 1..(Len(s) - 1)
      PROVE  RemoveAt(s, i)[j] = IF j < i THEN s[j] ELSE s[j + 1]
  <2>1. CASE j < i
    BY <1>1, <1>2, <1>3, <2>1
  <2>2. CASE ~ (j < i)
    <3>1. j - (i - 1) \in 1..(Len(s) - i) /\ i + (j - (i - 1)) = j + 1
      BY <2>2
    <3>2. (a \o b)[j] = b[j - (i - 1)]
      BY <1>1, <1>2, <2>2
    <3> QED
      BY <1>2, <1>3, <2>2, <3>1, <3>2
  <2> QED
    BY <2>1, <2>2
<1> QED
  BY <1>4, <1>5

\* RemoveFirst takes the first occurrence out.
LEMMA RemoveFirstIs ==
  ASSUME NEW S, NEW s \in Seq(S), NEW e, \E i \in 1..Len(s) : s[i] = e
  PROVE  \E i \in 1..Len(s) : s[i] = e /\ RemoveFirst(s, e) = RemoveAt(s, i)
<1> DEFINE I == {i \in 1..Len(s) : s[i] = e}
<1>1. I # {} /\ I \subseteq Nat
  OBVIOUS
<1>2. Min(I) \in I
  BY <1>1, MinIn
<1>3. RemoveFirst(s, e) = RemoveAt(s, Min(I))
  BY <1>1 DEF RemoveFirst, SelectInSeq
<1> QED
  BY <1>2, <1>3

\* No other element goes, and none comes.
LEMMA RemoveFirstKeeps ==
  ASSUME NEW S, NEW s \in Seq(S), NEW e, \E i \in 1..Len(s) : s[i] = e
  PROVE  /\ RemoveFirst(s, e) \in Seq(S) /\ Len(RemoveFirst(s, e)) = Len(s) - 1
         /\ \A j \in 1..Len(s) : s[j] # e =>
              \E k \in 1..(Len(s) - 1) : RemoveFirst(s, e)[k] = s[j]
<1>1. PICK i \in 1..Len(s) : s[i] = e /\ RemoveFirst(s, e) = RemoveAt(s, i)
  BY RemoveFirstIs
<1>2. ASSUME NEW j \in 1..Len(s), s[j] # e
      PROVE  \E k \in 1..(Len(s) - 1) : RemoveAt(s, i)[k] = s[j]
  <2>1. CASE j < i
    <3>1. j \in 1..(Len(s) - 1)
      BY <2>1
    <3>2. RemoveAt(s, i)[j] = s[j]
      BY <2>1, <3>1, RemoveAtIs
    <3> QED
      BY <3>1, <3>2
  <2>2. CASE j > i
    <3>1. j - 1 \in 1..(Len(s) - 1) /\ ~ (j - 1 < i) /\ (j - 1) + 1 = j
      BY <2>2
    <3>2. RemoveAt(s, i)[j - 1] = s[j]
      BY <3>1, RemoveAtIs
    <3> QED
      BY <3>1, <3>2
  <2> QED
    BY <1>1, <1>2, <2>1, <2>2
<1> QED
  BY <1>1, <1>2, RemoveAtIs

-----------------------------------------------------------------------------
\* The elements of the lists.

\* A library with its probes and counters; with the right number of probes;
\* with the right size as well; and as a message brings it.
Elem == [lib : Libs, probes : Seq(Probes), size : Int, func_num : Int]
Exact == {e \in Elem : e.func_num = Len(e.probes)}
Sized == {e \in Exact : e.size = Len(e.probes)}
Plain == {e \in Sized : IsInjective(e.probes)}

\* The search finds the first element with the path, or none.
LEMMA Finds ==
  ASSUME NEW E, NEW where \in Seq(E), NEW lib
  PROVE  LET i == data_list_find_data(where, lib)
         IN  /\ i \in 0..Len(where)
             /\ i = 0 => \A j \in 1..Len(where) : where[j].lib # lib
             /\ i # 0 => where[i].lib = lib
<1> DEFINE I == {i \in 1..Len(where) : where[i].lib = lib}
<1>1. data_list_find_data(where, lib) = IF I # {} THEN Min(I) ELSE 0
  BY DEF data_list_find_data, SelectInSeq
<1>2. CASE I = {}
  BY <1>1, <1>2
<1>3. CASE I # {}
  <2>1. I \subseteq Nat
    OBVIOUS
  <2>2. Min(I) \in I
    BY <1>3, <2>1, MinIn
  <2> QED
    BY <1>1, <1>3, <2>2
<1> QED
  BY <1>2, <1>3

\* Removing a probe that is there keeps the counters right.
LEMMA RmElement ==
  ASSUME NEW e \in Elem, NEW x
  PROVE  /\ probe_list_rm_element(e, x) \in Elem
         /\ probe_list_rm_element(e, x).lib = e.lib
         /\ Len(probe_list_rm_element(e, x).probes) <= Len(e.probes)
         /\ find_probe(e, x) =>
              /\ e \in Exact => probe_list_rm_element(e, x) \in Exact
              /\ e \in Sized => probe_list_rm_element(e, x) \in Sized
              /\ \A y : y # x /\ find_probe(e, y) => find_probe(probe_list_rm_element(e, x), y)
<1> DEFINE r == probe_list_rm_element(e, x)
           p == RemoveFirst(e.probes, x)
<1>1. e.probes \in Seq(Probes) /\ DOMAIN e.probes = 1..Len(e.probes)
  BY DEF Elem
<1>2. r = [lib |-> e.lib, probes |-> p, size |-> e.size - 1, func_num |-> e.func_num - 1]
  <2>1. r = [e EXCEPT !.probes = p, !.size = e.size - 1, !.func_num = e.func_num - 1]
    BY DEF probe_list_rm_element
  <2> HIDE DEF p, r
  <2> QED
    BY <2>1 DEF Elem
<1>3. CASE find_probe(e, x)
  <2>1. \E i \in 1..Len(e.probes) : e.probes[i] = x
    BY <1>1, <1>3 DEF find_probe
  <2>2. /\ p \in Seq(Probes) /\ Len(p) = Len(e.probes) - 1
        /\ \A j \in 1..Len(e.probes) : e.probes[j] # x =>
             \E k \in 1..(Len(e.probes) - 1) : p[k] = e.probes[j]
    BY <1>1, <2>1, RemoveFirstKeeps, SMTT(30)
  <2> HIDE DEF p, r
  <2>3. r \in Elem /\ r.lib = e.lib /\ Len(r.probes) <= Len(e.probes)
    BY <1>2, <2>2 DEF Elem
  <2>4. /\ e \in Exact => r \in Exact
        /\ e \in Sized => r \in Sized
    BY <1>2, <2>2, <2>3 DEF Exact, Sized, Elem
  <2>5. ASSUME NEW y, y # x, find_probe(e, y)
        PROVE  find_probe(r, y)
    <3>1. PICK j \in 1..Len(e.probes) : e.probes[j] = y
      BY <1>1, <2>5 DEF find_probe
    <3>2. PICK k \in 1..(Len(e.probes) - 1) : p[k] = y
      BY <2>2, <2>5, <3>1
    <3> QED
      BY <1>2, <2>2, <3>2 DEF find_probe
  <2> QED
    BY <2>3, <2>4, <2>5 DEF r
<1>4. CASE ~ find_probe(e, x)
  <2>1. p = e.probes
    BY <1>1, <1>4 DEF RemoveFirst, find_probe
  <2> QED
    BY <1>1, <1>2, <1>4, <2>1 DEF Elem
<1> QED
  BY <1>3, <1>4

-----------------------------------------------------------------------------
\* Parsing a message.

\* A library of a message, and one whose probes differ.
Entry == [lib : Libs, probes : Seq(Probes)]
PlainEntry == {e \in Entry : IsInjective(e.probes)}

\* A message is a sequence of them.
LEMMA RequestType ==
  ASSUME NEW req \in Requests
  PROVE  req \in Seq(Entry) /\ (Unrepeated(req) => req \in Seq(PlainEntry))
<1>1. PICK m \in 0..MaxNamed :
        req \in [1..m -> [lib : Libs, probes : SeqOf(Probes, MaxFuncs)]]
  BY DEF Requests, SeqOf
<1>2. SeqOf(Probes, MaxFuncs) \subseteq Seq(Probes)
  BY BoundsAssumption DEF SeqOf
<1>3. \A i \in 1..m : req[i] \in Entry
  BY <1>1, <1>2 DEF Entry
<1>4. m \in Nat /\ req = [i \in 1..m |-> req[i]] /\ DOMAIN req = 1..m
  BY <1>1, BoundsAssumption
<1>5. Unrepeated(req) => \A i \in 1..m : req[i] \in PlainEntry
  BY <1>3, <1>4 DEF Unrepeated, PlainEntry
<1> QED
  BY <1>3, <1>4, <1>5

\* Parsing counts right, although probe_list_append does not.
LEMMA ParsedSized ==
  ASSUME NEW e \in Entry
  PROVE  /\ parse_inst_lib(e) \in Sized /\ parse_inst_lib(e).lib = e.lib
         /\ e \in PlainEntry => parse_inst_lib(e) \in Plain
<1> DEFINE s == e.probes
           r == Reverse(s)
<1>1. s \in Seq(Probes) /\ e.lib \in Libs /\ Len(s) \in Nat
  BY DEF Entry
<1>2. r \in Seq(Probes) /\ Len(r) = Len(s)
  BY <1>1 DEF Reverse
<1>3. e \in PlainEntry => IsInjective(r)
  <2>1. e \in PlainEntry => IsInjective(s)
    BY DEF PlainEntry
  <2> QED
    BY <1>1, <2>1 DEF Reverse, IsInjective
<1>4. parse_inst_lib(e) = [lib |-> e.lib, probes |-> r, size |-> Len(s), func_num |-> Len(s)]
  BY DEF parse_inst_lib
<1> HIDE DEF r, s
<1> QED
  BY <1>1, <1>2, <1>3, <1>4 DEF Plain, Sized, Exact, Elem

\* A parsed list is the libraries of the message, last first, before the old.
LEMMA Parses ==
  ASSUME NEW E, NEW F, \A e \in F : parse_inst_lib(e) \in E,
         NEW req \in Seq(F), NEW list \in Seq(E)
  PROVE  LET l == parse_lib_inst_list(req, list)
         IN  /\ l \in Seq(E) /\ Len(l) = Len(req) + Len(list)
             /\ \A j \in 1..Len(req) : l[j] = parse_inst_lib(req[Len(req) + 1 - j])
             /\ \A j \in 1..Len(list) : l[Len(req) + j] = list[j]
<1> DEFINE s == [i \in DOMAIN req |-> parse_inst_lib(req[i])]
           n == Len(req)
<1>1. n \in Nat /\ DOMAIN req = 1..n /\ Len(list) \in Nat
  OBVIOUS
<1>2. s \in Seq(E) /\ Len(s) = n /\ \A i \in 1..n : s[i] = parse_inst_lib(req[i])
  <2>1. \A i \in 1..n : req[i] \in F /\ parse_inst_lib(req[i]) \in E
    OBVIOUS
  <2> QED
    BY <1>1, <2>1
<1> HIDE DEF s, n
<1>3. PICK h : AppendRun(h, Seq(E), list, s)
  <2>1. \A a \in Seq(E), e \in E : data_list_append(a, e) \in Seq(E)
    BY DEF data_list_append
  <2> QED
    BY <1>2, <2>1, AppendSteps
<1>4. /\ h \in [0..n -> Seq(E)] /\ h[0] = list
      /\ \A k \in 1..n : h[k] = data_list_append(h[k - 1], s[k])
  BY <1>2, <1>3 DEF AppendRun
<1> DEFINE At(k) == /\ Len(h[k]) = k + Len(list)
                    /\ \A j \in 1..k : h[k][j] = s[k + 1 - j]
                    /\ \A j \in 1..Len(list) : h[k][k + j] = list[j]
           G == {k \in 0..n : At(k)}
<1>5. 0 \in G
  BY <1>1, <1>4
<1>6. ASSUME NEW k \in 1..n, At(k - 1)
      PROVE  At(k)
  <2>1. k - 1 \in 0..n /\ h[k - 1] \in Seq(E) /\ s[k] \in E /\ k \in Nat
    BY <1>1, <1>2, <1>4
  <2>2. h[k] = <<s[k]>> \o h[k - 1]
    BY <1>4 DEF data_list_append
  <2>3. /\ Len(h[k]) = 1 + Len(h[k - 1])
        /\ h[k][1] = s[k]
        /\ \A j \in 1..Len(h[k - 1]) : h[k][1 + j] = h[k - 1][j]
    BY <2>1, <2>2
  <2>4. Len(h[k]) = k + Len(list)
    BY <1>1, <1>6, <2>1, <2>3
  <2>5. ASSUME NEW j \in 1..k
        PROVE  h[k][j] = s[k + 1 - j]
    <3>1. CASE j = 1
      BY <2>1, <2>3, <3>1
    <3>2. CASE j # 1
      <4>1. j - 1 \in 1..(k - 1) /\ j - 1 \in 1..Len(h[k - 1]) /\ 1 + (j - 1) = j
        BY <1>1, <1>6, <2>1, <3>2
      <4>2. (k - 1) + 1 - (j - 1) = k + 1 - j
        BY <2>1
      <4> QED
        BY <1>6, <2>3, <4>1, <4>2
    <3> QED
      BY <3>1, <3>2
  <2>6. ASSUME NEW j \in 1..Len(list)
        PROVE  h[k][k + j] = list[j]
    <3>1. (k - 1) + j \in 1..Len(h[k - 1]) /\ 1 + ((k - 1) + j) = k + j
      BY <1>1, <1>6, <2>1
    <3> QED
      BY <1>6, <2>3, <3>1
  <2> QED
    BY <2>4, <2>5, <2>6
<1>7. 0..n \subseteq G
  <2>1. \A k \in 1..n : k - 1 \in G => k \in G
    <3> HIDE DEF At
    <3> QED
      BY <1>1, <1>6
  <2> HIDE DEF G
  <2> QED
    BY <1>1, <1>5, <2>1, StepsUp
<1>8. At(n) /\ h[n] \in Seq(E)
  <2>1. n \in 0..n
    BY <1>1
  <2> HIDE DEF At
  <2> QED
    BY <1>4, <1>7, <2>1
<1>9. parse_lib_inst_list(req, list) = h[n]
  BY <1>2, <1>3 DEF parse_lib_inst_list, AppendRun, s
<1>10. \A j \in 1..n : s[n + 1 - j] = parse_inst_lib(req[n + 1 - j])
  BY <1>1, <1>2
<1> QED
  BY <1>8, <1>9, <1>10 DEF n

\* Parsing into a list of elements with the right counters, or of more.
LEMMA ParsesSized ==
  ASSUME NEW E, Sized \subseteq E, NEW req \in Seq(Entry), NEW list \in Seq(E)
  PROVE  LET l == parse_lib_inst_list(req, list)
         IN  /\ l \in Seq(E) /\ Len(l) = Len(req) + Len(list)
             /\ \A j \in 1..Len(list) : l[Len(req) + j] = list[j]
<1>1. \A e \in Entry : parse_inst_lib(e) \in E
  BY ParsedSized
<1> QED
  BY <1>1, Parses

-----------------------------------------------------------------------------
\* Resolving and merging.

\* A walk over p begins with no probe kept; each of its steps keeps or drops
\* one, and the types.
LEMMA WalkSteps ==
  ASSUME NEW p \in Elem
  PROVE  /\ \A sch : /\ Walk(sch, p) = [sch |-> sch, p |-> Walk(sch, p).p]
                    /\ Walk(sch, p).p \in Elem /\ Walk(sch, p).p.lib = p.lib
                    /\ Walk(sch, p).p.probes = <<>>
                    /\ Walk(sch, p).p.size = p.size /\ Walk(sch, p).p.func_num = p.func_num
         /\ \A x : /\ Keep(p, x).lib = p.lib /\ Keep(p, x).probes = Append(p.probes, x)
                  /\ Keep(p, x).size = p.size /\ Keep(p, x).func_num = p.func_num
         /\ \A x \in Probes : Keep(p, x) \in Elem
         /\ Drop(p) \in Elem /\ Drop(p).lib = p.lib /\ Drop(p).probes = p.probes
         /\ Drop(p).size = p.size - 1 /\ Drop(p).func_num = p.func_num - 1
<1>1. p.lib \in Libs /\ p.probes \in Seq(Probes) /\ p.size \in Int /\ p.func_num \in Int
  BY DEF Elem
<1>2. \A v : [p EXCEPT !.probes = v] = [lib |-> p.lib, probes |-> v,
                                       size |-> p.size, func_num |-> p.func_num]
  BY DEF Elem
<1>3. Drop(p) = [lib |-> p.lib, probes |-> p.probes,
                 size |-> p.size - 1, func_num |-> p.func_num - 1]
  <2> DEFINE r == Drop(p)
  <2>1. r = [p EXCEPT !.size = p.size - 1, !.func_num = p.func_num - 1]
    BY DEF Drop
  <2> HIDE DEF r
  <2>2. r = [lib |-> p.lib, probes |-> p.probes,
             size |-> p.size - 1, func_num |-> p.func_num - 1]
    BY <2>1 DEF Elem
  <2> QED
    BY <2>2 DEF r
<1>4. ASSUME NEW sch
      PROVE  /\ Walk(sch, p) = [sch |-> sch, p |-> Walk(sch, p).p]
             /\ Walk(sch, p).p \in Elem /\ Walk(sch, p).p.lib = p.lib
             /\ Walk(sch, p).p.probes = <<>>
             /\ Walk(sch, p).p.size = p.size /\ Walk(sch, p).p.func_num = p.func_num
  <2> DEFINE q == [p EXCEPT !.probes = <<>>]
  <2>1. q = [lib |-> p.lib, probes |-> <<>>, size |-> p.size, func_num |-> p.func_num]
    BY <1>2
  <2>2. <<>> \in Seq(Probes)
    OBVIOUS
  <2> HIDE DEF q
  <2>3. q \in Elem
    BY <1>1, <2>1, <2>2 DEF Elem
  <2>4. Walk(sch, p) = [sch |-> sch, p |-> q]
    BY DEF Walk, q
  <2> QED
    BY <2>1, <2>3, <2>4
<1>5. ASSUME NEW x
      PROVE  /\ Keep(p, x).lib = p.lib /\ Keep(p, x).probes = Append(p.probes, x)
             /\ Keep(p, x).size = p.size /\ Keep(p, x).func_num = p.func_num
             /\ x \in Probes => Keep(p, x) \in Elem
  <2> DEFINE v == Append(p.probes, x)
  <2>1. Keep(p, x) = [p EXCEPT !.probes = v]
    BY DEF Keep
  <2>2. x \in Probes => v \in Seq(Probes)
    BY <1>1
  <2> HIDE DEF v
  <2>3. Keep(p, x) = [lib |-> p.lib, probes |-> v, size |-> p.size, func_num |-> p.func_num]
    BY <1>2, <2>1
  <2>4. x \in Probes => Keep(p, x) \in Elem
    BY <1>1, <2>2, <2>3 DEF Elem
  <2> QED
    BY <2>3, <2>4 DEF v
<1>6. /\ Drop(p) \in Elem /\ Drop(p).lib = p.lib /\ Drop(p).probes = p.probes
      /\ Drop(p).size = p.size - 1 /\ Drop(p).func_num = p.func_num - 1
  <2> DEFINE v == p.size - 1
             w == p.func_num - 1
  <2>1. v \in Int /\ w \in Int
    BY <1>1
  <2> HIDE DEF v, w
  <2>2. Drop(p) = [lib |-> p.lib, probes |-> p.probes, size |-> v, func_num |-> w]
    BY <1>3 DEF v, w
  <2>3. Drop(p) \in Elem
    BY <1>1, <2>1, <2>2 DEF Elem
  <2> QED
    BY <2>2, <2>3 DEF v, w
<1> QED
  BY <1>4, <1>5, <1>6

\* After k of the n probes of a walk, the counters of q run ahead of the probes
\* it kept by those still to come.
Ahead(q, n, k) ==
  q.func_num - Len(q.probes) = n - k /\ q.size - Len(q.probes) = n - k

\* Keeping and dropping a probe both bring the counters one step closer.
LEMMA WalkCounts ==
  ASSUME NEW p \in Elem, NEW n \in Nat, NEW k \in 1..n, Ahead(p, n, k - 1), NEW x \in Probes
  PROVE  Ahead(Keep(p, x), n, k) /\ Ahead(Drop(p), n, k)
<1>1. p.probes \in Seq(Probes) /\ p.size \in Int /\ p.func_num \in Int
      /\ Len(p.probes) \in Nat /\ Len(Append(p.probes, x)) = Len(p.probes) + 1
  BY DEF Elem
<1>2. /\ Keep(p, x).probes = Append(p.probes, x)
      /\ Keep(p, x).size = p.size /\ Keep(p, x).func_num = p.func_num
  BY WalkSteps
<1>3. /\ Drop(p).probes = p.probes
      /\ Drop(p).size = p.size - 1 /\ Drop(p).func_num = p.func_num - 1
  BY WalkSteps
<1> DEFINE m == Len(p.probes)
<1>4. m \in Nat /\ p.func_num - m = n - (k - 1) /\ p.size - m = n - (k - 1)
  BY <1>1 DEF Ahead
<1>5. Len(Keep(p, x).probes) = m + 1 /\ Len(Drop(p).probes) = m
  BY <1>1, <1>2, <1>3
<1> HIDE DEF m
<1>6. /\ p.func_num - (m + 1) = n - k /\ p.size - (m + 1) = n - k
      /\ p.func_num - 1 - m = n - k /\ p.size - 1 - m = n - k
  BY <1>1, <1>4, SMTT(30)
<1> QED
  BY <1>2, <1>3, <1>5, <1>6 DEF Ahead

\* A walk ends with the right counters.
LEMMA WalkEnds ==
  ASSUME NEW p \in Elem, NEW n \in Nat, Ahead(p, n, n)
  PROVE  p \in Sized
<1>1. p.size \in Int /\ p.func_num \in Int /\ Len(p.probes) \in Nat
  BY DEF Elem
<1> QED
  BY <1>1 DEF Ahead, Sized, Exact

\* What is left of p has the right counters, whatever p repeats.
LEMMA Trims ==
  ASSUME NEW sch \in Elem, NEW p \in Sized
  PROVE  trim_probes(sch, p) \in Sized
<1> DEFINE A == [sch : Elem, p : Elem]
           s == p.probes
           n == Len(s)
           b == Walk(sch, p)
<1>1. /\ p \in Elem /\ s \in Seq(Probes) /\ n \in Nat /\ DOMAIN s = 1..n
      /\ p.size = n /\ p.func_num = n
  BY DEF Sized, Exact, Elem
<1>2. /\ b.sch = sch /\ b.p \in Elem /\ b.p.probes = <<>>
      /\ b.p.size = n /\ b.p.func_num = n /\ b \in A
  BY <1>1, WalkSteps
<1>3. \A a \in A : \A x : trim(a, x) = [sch |-> a.sch, p |-> IF find_probe(a.sch, x)
                                                           THEN Drop(a.p) ELSE Keep(a.p, x)]
  BY DEF trim
<1> HIDE DEF s, n, b
<1>4. PICK h : TrimRun(h, A, b, s)
  <2>1. \A a \in A, x \in Probes : trim(a, x) \in A
    <3> TAKE a \in A, x \in Probes
    <3>1. Drop(a.p) \in Elem /\ Keep(a.p, x) \in Elem /\ a.sch \in Elem
      BY WalkSteps
    <3> QED
      BY <1>3, <3>1
  <2> HIDE DEF A
  <2> QED
    BY <1>1, <1>2, <2>1, TrimSteps
<1>5. /\ h \in [0..n -> A] /\ h[0] = b
      /\ \A k \in 1..n : h[k] = trim(h[k - 1], s[k])
  BY <1>4 DEF TrimRun, n
<1> DEFINE At(k) == Ahead(h[k].p, n, k)
           G == {k \in 0..n : At(k)}
<1>6. 0 \in G
  <2>1. Len(<<>>) = 0 /\ n - 0 = n
    BY <1>1
  <2> QED
    BY <1>1, <1>2, <1>5, <2>1 DEF Ahead
<1>7. ASSUME NEW k \in 1..n, At(k - 1)
      PROVE  At(k)
  <2>1. k - 1 \in 0..n /\ h[k - 1] \in A /\ s[k] \in Probes
    BY <1>1, <1>5
  <2> DEFINE q == h[k - 1].p
  <2>2. q \in Elem /\ Ahead(q, n, k - 1)
    BY <1>7, <2>1
  <2>3. h[k].p = Drop(q) \/ h[k].p = Keep(q, s[k])
    BY <1>3, <1>5, <2>1
  <2> HIDE DEF q
  <2> QED
    BY <1>1, <2>1, <2>2, <2>3, WalkCounts
<1>8. 0..n \subseteq G
  <2>1. \A k \in 1..n : k - 1 \in G => k \in G
    <3> HIDE DEF At
    <3> QED
      BY <1>1, <1>7
  <2> HIDE DEF G
  <2> QED
    BY <1>1, <1>6, <2>1, StepsUp
<1>9. Ahead(h[n].p, n, n) /\ h[n].p \in Elem
  BY <1>1, <1>5, <1>8
<1>10. h[n].p \in Sized
  BY <1>1, <1>9, WalkEnds
<1> QED
  BY <1>4, <1>10 DEF trim_probes, TrimRun, b, s, n

\* What is left of new has the right counters.
LEMMA ResolvesAdd ==
  ASSUME NEW cur \in Seq(Elem), NEW new \in Seq(Sized)
  PROVE  /\ resolve_collisions_for_add_msg(cur, new) \in Seq(Exact)
         /\ new = NoLibs => resolve_collisions_for_add_msg(cur, new) = NoLibs
<1> DEFINE A == [cur : Seq(Elem), new : Seq(Exact)]
           b == [cur |-> cur, new |-> NoLibs]
<1>1. ASSUME NEW a \in A, NEW p \in Sized
      PROVE  resolve_add(a, p) \in A
  <2> DEFINE i == data_list_find_data(a.cur, p.lib)
             left == trim_probes(a.cur[i], p)
  <2>1. p \in Exact
    BY DEF Sized
  <2>2. i \in 0..Len(a.cur)
    BY Finds
  <2>3. i # 0 => left \in Exact
    BY <2>2, Trims DEF Sized
  <2>4. \A e \in Exact : [a EXCEPT !.new = Append(@, e)] \in A
    <3>1. \A l \in Seq(Exact) : [a EXCEPT !.new = l] \in A
      OBVIOUS
    <3>2. \A e \in Exact : Append(a.new, e) \in Seq(Exact)
      OBVIOUS
    <3> HIDE DEF A
    <3> QED
      BY <3>1, <3>2
  <2>5. resolve_add(a, p) = IF i = 0 THEN [a EXCEPT !.new = Append(@, p)]
                            ELSE IF left.probes = <<>> THEN a
                            ELSE [a EXCEPT !.new = Append(@, left)]
    BY DEF resolve_add
  <2> HIDE DEF A, i, left
  <2> QED
    BY <2>1, <2>3, <2>4, <2>5
<1>2. b \in A
  BY DEF NoLibs
<1> HIDE DEF A, b
<1>3. PICK h : AddRun(h, A, b, new)
  BY <1>1, <1>2, AddSteps
<1>4. resolve_collisions_for_add_msg(cur, new) = h[Len(new)].new /\ h[Len(new)] \in A
  BY <1>3 DEF resolve_collisions_for_add_msg, AddRun, b
<1>5. new = NoLibs => h[Len(new)].new = NoLibs
  BY <1>3 DEF AddRun, b, NoLibs
<1> QED
  BY <1>4, <1>5 DEF A

\* Merging adds up the numbers of the probes.
LEMMA Moves ==
  ASSUME NEW cur \in Seq(Exact), NEW new \in Seq(Exact)
  PROVE  /\ data_list_move_with_hash(cur, new).list \in Seq(Exact)
         /\ new = NoLibs => data_list_move_with_hash(cur, new) = [list |-> cur, ok |-> TRUE]
<1> DEFINE A == [list : Seq(Exact), ok : BOOLEAN]
           b == [list |-> cur, ok |-> TRUE]
<1>1. ASSUME NEW a \in A, NEW p \in Exact
      PROVE  move(a, p) \in A
  <2> DEFINE i == data_list_find_data(a.list, p.lib)
             m == data_list_append_probes_hash(a.list[i], p)
  <2>1. i \in 0..Len(a.list)
    BY Finds
  <2>2. i # 0 => m \in Exact
    <3> SUFFICES ASSUME i # 0 PROVE m \in Exact
      OBVIOUS
    <3> DEFINE t == a.list[i]
    <3>1. t \in Exact
      BY <2>1
    <3> HIDE DEF i
    <3>2. m = [t EXCEPT !.probes = p.probes \o t.probes, !.size = t.size + 1,
                        !.func_num = t.func_num + p.func_num]
      BY DEF data_list_append_probes_hash
    <3> DEFINE l == p.probes \o t.probes
    <3>3. l \in Seq(Probes) /\ Len(l) = t.func_num + p.func_num
      <4>1. /\ p.probes \in Seq(Probes) /\ p.func_num = Len(p.probes)
            /\ t.probes \in Seq(Probes) /\ t.func_num = Len(t.probes)
        BY <3>1 DEF Exact, Elem
      <4> QED
        BY <4>1, Concat
    <3> HIDE DEF t, m, l
    <3>4. m = [lib |-> t.lib, probes |-> l, size |-> t.size + 1,
               func_num |-> t.func_num + p.func_num]
      BY <3>1, <3>2 DEF Exact, Elem, l
    <3> QED
      BY <3>1, <3>3, <3>4 DEF Exact, Elem
  <2>3. [a EXCEPT !.list = data_list_append(@, p)] \in A
    <3>1. data_list_append(a.list, p) \in Seq(Exact)
      BY DEF data_list_append
    <3> QED
      BY <3>1
  <2>4. [a EXCEPT !.ok = FALSE] \in A
    OBVIOUS
  <2>5. i # 0 => [a EXCEPT !.list[i] = m] \in A
    <3>1. i # 0 => [a.list EXCEPT ![i] = m] \in Seq(Exact)
      <4> HIDE DEF i, m
      <4> QED
        BY <2>1, <2>2
    <3> HIDE DEF i, m
    <3>2. [a EXCEPT !.list[i] = m] = [a EXCEPT !.list = [a.list EXCEPT ![i] = m]]
      OBVIOUS
    <3> QED
      BY <3>1, <3>2
  <2>6. move(a, p) = IF i = 0 THEN [a EXCEPT !.list = data_list_append(@, p)]
                     ELSE IF p.probes = <<>> \/ a.list[i].probes = <<>>
                     THEN [a EXCEPT !.ok = FALSE]
                     ELSE [a EXCEPT !.list[i] = m]
    BY DEF move
  <2> HIDE DEF A, i, m
  <2> QED
    BY <2>3, <2>4, <2>5, <2>6
<1>2. b \in A
  OBVIOUS
<1> HIDE DEF A, b
<1>3. PICK h : MoveRun(h, A, b, new)
  BY <1>1, <1>2, MoveSteps
<1>4. data_list_move_with_hash(cur, new) = h[Len(new)] /\ h[Len(new)] \in A
  BY <1>3 DEF data_list_move_with_hash, MoveRun, b
<1>5. new = NoLibs => h[Len(new)] = b
  BY <1>3 DEF MoveRun, NoLibs
<1> QED
  BY <1>4, <1>5 DEF A, b

\* Removing found probes stays in K.
RmClosed(K) ==
  K \subseteq Elem /\ \A e \in K : \A x : find_probe(e, x) => probe_list_rm_element(e, x) \in K

\* The listed library stays in K, whatever the message names.
LEMMA RemovesProbes ==
  ASSUME NEW K, RmClosed(K), NEW sch \in K, NEW p \in Elem
  PROVE  rm_probes(sch, p).sch \in K /\ rm_probes(sch, p).p \in Elem
<1> DEFINE A == [sch : K, p : Elem]
           b == Walk(sch, p)
<1>1. p.probes \in Seq(Probes)
  BY DEF Elem
<1>2. ASSUME NEW a \in A, NEW x \in Probes
      PROVE  rm(a, x) \in A
  <2>1. find_probe(a.sch, x) => probe_list_rm_element(a.sch, x) \in K
    BY DEF RmClosed
  <2>2. Keep(a.p, x) \in Elem /\ Drop(a.p) \in Elem
    BY WalkSteps
  <2> QED
    BY <2>1, <2>2 DEF rm
<1>3. b \in A
  <2>1. b.p \in Elem /\ b = [sch |-> sch, p |-> b.p]
    BY WalkSteps
  <2> HIDE DEF b
  <2> QED
    BY <2>1
<1> HIDE DEF A, b
<1>4. PICK h : RmRun(h, A, b, p.probes)
  BY <1>1, <1>2, <1>3, RmSteps
<1>5. rm_probes(sch, p) \in A
  BY <1>1, <1>4 DEF rm_probes, RmRun, b
<1> QED
  BY <1>5 DEF A

\* Taking one element out, or replacing it.
LEMMA PutsBack ==
  ASSUME NEW K, NEW cur \in Seq(K), NEW i \in 1..Len(cur), NEW sch \in K
  PROVE  /\ PutBack(cur, i, sch) \in Seq(K)
         /\ Len(PutBack(cur, i, sch)) <= Len(cur)
BY RemoveAtIs DEF PutBack, data_list_unlink_data

\* The current list stays in K and gets no longer.
LEMMA ResolvesRm ==
  ASSUME NEW K, RmClosed(K), NEW cur \in Seq(K), NEW new \in Seq(Elem)
  PROVE  /\ resolve_collisions_for_rm_msg(cur, new).cur \in Seq(K)
         /\ Len(resolve_collisions_for_rm_msg(cur, new).cur) <= Len(cur)
<1> DEFINE A == {a \in [cur : Seq(K), new : Seq(Elem)] : Len(a.cur) <= Len(cur)}
           b == [cur |-> cur, new |-> NoLibs]
<1>1. ASSUME NEW a \in A, NEW p \in Elem
      PROVE  resolve_rm(a, p) \in A
  <2> DEFINE i == data_list_find_data(a.cur, p.lib)
             left == rm_probes(a.cur[i], p)
  <2>1. a.cur \in Seq(K) /\ a.new \in Seq(Elem) /\ Len(a.cur) <= Len(cur)
    OBVIOUS
  <2>2. i \in 0..Len(a.cur)
    BY <2>1, Finds
  <2>3. resolve_rm(a, p) = IF i = 0 THEN a
                           ELSE IF p.probes = <<>>
                           THEN [cur |-> data_list_unlink_data(a.cur, i),
                                 new |-> data_list_append(a.new, a.cur[i])]
                           ELSE [cur |-> PutBack(a.cur, i, left.sch),
                                 new |-> Append(a.new, left.p)]
    BY DEF resolve_rm
  <2>4. CASE i = 0
    BY <2>3, <2>4
  <2>5. CASE i # 0
    <3>1. i \in 1..Len(a.cur) /\ a.cur[i] \in K /\ a.cur[i] \in Elem
      BY <2>1, <2>2, <2>5 DEF RmClosed
    <3>2. left.sch \in K /\ left.p \in Elem
      BY <3>1, RemovesProbes
    <3> HIDE DEF i, left
    <3>3. /\ data_list_unlink_data(a.cur, i) \in Seq(K)
          /\ Len(data_list_unlink_data(a.cur, i)) <= Len(cur)
      BY <2>1, <3>1, RemoveAtIs DEF data_list_unlink_data
    <3>4. /\ PutBack(a.cur, i, left.sch) \in Seq(K)
          /\ Len(PutBack(a.cur, i, left.sch)) <= Len(cur)
      BY <2>1, <3>1, <3>2, PutsBack
    <3>5. data_list_append(a.new, a.cur[i]) \in Seq(Elem)
      BY <2>1, <3>1 DEF data_list_append
    <3>6. Append(a.new, left.p) \in Seq(Elem)
      BY <2>1, <3>2
    <3> QED
      BY <2>3, <2>5, <3>3, <3>4, <3>5, <3>6
  <2> QED
    BY <2>4, <2>5
<1>2. b \in A
  BY DEF NoLibs
<1> HIDE DEF A, b
<1>3. PICK h : RemoveRun(h, A, b, new)
  BY <1>1, <1>2, RemoveSteps
<1>4. resolve_collisions_for_rm_msg(cur, new) \in A
  BY <1>3 DEF resolve_collisions_for_rm_msg, RemoveRun, b
<1> QED
  BY <1>4 DEF A

-----------------------------------------------------------------------------
\* The maps message.

\* What IsSuffix says, index by index.
LEMMA SuffixIs ==
  ASSUME NEW S, NEW s \in Seq(S), NEW t \in Seq(S)
  PROVE  IsSuffix(s, t) <=>
           /\ Len(s) <= Len(t)
           /\ \A k \in 1..Len(s) : s[k] = t[Len(t) - Len(s) + k]
<1> DEFINE m == Len(s)
           n == Len(t)
           rs == Reverse(s)
           rt == Reverse(t)
<1>1. /\ m \in Nat /\ n \in Nat
      /\ rs \in Seq(S) /\ Len(rs) = m /\ rt \in Seq(S) /\ Len(rt) = n
      /\ \A k \in 1..m : rs[k] = s[(m - k) + 1]
      /\ \A k \in 1..n : rt[k] = t[(n - k) + 1]
  BY DEF Reverse
<1> HIDE DEF rs, rt
<1>2. IsSuffix(s, t) <=> m <= n /\ SubSeq(rs, 1, m) = SubSeq(rt, 1, m)
  BY <1>1 DEF IsSuffix, IsPrefix, rs, rt
<1> HIDE DEF m, n
<1>3. SUFFICES ASSUME m <= n
               PROVE  SubSeq(rs, 1, m) = SubSeq(rt, 1, m) <=>
                        \A k \in 1..m : s[k] = t[n - m + k]
  BY <1>2 DEF m, n
<1>4. SubSeq(rs, 1, m) = [k \in 1..m |-> rs[k]] /\ SubSeq(rt, 1, m) = [k \in 1..m |-> rt[k]]
  BY <1>1, <1>3
<1>5. SubSeq(rs, 1, m) = SubSeq(rt, 1, m) <=> \A k \in 1..m : rs[k] = rt[k]
  BY <1>4
<1>6. ASSUME \A k \in 1..m : rs[k] = rt[k], NEW k \in 1..m
      PROVE  s[k] = t[n - m + k]
  <2>1. m + 1 - k \in 1..m /\ m + 1 - k \in 1..n
    BY <1>1, <1>3
  <2>2. (m - (m + 1 - k)) + 1 = k /\ (n - (m + 1 - k)) + 1 = n - m + k
    BY <1>1
  <2>3. rs[m + 1 - k] = s[k] /\ rt[m + 1 - k] = t[n - m + k]
    BY <1>1, <2>1, <2>2
  <2> QED
    BY <1>6, <2>1, <2>3
<1>7. ASSUME \A k \in 1..m : s[k] = t[n - m + k], NEW k \in 1..m
      PROVE  rs[k] = rt[k]
  <2>1. m + 1 - k \in 1..m /\ k \in 1..n
    BY <1>1, <1>3
  <2>2. (m - k) + 1 = m + 1 - k /\ (n - k) + 1 = n - m + (m + 1 - k)
    BY <1>1
  <2>3. rs[k] = s[m + 1 - k] /\ rt[k] = t[n - m + (m + 1 - k)]
    BY <1>1, <2>1, <2>2
  <2> QED
    BY <1>7, <2>1, <2>3
<1> QED
  BY <1>5, <1>6, <1>7

\* The paths of a list.
PathsOf(list) == [i \in DOMAIN list |-> list[i].lib]

\* The paths of a list are a sequence as long as the list.
LEMMA PathsType ==
  ASSUME NEW list \in Seq(Elem)
  PROVE  /\ PathsOf(list) \in Seq(Libs) /\ Len(PathsOf(list)) = Len(list)
         /\ IsSuffix(PathsOf(list), PathsOf(list))
<1>1. PathsOf(list) \in Seq(Libs) /\ Len(PathsOf(list)) = Len(list)
  <2>1. DOMAIN list = 1..Len(list) /\ Len(list) \in Nat
    OBVIOUS
  <2>2. \A i \in 1..Len(list) : list[i] \in Elem
    OBVIOUS
  <2>3. \A i \in 1..Len(list) : list[i].lib \in Libs
    BY <2>2 DEF Elem
  <2> QED
    BY <2>1, <2>3 DEF PathsOf
<1> DEFINE t == PathsOf(list)
<1>2. t \in Seq(Libs) /\ Len(t) \in Nat
  BY <1>1
<1> HIDE DEF t
<1>3. \A k \in 1..Len(t) : Len(t) - Len(t) + k = k
  BY <1>2
<1>4. IsSuffix(t, t)
  BY <1>2, <1>3, SuffixIs
<1> QED
  BY <1>1, <1>4 DEF t

\* A suffix of the old paths is one of the new.
LEMMA SuffixKept ==
  ASSUME NEW m \in Seq(Libs), NEW list \in Seq(Elem), NEW l \in Seq(Elem), NEW n \in Nat,
         IsSuffix(m, PathsOf(list)), Len(l) = n + Len(list),
         \A j \in 1..Len(list) : l[n + j] = list[j]
  PROVE  IsSuffix(m, PathsOf(l))
<1> DEFINE s == PathsOf(list)
           t == PathsOf(l)
<1>1. /\ s \in Seq(Libs) /\ Len(s) = Len(list) /\ t \in Seq(Libs) /\ Len(t) = n + Len(list)
      /\ Len(m) \in Nat /\ Len(list) \in Nat
  BY PathsType
<1>2. \A j \in 1..Len(list) : t[n + j] = s[j]
  <2> TAKE j \in 1..Len(list)
  <2>1. n + j \in 1..Len(l) /\ DOMAIN l = 1..Len(l) /\ DOMAIN list = 1..Len(list)
    BY <1>1
  <2> QED
    BY <2>1 DEF PathsOf
<1>3. Len(m) <= Len(s) /\ \A k \in 1..Len(m) : m[k] = s[Len(s) - Len(m) + k]
  <2> HIDE DEF s
  <2> QED
    BY <1>1, SuffixIs DEF s
<1> HIDE DEF s, t
<1>4. ASSUME NEW k \in 1..Len(m)
      PROVE  m[k] = t[Len(t) - Len(m) + k]
  <2>1. Len(s) - Len(m) + k \in 1..Len(list)
    BY <1>1, <1>3
  <2>2. n + (Len(s) - Len(m) + k) = Len(t) - Len(m) + k
    BY <1>1
  <2> QED
    BY <1>2, <1>3, <2>1, <2>2
<1>5. Len(m) <= Len(t)
  BY <1>1, <1>3
<1>6. IsSuffix(m, t)
  BY <1>1, <1>4, <1>5, SuffixIs
<1> QED
  BY <1>6 DEF t

-----------------------------------------------------------------------------
\* The invariant.

Small == {e \in Exact : Len(e.probes) <= MaxProbes}

\* The lists hold elements with the right number of probes; those of the global
\* have the right size as well, since only messages fill it.
ListInv ==
  /\ lib_inst_list \in Seq(Small) /\ Len(lib_inst_list) <= MaxList
  /\ new_lib_inst_list \in Seq(Small \cap Sized) /\ Len(new_lib_inst_list) <= MaxLeft

ValueInv ==
  /\ apps \in 0..MaxApps /\ running \in 0..1 /\ maps \in Seq(Libs)
  /\ daemon \in {"up", "crashed", "exited"}

\* When every message is complete nothing is left in the global, so nothing is
\* ever merged, and the sizes are right too.
UnbrokenInv ==
  "breaks" \notin Host =>
    new_lib_inst_list = NoLibs /\ lib_inst_list \in Seq(Small \cap Sized)

IInv == ListInv /\ ValueInv /\ UnbrokenInv /\ MapsAreSuffix

\* The sets of elements, each within the next.
LEMMA Kinds ==
  /\ Plain \subseteq Sized /\ Sized \subseteq Exact /\ Exact \subseteq Elem
  /\ Small \subseteq Exact
BY DEF Plain, Sized, Exact, Small

\* A sequence over a set is one over a larger set.
LEMMA SeqMono ==
  ASSUME NEW S, NEW T, S \subseteq T, NEW s \in Seq(S)
  PROVE  s \in Seq(T)
OBVIOUS

\* A bounded list of exact elements.
LEMMA BoundedSmall ==
  ASSUME NEW K, K \subseteq Exact, NEW l \in Seq(K), NEW n, Bounded(l, n)
  PROVE  l \in Seq(Small \cap K) /\ l \in Seq(Small) /\ Len(l) <= n
<1>1. \A i \in 1..Len(l) : l[i] \in Small \cap K
  BY DEF Bounded, Small
<1> QED
  BY <1>1 DEF Bounded

\* Removing found probes leaves small elements small, and sized ones sized.
LEMMA SmallClosed == RmClosed(Small) /\ RmClosed(Small \cap Sized)
<1>1. ASSUME NEW e \in Small, NEW x, find_probe(e, x)
      PROVE  /\ probe_list_rm_element(e, x) \in Small
             /\ e \in Sized => probe_list_rm_element(e, x) \in Sized
  <2>1. e \in Exact /\ e \in Elem /\ Len(e.probes) <= MaxProbes /\ e.probes \in Seq(Probes)
    BY DEF Small, Exact, Elem
  <2>2. /\ probe_list_rm_element(e, x) \in Exact
        /\ e \in Sized => probe_list_rm_element(e, x) \in Sized
        /\ Len(probe_list_rm_element(e, x).probes) <= Len(e.probes)
    BY <1>1, <2>1, RmElement
  <2>3. probe_list_rm_element(e, x).probes \in Seq(Probes)
    BY <2>2 DEF Exact, Elem
  <2>4. Len(probe_list_rm_element(e, x).probes) <= MaxProbes
    BY <2>1, <2>2, <2>3, BoundsAssumption
  <2> QED
    BY <2>2, <2>4 DEF Small
<1> QED
  BY <1>1, Kinds DEF RmClosed

\* The invariant says what the runs check.
LEMMA Implies ==
  ASSUME IInv
  PROVE  TypeOK /\ FuncNumExact /\ ("breaks" \notin Host => SizesAgree)
<1>1. /\ lib_inst_list \in Seq(Small) /\ new_lib_inst_list \in Seq(Small)
      /\ \A list \in {lib_inst_list, new_lib_inst_list} : list \in Seq(Small)
  BY DEF IInv, ListInv
<1>2. ASSUME NEW list \in Seq(Small), NEW i \in DOMAIN list
      PROVE  /\ list[i] \in Exact /\ list[i] \in Elem /\ Len(list[i].probes) <= MaxProbes
             /\ list[i].lib \in Libs /\ list[i].size \in Int /\ list[i].probes \in Seq(Probes)
             /\ list[i].func_num = Len(list[i].probes)
  <2>1. list[i] \in Small
    OBVIOUS
  <2> QED
    BY <2>1 DEF Small, Exact, Elem
<1>3. FuncNumExact
  BY <1>1, <1>2 DEF FuncNumExact
<1>4. Bounded(lib_inst_list, MaxList) /\ Bounded(new_lib_inst_list, MaxLeft)
  BY <1>1, <1>2 DEF Bounded, IInv, ListInv
<1>5. ASSUME NEW list \in Seq(Small)
      PROVE  Pairs(list) \subseteq Libs \X Probes
  <2>1. \A i \in DOMAIN list : \A j \in DOMAIN list[i].probes :
          list[i].lib \in Libs /\ list[i].probes[j] \in Probes
    BY <1>2
  <2> QED
    BY <2>1 DEF Pairs
<1>6. ToSet(maps) \subseteq Libs
  BY DEF ToSet, IInv, ValueInv
<1>7. TypeOK
  <2>1. \A list \in {lib_inst_list, new_lib_inst_list} :
          /\ Pairs(list) \subseteq Libs \X Probes
          /\ \A i \in DOMAIN list : list[i].lib \in Libs /\ list[i].size \in Int
    BY <1>1, <1>2, <1>5
  <2> QED
    BY <1>4, <1>6, <2>1 DEF TypeOK, IInv, ValueInv
<1>8. ASSUME "breaks" \notin Host PROVE SizesAgree
  <2>1. new_lib_inst_list = NoLibs /\ lib_inst_list \in Seq(Small \cap Sized)
    BY <1>8 DEF IInv, UnbrokenInv
  <2>2. \A i \in DOMAIN lib_inst_list : lib_inst_list[i] \in Sized
    BY <2>1
  <2>3. \A i \in DOMAIN lib_inst_list : lib_inst_list[i].size = Len(lib_inst_list[i].probes)
    BY <2>2 DEF Sized
  <2>4. DOMAIN new_lib_inst_list = {}
    BY <2>1 DEF NoLibs
  <2> QED
    BY <2>3, <2>4 DEF SizesAgree
<1> QED
  BY <1>3, <1>7, <1>8

\* ADD.
LEMMA AddKeeps ==
  ASSUME IInv, NEW req \in Requests, msg_swap_inst_add(req)
  PROVE  IInv'
<1> DEFINE cur == parse_lib_inst_list(req, lib_inst_list)
           new == resolve_collisions_for_add_msg(cur, new_lib_inst_list)
           moved == data_list_move_with_hash(cur, new)
<1>1. /\ lib_inst_list \in Seq(Exact) /\ new_lib_inst_list \in Seq(Sized)
      /\ req \in Seq(Entry)
  BY Kinds, RequestType, SeqMono DEF IInv, ListInv
<1>2. cur \in Seq(Exact) /\ cur \in Seq(Elem)
  BY <1>1, Kinds, ParsesSized, SeqMono
<1>3. new \in Seq(Exact)
  <2> HIDE DEF cur
  <2> QED
    BY <1>1, <1>2, ResolvesAdd
<1>4. moved.list \in Seq(Exact)
  <2> HIDE DEF cur, new
  <2> QED
    BY <1>2, <1>3, Moves
<1>5. "breaks" \notin Host => moved.list \in Seq(Sized)
  <2> SUFFICES ASSUME "breaks" \notin Host PROVE moved.list \in Seq(Sized)
    OBVIOUS
  <2>1. new_lib_inst_list = NoLibs /\ lib_inst_list \in Seq(Sized)
    BY SeqMono DEF IInv, UnbrokenInv
  <2>2. cur \in Seq(Sized)
    BY <1>1, <2>1, Kinds, ParsesSized
  <2> HIDE DEF cur
  <2>3. new = NoLibs
    BY <1>1, <1>2, <2>1, ResolvesAdd
  <2> HIDE DEF new
  <2>4. moved = [list |-> cur, ok |-> TRUE]
    BY <1>2, <1>3, <2>3, Moves
  <2> QED
    BY <2>2, <2>4
<1>6. CASE /\ moved.ok /\ Bounded(moved.list, MaxList)
           /\ lib_inst_list' = moved.list /\ new_lib_inst_list' = NoLibs
           /\ generate_maps_inst_msg(moved.list)
           /\ UNCHANGED <<apps, running, daemon>>
  <2> DEFINE l == moved.list
  <2>1. l \in Seq(Exact) /\ Bounded(l, MaxList) /\ ("breaks" \notin Host => l \in Seq(Sized))
    BY <1>4, <1>5, <1>6
  <2>2. lib_inst_list' = l /\ new_lib_inst_list' = NoLibs /\ maps' = PathsOf(l)
    BY <1>6 DEF generate_maps_inst_msg, PathsOf
  <2> HIDE DEF l
  <2>3. l \in Seq(Small) /\ Len(l) <= MaxList
    BY <2>1, BoundedSmall
  <2>4. "breaks" \notin Host => l \in Seq(Small \cap Sized)
    BY <2>1, BoundedSmall, Kinds
  <2>5. l \in Seq(Elem)
    BY <2>1, Kinds, SeqMono
  <2>6. PathsOf(l) \in Seq(Libs) /\ IsSuffix(PathsOf(l), PathsOf(l))
    BY <2>5, PathsType
  <2>7. NoLibs \in Seq(Small \cap Sized) /\ Len(NoLibs) <= MaxLeft
    BY BoundsAssumption DEF NoLibs
  <2>8. ListInv'
    BY <2>2, <2>3, <2>7 DEF ListInv
  <2>9. ValueInv'
    BY <1>6, <2>2, <2>6 DEF ValueInv, IInv
  <2>10. UnbrokenInv'
    BY <2>2, <2>4 DEF UnbrokenInv
  <2>11. MapsAreSuffix'
    BY <2>2, <2>6 DEF MapsAreSuffix, PathsOf
  <2> QED
    BY <2>8, <2>9, <2>10, <2>11 DEF IInv
<1>7. CASE /\ daemon' = "crashed"
           /\ UNCHANGED <<lib_inst_list, new_lib_inst_list, apps, maps, running>>
  BY <1>7 DEF IInv, ListInv, ValueInv, UnbrokenInv, MapsAreSuffix
<1> QED
  BY <1>6, <1>7 DEF msg_swap_inst_add

\* A broken ADD puts libraries in front of the list.
LEMMA AddBrokenKeeps ==
  ASSUME IInv, NEW req \in Requests, AddBroken(req)
  PROVE  IInv'
<1> DEFINE l == parse_lib_inst_list(req, lib_inst_list)
           n == Len(req)
<1>1. /\ lib_inst_list \in Seq(Exact) /\ lib_inst_list \in Seq(Elem) /\ req \in Seq(Entry)
      /\ "breaks" \in Host /\ daemon = "up" /\ n \in Nat
  BY Kinds, RequestType, SeqMono DEF IInv, ListInv, AddBroken
<1>2. /\ l \in Seq(Exact) /\ Len(l) = n + Len(lib_inst_list)
      /\ \A j \in 1..Len(lib_inst_list) : l[n + j] = lib_inst_list[j]
  BY <1>1, Kinds, ParsesSized
<1>3. l \in Seq(Elem)
  BY <1>2, Kinds, SeqMono
<1>4. lib_inst_list' = l /\ Bounded(lib_inst_list', MaxList)
  BY DEF AddBroken
<1>5. UNCHANGED <<new_lib_inst_list, apps, maps, running, daemon>>
  BY DEF AddBroken
<1> HIDE DEF l, n
<1>6. l \in Seq(Small) /\ Len(l) <= MaxList
  <2>1. Bounded(l, MaxList)
    BY <1>4
  <2> QED
    BY <1>2, <2>1, BoundedSmall
<1>7. IsSuffix(maps, PathsOf(l))
  <2>1. maps \in Seq(Libs) /\ IsSuffix(maps, PathsOf(lib_inst_list))
    BY <1>1 DEF IInv, ValueInv, MapsAreSuffix, PathsOf
  <2> QED
    BY <1>1, <1>2, <1>3, <2>1, SuffixKept
<1>8. ListInv'
  BY <1>4, <1>5, <1>6 DEF ListInv, IInv
<1>9. ValueInv'
  BY <1>5 DEF ValueInv, IInv
<1>10. UnbrokenInv'
  BY <1>1 DEF UnbrokenInv
<1>11. MapsAreSuffix'
  BY <1>4, <1>5, <1>7 DEF MapsAreSuffix, PathsOf
<1> QED
  BY <1>8, <1>9, <1>10, <1>11 DEF IInv

\* REMOVE.
LEMMA RemoveKeeps ==
  ASSUME IInv, NEW req \in Requests, msg_swap_inst_remove(req)
  PROVE  IInv'
<1> DEFINE new == parse_lib_inst_list(req, new_lib_inst_list)
           l == resolve_collisions_for_rm_msg(lib_inst_list, new).cur
<1>1. new \in Seq(Elem)
  <2>1. new_lib_inst_list \in Seq(Sized) /\ req \in Seq(Entry)
    BY RequestType, SeqMono DEF IInv, ListInv
  <2>2. new \in Seq(Sized)
    BY <2>1, ParsesSized
  <2> QED
    BY <2>2, Kinds, SeqMono
<1>2. /\ lib_inst_list' = l /\ new_lib_inst_list' = NoLibs /\ maps' = PathsOf(l)
      /\ UNCHANGED <<apps, running, daemon>>
  BY DEF msg_swap_inst_remove, generate_maps_inst_msg, PathsOf
<1> HIDE DEF new
<1>3. l \in Seq(Small) /\ Len(l) <= Len(lib_inst_list)
  <2>1. lib_inst_list \in Seq(Small)
    BY DEF IInv, ListInv
  <2> QED
    BY <1>1, <2>1, SmallClosed, ResolvesRm
<1>4. "breaks" \notin Host => l \in Seq(Small \cap Sized)
  <2>1. "breaks" \notin Host => lib_inst_list \in Seq(Small \cap Sized)
    BY DEF IInv, UnbrokenInv
  <2> QED
    BY <1>1, <2>1, SmallClosed, ResolvesRm
<1> HIDE DEF l
<1>5. Len(l) <= MaxList
  <2>1. Len(lib_inst_list) <= MaxList /\ Len(lib_inst_list) \in Nat /\ Len(l) \in Nat
    BY <1>3 DEF IInv, ListInv
  <2> QED
    BY <1>3, <2>1, BoundsAssumption
<1>6. l \in Seq(Elem)
  BY <1>3, Kinds, SeqMono
<1>7. PathsOf(l) \in Seq(Libs) /\ IsSuffix(PathsOf(l), PathsOf(l))
  BY <1>6, PathsType
<1>8. NoLibs \in Seq(Small \cap Sized) /\ Len(NoLibs) <= MaxLeft
  BY BoundsAssumption DEF NoLibs
<1>9. ListInv'
  BY <1>2, <1>3, <1>5, <1>8 DEF ListInv
<1>10. ValueInv'
  BY <1>2, <1>7 DEF ValueInv, IInv
<1>11. UnbrokenInv'
  BY <1>2, <1>4 DEF UnbrokenInv
<1>12. MapsAreSuffix'
  BY <1>2, <1>7 DEF MapsAreSuffix, PathsOf
<1> QED
  BY <1>9, <1>10, <1>11, <1>12 DEF IInv

\* A broken REMOVE leaves parsed libraries in the global.
LEMMA RemoveBrokenKeeps ==
  ASSUME IInv, NEW req \in Requests, RemoveBroken(req)
  PROVE  IInv'
<1> DEFINE l == parse_lib_inst_list(req, new_lib_inst_list)
<1>1. l \in Seq(Sized)
  <2>1. new_lib_inst_list \in Seq(Sized) /\ req \in Seq(Entry)
    BY RequestType, SeqMono DEF IInv, ListInv
  <2> QED
    BY <2>1, ParsesSized
<1>2. /\ new_lib_inst_list' = l /\ Bounded(new_lib_inst_list', MaxLeft)
      /\ "breaks" \in Host
      /\ UNCHANGED <<lib_inst_list, apps, maps, running, daemon>>
  BY DEF RemoveBroken
<1> HIDE DEF l
<1>3. l \in Seq(Small \cap Sized) /\ Len(l) <= MaxLeft
  <2>1. Bounded(l, MaxLeft)
    BY <1>2
  <2>2. Sized \subseteq Exact
    BY Kinds
  <2> QED
    BY <1>1, <2>1, <2>2, BoundedSmall
<1>4. ListInv'
  BY <1>2, <1>3 DEF ListInv, IInv
<1>5. ValueInv'
  BY <1>2 DEF ValueInv, IInv
<1>6. UnbrokenInv'
  BY <1>2 DEF UnbrokenInv
<1>7. MapsAreSuffix'
  BY <1>2 DEF MapsAreSuffix, IInv
<1> QED
  BY <1>4, <1>5, <1>6, <1>7 DEF IInv

\* START and STOP change the applications, not the libraries.
LEMMA SessionKeeps ==
  ASSUME IInv, StartBroken \/ msg_start \/ stop_all
  PROVE  IInv'
<1>1. UNCHANGED <<lib_inst_list, new_lib_inst_list, daemon>>
  BY DEF StartBroken, msg_start, stop_all
<1>2. apps' \in 0..MaxApps /\ running' \in 0..1
  <2>1. apps \in 0..MaxApps
    BY DEF IInv, ValueInv
  <2>2. CASE StartBroken
    BY <2>1, <2>2, BoundsAssumption DEF StartBroken, IInv, ValueInv
  <2>3. CASE msg_start
    <3>1. PICK n \in apps..MaxApps : \/ apps' = n /\ running' = 0
                                     \/ apps' = n /\ running' = 1
                                     \/ apps' = 0 /\ running' = 0
      BY <2>3 DEF msg_start, reset_app_inst
    <3>2. n \in 0..MaxApps /\ 0 \in 0..MaxApps
      BY <2>1, BoundsAssumption
    <3> QED
      BY <3>1, <3>2
  <2>4. CASE stop_all
    BY <2>4, BoundsAssumption DEF stop_all, reset_app_inst
  <2> QED
    BY <2>2, <2>3, <2>4
<1>3. maps' = maps \/ maps' = PathsOf(lib_inst_list)
  BY DEF StartBroken, msg_start, stop_all, generate_maps_inst_msg, PathsOf
<1>4. lib_inst_list \in Seq(Elem)
  BY Kinds, SeqMono DEF IInv, ListInv
<1>5. /\ maps' \in Seq(Libs)
      /\ daemon = "up" => IsSuffix(maps', PathsOf(lib_inst_list))
  BY <1>3, <1>4, PathsType DEF IInv, ValueInv, MapsAreSuffix, PathsOf
<1>6. ListInv' /\ UnbrokenInv'
  BY <1>1 DEF ListInv, UnbrokenInv, IInv
<1>7. ValueInv'
  BY <1>1, <1>2, <1>5 DEF ValueInv, IInv
<1>8. MapsAreSuffix'
  BY <1>1, <1>5 DEF MapsAreSuffix, PathsOf
<1> QED
  BY <1>6, <1>7, <1>8 DEF IInv

\* The lists start empty and end empty.
LEMMA EmptyLists ==
  /\ NoLibs \in Seq(Small) /\ NoLibs \in Seq(Small \cap Sized)
  /\ Len(NoLibs) = 0 /\ NoLibs \in Seq(Libs)
BY DEF NoLibs

\* msg_swap_free_all_data.
LEMMA FreeKeeps ==
  ASSUME IInv, msg_swap_free_all_data
  PROVE  IInv'
<1>1. /\ daemon' = "exited" /\ UNCHANGED <<maps, running>>
      /\ lib_inst_list' = NoLibs /\ new_lib_inst_list' = NoLibs /\ apps' = 0
  BY DEF msg_swap_free_all_data
<1>2. ListInv' /\ UnbrokenInv'
  BY <1>1, EmptyLists, BoundsAssumption DEF ListInv, UnbrokenInv
<1>3. ValueInv' /\ MapsAreSuffix'
  BY <1>1, BoundsAssumption DEF ValueInv, MapsAreSuffix, IInv
<1> QED
  BY <1>2, <1>3 DEF IInv

\* The lists of da_inst.c keep their invariant through every message.
THEOREM Invariance == Spec => []IInv
<1>1. Init => IInv
  <2> SUFFICES ASSUME Init PROVE IInv
    OBVIOUS
  <2>1. ListInv /\ UnbrokenInv
    BY EmptyLists, BoundsAssumption DEF ListInv, UnbrokenInv, Init
  <2>2. ValueInv
    BY EmptyLists, BoundsAssumption DEF ValueInv, Init
  <2>3. MapsAreSuffix
    <3>1. lib_inst_list \in Seq(Elem) /\ maps = PathsOf(lib_inst_list)
      BY DEF Init, NoLibs, PathsOf
    <3>2. IsSuffix(maps, PathsOf(lib_inst_list))
      BY <3>1, PathsType
    <3> QED
      BY <3>2 DEF MapsAreSuffix, PathsOf
  <2> QED
    BY <2>1, <2>2, <2>3 DEF IInv
<1>2. IInv /\ [Next]_vars => IInv'
  <2> SUFFICES ASSUME IInv, [Next]_vars PROVE IInv'
    OBVIOUS
  <2>1. CASE \E req \in Requests : msg_swap_inst_add(req)
    BY <2>1, AddKeeps
  <2>2. CASE \E req \in Requests : AddBroken(req)
    BY <2>2, AddBrokenKeeps
  <2>3. CASE \E req \in Requests : msg_swap_inst_remove(req)
    BY <2>3, RemoveKeeps
  <2>4. CASE \E req \in Requests : RemoveBroken(req)
    BY <2>4, RemoveBrokenKeeps
  <2>5. CASE StartBroken \/ msg_start \/ stop_all
    BY <2>5, SessionKeeps
  <2>6. CASE msg_swap_free_all_data
    BY <2>6, FreeKeeps
  <2>7. CASE UNCHANGED vars
    BY <2>7 DEF vars, IInv, ListInv, ValueInv, UnbrokenInv, MapsAreSuffix
  <2> QED
    BY <2>1, <2>2, <2>3, <2>4, <2>5, <2>6, <2>7 DEF Next
<1> QED
  BY <1>1, <1>2, PTL DEF Spec

\* The state is well formed.
THEOREM TypeCorrect == Spec => []TypeOK
BY Invariance, Implies, PTL

\* Whatever a host repeats or breaks off, the number of probes packed in front
\* of a library is the number that follows.
THEOREM CountsExact == Spec => []FuncNumExact
BY Invariance, Implies, PTL

\* The maps message names libraries that are listed, and all but those that
\* broken ADDs have put in front since.
THEOREM MapsFollowList == Spec => []MapsAreSuffix
<1>1. IInv => MapsAreSuffix
  BY DEF IInv
<1> QED
  BY <1>1, Invariance, PTL

\* For a host that completes its messages, repeating or not, the size that is
\* allocated for a library is the size that is filled.
THEOREM SizesRight ==
  ASSUME "breaks" \notin Host
  PROVE  Spec => []SizesAgree
<1>1. IInv => SizesAgree
  BY Implies
<1> QED
  BY <1>1, Invariance, PTL

-----------------------------------------------------------------------------
\* A careful host: it names no library twice and completes its messages.

\* A library is listed; it is listed with a probe; no library is listed twice.
In(list, l) == \E i \in DOMAIN list : list[i].lib = l
Has(list, l, x) == \E i \in DOMAIN list : list[i].lib = l /\ find_probe(list[i], x)
Distinct(list) == \A i, j \in DOMAIN list : list[i].lib = list[j].lib => i = j
Tidy == {list \in Seq(Plain) : Distinct(list)}

\* Pairs in these terms.
LEMMA PairsHas ==
  ASSUME NEW list
  PROVE  /\ \A l, x : <<l, x>> \in Pairs(list) <=> Has(list, l, x)
         /\ \A z \in Pairs(list) : \E l, x : z = <<l, x>>
BY DEF Pairs, Has, find_probe

\* Taking an element out of an injective sequence.
LEMMA RemoveFirstInjective ==
  ASSUME NEW S, NEW s \in Seq(S), IsInjective(s), NEW e, \E i \in 1..Len(s) : s[i] = e
  PROVE  /\ IsInjective(RemoveFirst(s, e))
         /\ \A k \in 1..(Len(s) - 1) :
              RemoveFirst(s, e)[k] # e /\ \E j \in 1..Len(s) : RemoveFirst(s, e)[k] = s[j]
<1>1. PICK i \in 1..Len(s) : s[i] = e /\ RemoveFirst(s, e) = RemoveAt(s, i)
  BY RemoveFirstIs
<1> DEFINE r == RemoveAt(s, i)
           at(k) == IF k < i THEN k ELSE k + 1
<1>2. r \in Seq(S) /\ Len(r) = Len(s) - 1 /\ \A k \in 1..(Len(s) - 1) : r[k] = s[at(k)]
  BY RemoveAtIs
<1>3. \A k \in 1..(Len(s) - 1) : at(k) \in 1..Len(s) /\ at(k) # i
  OBVIOUS
<1>4. \A k, m \in 1..(Len(s) - 1) : at(k) = at(m) => k = m
  OBVIOUS
<1>5. \A k, m \in 1..Len(s) : s[k] = s[m] => k = m
  BY DEF IsInjective
<1> HIDE DEF r, at
<1>6. IsInjective(r)
  <2>1. DOMAIN r = 1..(Len(s) - 1)
    BY <1>2
  <2> QED
    BY <1>2, <1>3, <1>4, <1>5, <2>1, SMTT(30) DEF IsInjective
<1>7. \A k \in 1..(Len(s) - 1) : r[k] # e /\ \E j \in 1..Len(s) : r[k] = s[j]
  BY <1>1, <1>2, <1>3, <1>5
<1> QED
  BY <1>1, <1>6, <1>7 DEF r

\* Removing a probe of a plain element removes that probe and no other.
LEMMA RmPlain ==
  ASSUME NEW e \in Plain, NEW x, find_probe(e, x)
  PROVE  /\ probe_list_rm_element(e, x) \in Plain
         /\ probe_list_rm_element(e, x).lib = e.lib
         /\ \A y : find_probe(probe_list_rm_element(e, x), y) <=> find_probe(e, y) /\ y # x
<1> DEFINE r == probe_list_rm_element(e, x)
           s == e.probes
           p == RemoveFirst(s, x)
<1>1. e \in Sized /\ e \in Elem /\ s \in Seq(Probes) /\ IsInjective(s) /\ DOMAIN s = 1..Len(s)
  BY DEF Plain, Sized, Exact, Elem
<1>2. r \in Sized /\ r \in Elem /\ r.lib = e.lib
      /\ \A y : y # x /\ find_probe(e, y) => find_probe(r, y)
  BY <1>1, RmElement
<1>3. r.probes = p
  BY <1>1 DEF probe_list_rm_element, Elem
<1>4. \E i \in 1..Len(s) : s[i] = x
  BY <1>1 DEF find_probe
<1>5. /\ IsInjective(p)
      /\ \A k \in 1..(Len(s) - 1) : p[k] # x /\ \E j \in 1..Len(s) : p[k] = s[j]
  BY <1>1, <1>4, RemoveFirstInjective
<1>6. DOMAIN p = 1..(Len(s) - 1)
  BY <1>1, <1>4, RemoveFirstKeeps
<1>7. r \in Plain
  BY <1>2, <1>3, <1>5 DEF Plain
<1> HIDE DEF r, p
<1>8. \A y : find_probe(r, y) => find_probe(e, y) /\ y # x
  BY <1>1, <1>3, <1>5, <1>6 DEF find_probe
<1> QED
  BY <1>2, <1>7, <1>8 DEF r

\* Appending an element that is not there.
LEMMA AppendsNew ==
  ASSUME NEW S, NEW s \in Seq(S), NEW e \in S
  PROVE  /\ \A y : (\E i \in DOMAIN Append(s, e) : Append(s, e)[i] = y) <=>
                    (\E i \in DOMAIN s : s[i] = y) \/ y = e
         /\ IsInjective(s) /\ ~ (\E i \in DOMAIN s : s[i] = e) => IsInjective(Append(s, e))
<1> DEFINE t == Append(s, e)
           n == Len(s)
<1>1. /\ n \in Nat /\ DOMAIN s = 1..n /\ DOMAIN t = 1..(n + 1)
      /\ t[n + 1] = e /\ \A i \in 1..n : t[i] = s[i]
  OBVIOUS
<1>2. \A i \in 1..(n + 1) : i = n + 1 \/ i \in 1..n
  BY <1>1
<1>3. n + 1 \in 1..(n + 1) /\ \A i \in 1..n : i \in 1..(n + 1)
  BY <1>1
<1> HIDE DEF t, n
<1>4. \A y : (\E i \in DOMAIN t : t[i] = y) <=> (\E i \in DOMAIN s : s[i] = y) \/ y = e
  BY <1>1, <1>2, <1>3
<1>5. IsInjective(s) /\ ~ (\E i \in DOMAIN s : s[i] = e) => IsInjective(t)
  BY <1>1, <1>2 DEF IsInjective
<1> QED
  BY <1>4, <1>5 DEF t

\* The probes of p leave sch, and those that were there stay in p.
LEMMA RemovesNamed ==
  ASSUME NEW sch \in Plain, NEW p \in Plain
  PROVE  LET left == rm_probes(sch, p)
         IN  /\ left.sch \in Plain /\ left.sch.lib = sch.lib
             /\ left.p \in Plain /\ left.p.lib = p.lib
             /\ \A x : find_probe(left.sch, x) <=> find_probe(sch, x) /\ ~ find_probe(p, x)
             /\ \A x : find_probe(left.p, x) <=> find_probe(p, x) /\ find_probe(sch, x)
<1> DEFINE A == [sch : Elem, p : Elem]
           s == p.probes
           n == Len(s)
           b == Walk(sch, p)
<1>1. /\ p \in Elem /\ sch \in Elem /\ s \in Seq(Probes) /\ n \in Nat /\ DOMAIN s = 1..n
      /\ p.size = n /\ p.func_num = n
  BY DEF Plain, Sized, Exact, Elem
<1>2. \A i, j \in 1..n : s[i] = s[j] => i = j
  BY <1>1 DEF Plain, IsInjective
<1>3. /\ b.sch = sch /\ b.p \in Elem /\ b.p.lib = p.lib /\ b.p.probes = <<>>
      /\ b.p.size = n /\ b.p.func_num = n /\ b \in A
  BY <1>1, WalkSteps
<1>4. \A a \in A : \A x : rm(a, x) = IF find_probe(a.sch, x)
                                  THEN [sch |-> probe_list_rm_element(a.sch, x),
                                        p |-> Keep(a.p, x)]
                                  ELSE [sch |-> a.sch, p |-> Drop(a.p)]
  BY DEF rm
<1>5. \A x : find_probe(p, x) <=> \E j \in 1..n : s[j] = x
  BY <1>1 DEF find_probe
<1> HIDE DEF s, n, b
<1>6. PICK h : RmRun(h, A, b, s)
  <2>1. \A a \in A, x \in Probes : rm(a, x) \in A
    <3> TAKE a \in A, x \in Probes
    <3>1. /\ Drop(a.p) \in Elem /\ Keep(a.p, x) \in Elem /\ a.sch \in Elem
          /\ probe_list_rm_element(a.sch, x) \in Elem
      BY WalkSteps, RmElement
    <3> QED
      BY <1>4, <3>1
  <2> HIDE DEF A
  <2> QED
    BY <1>1, <1>3, <2>1, RmSteps
<1>7. /\ h \in [0..n -> A] /\ h[0] = b
      /\ \A k \in 1..n : h[k] = rm(h[k - 1], s[k])
  BY <1>6 DEF RmRun, n
<1> DEFINE Past(k, x) == \E j \in 1..k : s[j] = x
           Listed(k) == /\ h[k].sch \in Plain /\ h[k].sch.lib = sch.lib
                        /\ \A x : find_probe(h[k].sch, x) <=>
                                    find_probe(sch, x) /\ ~ Past(k, x)
           Kept(k) == /\ h[k].p.lib = p.lib /\ IsInjective(h[k].p.probes)
                      /\ Ahead(h[k].p, n, k)
                      /\ \A x : find_probe(h[k].p, x) <=> find_probe(sch, x) /\ Past(k, x)
           At(k) == Listed(k) /\ Kept(k)
           G == {k \in 0..n : At(k)}
<1>8. 0 \in G
  <2>1. Len(<<>>) = 0 /\ n - 0 = n /\ IsInjective(<<>>) /\ DOMAIN <<>> = {}
    BY <1>1 DEF IsInjective
  <2>2. \A x : ~ Past(0, x)
    OBVIOUS
  <2>3. Listed(0)
    BY <1>3, <1>7, <2>2
  <2>4. Kept(0)
    BY <1>1, <1>3, <1>7, <2>1, <2>2 DEF Ahead, find_probe
  <2> QED
    BY <1>1, <2>3, <2>4
<1>9. ASSUME NEW k \in 1..n, At(k - 1)
      PROVE  At(k)
  <2> DEFINE q == h[k - 1].p
             t == h[k - 1].sch
             x == s[k]
  <2>1. k - 1 \in 0..n /\ h[k - 1] \in A /\ x \in Probes /\ q \in Elem /\ t \in Elem
    BY <1>1, <1>7
  <2>2. \A y : Past(k, y) <=> Past(k - 1, y) \/ y = x
    BY <1>1
  <2>3. ~ Past(k - 1, x)
    BY <1>1, <1>2
  <2>4. /\ t \in Plain /\ t.lib = sch.lib
        /\ \A y : find_probe(t, y) <=> find_probe(sch, y) /\ ~ Past(k - 1, y)
        /\ q.lib = p.lib /\ IsInjective(q.probes) /\ Ahead(q, n, k - 1)
        /\ \A y : find_probe(q, y) <=> find_probe(sch, y) /\ Past(k - 1, y)
    BY <1>9
  <2>5. h[k] = IF find_probe(t, x) THEN [sch |-> probe_list_rm_element(t, x), p |-> Keep(q, x)]
               ELSE [sch |-> t, p |-> Drop(q)]
    BY <1>4, <1>7, <2>1
  <2> HIDE DEF Past, q, t, x
  <2>6. find_probe(t, x) <=> find_probe(sch, x)
    BY <2>3, <2>4
  <2>7. Ahead(Keep(q, x), n, k) /\ Ahead(Drop(q), n, k)
    BY <1>1, <2>1, <2>4, WalkCounts
  <2>8. CASE find_probe(t, x)
    <3> DEFINE r == probe_list_rm_element(t, x)
               c == Keep(q, x)
    <3>1. h[k].sch = r /\ h[k].p = c
      BY <2>5, <2>8
    <3>2. /\ r \in Plain /\ r.lib = t.lib
          /\ \A y : find_probe(r, y) <=> find_probe(t, y) /\ y # x
      BY <2>4, <2>8, RmPlain
    <3>3. c.lib = q.lib /\ c.probes = Append(q.probes, x)
      BY <2>1, WalkSteps
    <3>4. IsInjective(c.probes) /\ \A y : find_probe(c, y) <=> find_probe(q, y) \/ y = x
      <4>1. q.probes \in Seq(Probes) /\ ~ find_probe(q, x)
        BY <2>1, <2>3, <2>4 DEF Elem
      <4> QED
        BY <2>1, <2>4, <3>3, <4>1, AppendsNew DEF find_probe
    <3> HIDE DEF r, c
    <3>5. Listed(k)
      BY <2>2, <2>4, <3>1, <3>2
    <3>6. Kept(k)
      BY <2>2, <2>4, <2>6, <2>7, <2>8, <3>1, <3>3, <3>4 DEF c
    <3> QED
      BY <3>5, <3>6
  <2>9. CASE ~ find_probe(t, x)
    <3> DEFINE c == Drop(q)
    <3>1. h[k].sch = t /\ h[k].p = c
      BY <2>5, <2>9
    <3>2. c.lib = q.lib /\ c.probes = q.probes
      BY <2>1, WalkSteps
    <3>3. \A y : find_probe(c, y) <=> find_probe(q, y)
      BY <3>2 DEF find_probe
    <3> HIDE DEF c
    <3>4. Listed(k)
      BY <2>2, <2>4, <2>6, <2>9, <3>1
    <3>5. Kept(k)
      BY <2>2, <2>4, <2>6, <2>7, <2>9, <3>1, <3>2, <3>3 DEF c
    <3> QED
      BY <3>4, <3>5
  <2> QED
    BY <2>8, <2>9
<1>10. 0..n \subseteq G
  <2>1. \A k \in 1..n : k - 1 \in G => k \in G
    <3> HIDE DEF At
    <3> QED
      BY <1>1, <1>9
  <2> HIDE DEF G
  <2> QED
    BY <1>1, <1>8, <2>1, StepsUp
<1>11. At(n) /\ h[n] \in A
  <2>1. n \in 0..n
    BY <1>1
  <2> HIDE DEF At
  <2> QED
    BY <1>7, <1>10, <2>1
<1>12. h[n].p \in Plain
  <2>1. h[n].p \in Elem /\ Ahead(h[n].p, n, n) /\ IsInjective(h[n].p.probes)
    BY <1>11
  <2>2. h[n].p \in Sized
    BY <1>1, <2>1, WalkEnds
  <2> QED
    BY <2>1, <2>2 DEF Plain
<1>13. rm_probes(sch, p) = h[n]
  BY <1>6 DEF rm_probes, RmRun, b, s, n
<1> QED
  BY <1>5, <1>11, <1>12, <1>13

\* Taking a library out of a tidy list.
LEMMA TakesOut ==
  ASSUME NEW cur \in Tidy, NEW i \in 1..Len(cur)
  PROVE  LET r == RemoveAt(cur, i)
         IN  /\ r \in Tidy
             /\ \A l : In(r, l) <=> In(cur, l) /\ l # cur[i].lib
             /\ \A l, x : Has(r, l, x) <=> Has(cur, l, x) /\ l # cur[i].lib
<1> DEFINE r == RemoveAt(cur, i)
           n == Len(cur) - 1
           at(k) == IF k < i THEN k ELSE k + 1
           from(k) == IF k < i THEN k ELSE k - 1
<1>1. cur \in Seq(Plain) /\ DOMAIN cur = 1..Len(cur) /\ Len(cur) \in Nat
  BY SMTT(30) DEF Tidy
<1>2. r \in Seq(Plain) /\ Len(r) = n /\ \A k \in 1..n : r[k] = cur[at(k)]
  BY <1>1, RemoveAtIs
<1>3. DOMAIN r = 1..n
  BY <1>2
<1>4. \A k \in 1..n : at(k) \in 1..Len(cur) /\ at(k) # i
  BY <1>1
<1>5. \A k, m \in 1..n : at(k) = at(m) => k = m
  BY <1>1
<1>6. \A k \in 1..Len(cur) : k # i => from(k) \in 1..n /\ at(from(k)) = k
  BY <1>1
<1>7. \A k, m \in 1..Len(cur) : cur[k].lib = cur[m].lib => k = m
  BY <1>1 DEF Tidy, Distinct
<1> HIDE DEF r, n, at, from
<1>8. r \in Tidy
  BY <1>2, <1>3, <1>4, <1>5, <1>7 DEF Tidy, Distinct
<1>9. \A l : In(r, l) <=> In(cur, l) /\ l # cur[i].lib
  BY <1>1, <1>2, <1>3, <1>4, <1>6, <1>7 DEF In
<1>10. \A l, x : Has(r, l, x) <=> Has(cur, l, x) /\ l # cur[i].lib
  BY <1>1, <1>2, <1>3, <1>4, <1>6, <1>7 DEF Has
<1> QED
  BY <1>8, <1>9, <1>10 DEF r

\* Replacing a library of a tidy list by one with the same path.
LEMMA Replaces ==
  ASSUME NEW cur \in Tidy, NEW i \in 1..Len(cur), NEW sch \in Plain, sch.lib = cur[i].lib
  PROVE  LET r == [cur EXCEPT ![i] = sch]
         IN  /\ r \in Tidy
             /\ \A l : In(r, l) <=> In(cur, l)
             /\ \A l, x : Has(r, l, x) <=>
                            IF l = sch.lib THEN find_probe(sch, x) ELSE Has(cur, l, x)
<1> DEFINE r == [cur EXCEPT ![i] = sch]
<1>1. cur \in Seq(Plain) /\ DOMAIN cur = 1..Len(cur)
  BY DEF Tidy
<1>2. /\ r \in Seq(Plain) /\ DOMAIN r = 1..Len(cur) /\ r[i] = sch
      /\ \A k \in 1..Len(cur) : k # i => r[k] = cur[k]
  BY <1>1
<1>3. \A k, m \in 1..Len(cur) : cur[k].lib = cur[m].lib => k = m
  BY <1>1 DEF Tidy, Distinct
<1> HIDE DEF r
<1>4. \A k \in 1..Len(cur) : r[k].lib = cur[k].lib
  BY <1>2
<1>5. r \in Tidy
  BY <1>2, <1>3, <1>4 DEF Tidy, Distinct
<1>6. \A l : In(r, l) <=> In(cur, l)
  BY <1>1, <1>2, <1>4 DEF In
<1>7. \A l, x : Has(r, l, x) <=> IF l = sch.lib THEN find_probe(sch, x) ELSE Has(cur, l, x)
  BY <1>1, <1>2, <1>3, <1>4 DEF Has
<1> QED
  BY <1>5, <1>6, <1>7 DEF r

\* Adding an element at either end of any list.
LEMMA PutsIn ==
  ASSUME NEW E, NEW list \in Seq(E), NEW e \in E
  PROVE  /\ \A l, x : Has(data_list_append(list, e), l, x) <=>
                        Has(list, l, x) \/ (l = e.lib /\ find_probe(e, x))
         /\ \A l, x : Has(Append(list, e), l, x) <=>
                        Has(list, l, x) \/ (l = e.lib /\ find_probe(e, x))
<1> DEFINE a == data_list_append(list, e)
           b == Append(list, e)
           n == Len(list)
<1>1. n \in Nat /\ DOMAIN list = 1..n
  OBVIOUS
<1>2. DOMAIN a = 1..(n + 1) /\ a[1] = e /\ \A k \in 1..n : a[k + 1] = list[k]
  BY DEF data_list_append
<1>3. DOMAIN b = 1..(n + 1) /\ b[n + 1] = e /\ \A k \in 1..n : b[k] = list[k]
  OBVIOUS
<1> HIDE DEF a, b, n
<1>4. ASSUME NEW l, NEW x
      PROVE  Has(a, l, x) <=> Has(list, l, x) \/ (l = e.lib /\ find_probe(e, x))
  <2>1. ASSUME NEW k \in 1..(n + 1), a[k].lib = l, find_probe(a[k], x)
        PROVE  Has(list, l, x) \/ (l = e.lib /\ find_probe(e, x))
    <3>1. CASE k = 1
      BY <1>2, <2>1, <3>1
    <3>2. CASE k # 1
      <4>1. k - 1 \in 1..n /\ (k - 1) + 1 = k
        BY <1>1, <3>2
      <4>2. a[k] = list[k - 1]
        BY <1>2, <4>1
      <4> QED
        BY <1>1, <2>1, <4>1, <4>2 DEF Has
    <3> QED
      BY <3>1, <3>2
  <2>2. ASSUME NEW k \in 1..n, list[k].lib = l, find_probe(list[k], x)
        PROVE  Has(a, l, x)
    <3>1. k + 1 \in 1..(n + 1) /\ a[k + 1] = list[k]
      BY <1>1, <1>2
    <3> QED
      BY <1>2, <2>2, <3>1 DEF Has
  <2>3. 1 \in 1..(n + 1)
    BY <1>1
  <2> QED
    BY <1>1, <1>2, <2>1, <2>2, <2>3 DEF Has
<1>5. \A l, x : Has(b, l, x) <=> Has(list, l, x) \/ (l = e.lib /\ find_probe(e, x))
  <2>1. \A k \in 1..(n + 1) : k = n + 1 \/ k \in 1..n
    BY <1>1
  <2>2. n + 1 \in 1..(n + 1) /\ \A k \in 1..n : k \in 1..(n + 1)
    BY <1>1
  <2> QED
    BY <1>1, <1>3, <2>1, <2>2 DEF Has
<1> QED
  BY <1>4, <1>5 DEF a, b

\* A library named without probes loses all, otherwise the ones named.
Gone(p, x) == p.probes = <<>> \/ find_probe(p, x)

\* What naming the library p does to a tidy list, and what it sends.
LEMMA ResolvesOne ==
  ASSUME NEW a \in [cur : Tidy, new : Seq(Plain)], NEW p \in Plain
  PROVE  LET r == resolve_rm(a, p)
         IN  /\ r \in [cur : Tidy, new : Seq(Plain)]
             /\ \A l : l # p.lib => (In(r.cur, l) <=> In(a.cur, l))
             /\ In(r.cur, p.lib) <=> /\ p.probes # <<>>
                                     /\ \E x : Has(a.cur, p.lib, x) /\ ~ Gone(p, x)
             /\ \A l, x : Has(r.cur, l, x) <=>
                            Has(a.cur, l, x) /\ ~ (l = p.lib /\ Gone(p, x))
             /\ \A l, x : Has(r.new, l, x) <=>
                            \/ Has(a.new, l, x)
                            \/ l = p.lib /\ Has(a.cur, l, x) /\ Gone(p, x)
<1> DEFINE i == data_list_find_data(a.cur, p.lib)
           sch == a.cur[i]
           left == rm_probes(sch, p)
           r == resolve_rm(a, p)
           n == Len(a.cur)
<1>1. /\ a.cur \in Tidy /\ a.cur \in Seq(Plain) /\ a.new \in Seq(Plain)
      /\ DOMAIN a.cur = 1..n /\ n \in Nat
  BY DEF Tidy
<1>2. /\ i \in 0..n
      /\ i = 0 => \A j \in 1..n : a.cur[j].lib # p.lib
      /\ i # 0 => sch.lib = p.lib
  BY <1>1, Finds
<1>3. r = IF i = 0 THEN a
          ELSE IF p.probes = <<>>
          THEN [cur |-> data_list_unlink_data(a.cur, i), new |-> data_list_append(a.new, sch)]
          ELSE [cur |-> PutBack(a.cur, i, left.sch), new |-> Append(a.new, left.p)]
  BY DEF resolve_rm
<1>4. CASE i = 0
  <2>1. ~ In(a.cur, p.lib) /\ \A x : ~ Has(a.cur, p.lib, x)
    BY <1>1, <1>2, <1>4 DEF In, Has
  <2>2. r = a
    BY <1>3, <1>4
  <2> HIDE DEF r
  <2> QED
    BY <2>1, <2>2 DEF r
<1>5. CASE i # 0
  <2>1. i \in 1..n /\ sch \in Plain /\ sch.lib = p.lib
    BY <1>1, <1>2, <1>5
  <2>2. \A j \in 1..n : a.cur[j].lib = p.lib => j = i
    BY <1>1, <2>1 DEF Tidy, Distinct
  <2>3. \A x : Has(a.cur, p.lib, x) <=> find_probe(sch, x)
    BY <1>1, <2>1, <2>2 DEF Has
  <2>4. CASE p.probes = <<>>
    <3>1. r = [cur |-> RemoveAt(a.cur, i), new |-> data_list_append(a.new, sch)]
      BY <1>3, <1>5, <2>4 DEF data_list_unlink_data
    <3> HIDE DEF r, i, sch
    <3>2. /\ RemoveAt(a.cur, i) \in Tidy
          /\ \A l : In(RemoveAt(a.cur, i), l) <=> In(a.cur, l) /\ l # a.cur[i].lib
          /\ \A l, x : Has(RemoveAt(a.cur, i), l, x) <=> Has(a.cur, l, x) /\ l # a.cur[i].lib
      BY <1>1, <2>1, TakesOut DEF n
    <3>3. data_list_append(a.new, sch) \in Seq(Plain)
      BY <1>1, <2>1 DEF data_list_append
    <3>4. \A l, x : Has(data_list_append(a.new, sch), l, x) <=>
                      Has(a.new, l, x) \/ (l = sch.lib /\ find_probe(sch, x))
      BY <1>1, <2>1, PutsIn
    <3>5. \A x : Gone(p, x)
      BY <2>4 DEF Gone
    <3>6. a.cur[i].lib = p.lib
      BY <2>1 DEF sch
    <3>7. r.cur = RemoveAt(a.cur, i) /\ r.new = data_list_append(a.new, sch)
      BY <3>1
    <3>8. r \in [cur : Tidy, new : Seq(Plain)]
      BY <3>1, <3>2, <3>3
    <3>9. \A l : l # p.lib => (In(r.cur, l) <=> In(a.cur, l))
      BY <3>2, <3>6, <3>7
    <3>10. ~ In(r.cur, p.lib)
      BY <3>2, <3>6, <3>7
    <3>11. \A l, x : Has(r.cur, l, x) <=> Has(a.cur, l, x) /\ ~ (l = p.lib /\ Gone(p, x))
      BY <3>2, <3>5, <3>6, <3>7
    <3>12. \A l, x : Has(r.new, l, x) <=>
                       \/ Has(a.new, l, x)
                       \/ l = p.lib /\ Has(a.cur, l, x) /\ Gone(p, x)
      BY <2>1, <2>3, <3>4, <3>5, <3>7
    <3> QED
      BY <2>4, <3>8, <3>9, <3>10, <3>11, <3>12 DEF r
  <2>5. CASE p.probes # <<>>
    <3>1. r = [cur |-> PutBack(a.cur, i, left.sch), new |-> Append(a.new, left.p)]
      BY <1>3, <1>5, <2>5
    <3>2. /\ left.sch \in Plain /\ left.sch.lib = sch.lib
          /\ left.p \in Plain /\ left.p.lib = p.lib
          /\ \A x : find_probe(left.sch, x) <=> find_probe(sch, x) /\ ~ find_probe(p, x)
          /\ \A x : find_probe(left.p, x) <=> find_probe(p, x) /\ find_probe(sch, x)
      BY <2>1, RemovesNamed
    <3>3. \A x : Gone(p, x) <=> find_probe(p, x)
      BY <2>5 DEF Gone
    <3> HIDE DEF r, i, sch, left
    <3>4. a.cur[i].lib = p.lib /\ In(a.cur, p.lib)
      BY <1>1, <2>1 DEF sch, In
    <3>5. r.cur = PutBack(a.cur, i, left.sch) /\ r.new = Append(a.new, left.p)
      BY <3>1
    <3>6. Append(a.new, left.p) \in Seq(Plain)
      BY <1>1, <3>2
    <3>7. \A l, x : Has(r.new, l, x) <=>
                      \/ Has(a.new, l, x)
                      \/ l = p.lib /\ Has(a.cur, l, x) /\ Gone(p, x)
      <4>1. \A l, x : Has(Append(a.new, left.p), l, x) <=>
                        Has(a.new, l, x) \/ (l = left.p.lib /\ find_probe(left.p, x))
        BY <1>1, <3>2, PutsIn
      <4> QED
        BY <2>3, <3>2, <3>3, <3>5, <4>1
    <3>8. /\ r.cur \in Tidy
          /\ \A l : l # p.lib => (In(r.cur, l) <=> In(a.cur, l))
          /\ In(r.cur, p.lib) <=> \E x : find_probe(left.sch, x)
          /\ \A l, x : Has(r.cur, l, x) <=>
                         IF l = p.lib THEN find_probe(left.sch, x) ELSE Has(a.cur, l, x)
      <4>1. CASE left.sch.probes = <<>>
        <5>1. r.cur = RemoveAt(a.cur, i)
          BY <3>5, <4>1 DEF PutBack, data_list_unlink_data
        <5>2. \A x : ~ find_probe(left.sch, x)
          BY <4>1 DEF find_probe
        <5>3. /\ RemoveAt(a.cur, i) \in Tidy
              /\ \A l : In(RemoveAt(a.cur, i), l) <=> In(a.cur, l) /\ l # a.cur[i].lib
              /\ \A l, x : Has(RemoveAt(a.cur, i), l, x) <=> Has(a.cur, l, x) /\ l # a.cur[i].lib
          BY <1>1, <2>1, TakesOut DEF n
        <5> QED
          BY <3>4, <5>1, <5>2, <5>3
      <4>2. CASE left.sch.probes # <<>>
        <5>1. r.cur = [a.cur EXCEPT ![i] = left.sch]
          BY <3>5, <4>2 DEF PutBack
        <5>2. \E x : find_probe(left.sch, x)
          <6>1. left.sch.probes \in Seq(Probes)
            BY <3>2 DEF Plain, Sized, Exact, Elem
          <6>2. 1 \in DOMAIN left.sch.probes
            BY <4>2, <6>1
          <6> QED
            BY <6>2 DEF find_probe
        <5>3. left.sch.lib = a.cur[i].lib
          BY <3>2 DEF sch
        <5> DEFINE c == [a.cur EXCEPT ![i] = left.sch]
        <5>4. /\ c \in Tidy
              /\ \A l : In(c, l) <=> In(a.cur, l)
              /\ \A l, x : Has(c, l, x) <=>
                   IF l = left.sch.lib THEN find_probe(left.sch, x) ELSE Has(a.cur, l, x)
          BY <1>1, <2>1, <3>2, <5>3, Replaces DEF n
        <5> HIDE DEF c
        <5> QED
          BY <3>4, <5>1, <5>2, <5>3, <5>4 DEF c
      <4> QED
        BY <4>1, <4>2
    <3>9. \A l, x : Has(r.cur, l, x) <=> Has(a.cur, l, x) /\ ~ (l = p.lib /\ Gone(p, x))
      BY <2>3, <3>2, <3>3, <3>8
    <3>10. In(r.cur, p.lib) <=> \E x : Has(a.cur, p.lib, x) /\ ~ Gone(p, x)
      BY <2>3, <3>2, <3>3, <3>8
    <3>11. r \in [cur : Tidy, new : Seq(Plain)]
      BY <3>1, <3>5, <3>6, <3>8
    <3> QED
      BY <2>5, <3>7, <3>8, <3>9, <3>10, <3>11 DEF r
  <2> QED
    BY <2>4, <2>5
<1> QED
  BY <1>2, <1>4, <1>5

\* What a whole REMOVE does to a tidy list, and what it sends.
LEMMA ResolvesAll ==
  ASSUME NEW cur \in Tidy, NEW new \in Tidy
  PROVE  LET r == resolve_collisions_for_rm_msg(cur, new)
         IN  /\ r.cur \in Tidy
             /\ \A l : In(r.cur, l) <=>
                         /\ In(cur, l)
                         /\ \A j \in DOMAIN new : new[j].lib = l =>
                              /\ new[j].probes # <<>>
                              /\ \E x : Has(cur, l, x) /\ ~ Gone(new[j], x)
             /\ \A l, x : Has(r.cur, l, x) <=>
                            /\ Has(cur, l, x)
                            /\ ~ \E j \in DOMAIN new : new[j].lib = l /\ Gone(new[j], x)
             /\ \A l, x : Has(r.new, l, x) <=>
                            /\ Has(cur, l, x)
                            /\ \E j \in DOMAIN new : new[j].lib = l /\ Gone(new[j], x)
<1> DEFINE A == [cur : Tidy, new : Seq(Plain)]
           b == [cur |-> cur, new |-> NoLibs]
           n == Len(new)
<1>1. new \in Seq(Plain) /\ n \in Nat /\ DOMAIN new = 1..n
  BY DEF Tidy
<1>2. \A i, j \in 1..n : new[i].lib = new[j].lib => i = j
  BY <1>1 DEF Tidy, Distinct
<1>3. b \in A
  BY DEF NoLibs
<1>4. \A a \in A, p \in Plain : resolve_rm(a, p) \in A
  BY ResolvesOne
<1> HIDE DEF A, b
<1>5. PICK h : RemoveRun(h, A, b, new)
  BY <1>1, <1>3, <1>4, RemoveSteps
<1>6. /\ h \in [0..n -> A] /\ h[0] = b
      /\ \A k \in 1..n : h[k] = resolve_rm(h[k - 1], new[k])
  BY <1>5 DEF RemoveRun
<1> HIDE DEF n
<1> DEFINE Keeps(l, j) == /\ new[j].probes # <<>>
                          /\ \E x : Has(cur, l, x) /\ ~ Gone(new[j], x)
           Named(k, l, x) == \E j \in 1..k : new[j].lib = l /\ Gone(new[j], x)
           At(k) ==
             /\ \A l : In(h[k].cur, l) <=>
                         In(cur, l) /\ \A j \in 1..k : new[j].lib = l => Keeps(l, j)
             /\ \A l, x : Has(h[k].cur, l, x) <=> Has(cur, l, x) /\ ~ Named(k, l, x)
             /\ \A l, x : Has(h[k].new, l, x) <=> Has(cur, l, x) /\ Named(k, l, x)
           G == {k \in 0..n : At(k)}
<1>7. 0 \in G
  <2>1. h[0].cur = cur /\ h[0].new = NoLibs
    BY <1>6 DEF b
  <2>2. \A l, x : ~ Has(NoLibs, l, x)
    BY DEF Has, NoLibs
  <2> QED
    BY <1>1, <2>1, <2>2
<1>8. ASSUME NEW k \in 1..n, At(k - 1)
      PROVE  At(k)
  <2> DEFINE a == h[k - 1]
             p == new[k]
             r == h[k]
  <2>1. k - 1 \in 0..n /\ a \in [cur : Tidy, new : Seq(Plain)] /\ p \in Plain /\ r = resolve_rm(a, p)
    BY <1>1, <1>6 DEF A
  <2>2. /\ \A l : l # p.lib => (In(r.cur, l) <=> In(a.cur, l))
        /\ In(r.cur, p.lib) <=> /\ p.probes # <<>>
                                /\ \E x : Has(a.cur, p.lib, x) /\ ~ Gone(p, x)
        /\ \A l, x : Has(r.cur, l, x) <=>
                       Has(a.cur, l, x) /\ ~ (l = p.lib /\ Gone(p, x))
        /\ \A l, x : Has(r.new, l, x) <=>
                       \/ Has(a.new, l, x)
                       \/ l = p.lib /\ Has(a.cur, l, x) /\ Gone(p, x)
    <3> HIDE DEF a, p, r
    <3> QED
      BY <2>1, ResolvesOne
  <2>3. \A j \in 1..(k - 1) : new[j].lib # p.lib
    BY <1>1, <1>2
  <2>4. \A l, x : Named(k, l, x) <=> Named(k - 1, l, x) \/ (l = p.lib /\ Gone(p, x))
    BY <1>1
  <2>5. \A x : ~ Named(k - 1, p.lib, x)
    BY <2>3
  <2>6. /\ \A l : In(a.cur, l) <=>
                    In(cur, l) /\ \A j \in 1..(k - 1) : new[j].lib = l => Keeps(l, j)
        /\ \A l, x : Has(a.cur, l, x) <=> Has(cur, l, x) /\ ~ Named(k - 1, l, x)
        /\ \A l, x : Has(a.new, l, x) <=> Has(cur, l, x) /\ Named(k - 1, l, x)
    BY <1>8
  <2> HIDE DEF a, r, Named
  <2>7. \A l, x : Has(r.cur, l, x) <=> Has(cur, l, x) /\ ~ Named(k, l, x)
    BY <2>2, <2>4, <2>6
  <2>8. \A l, x : Has(r.new, l, x) <=> Has(cur, l, x) /\ Named(k, l, x)
    BY <2>2, <2>4, <2>5, <2>6
  <2>9. ASSUME NEW l
        PROVE  In(r.cur, l) <=>
                 In(cur, l) /\ \A j \in 1..k : new[j].lib = l => Keeps(l, j)
    <3>1. CASE l # p.lib
      <4>1. \A j \in 1..k : new[j].lib = l => j \in 1..(k - 1)
        BY <1>1, <3>1
      <4>2. \A j \in 1..(k - 1) : j \in 1..k
        BY <1>1
      <4> HIDE DEF Keeps, p
      <4> QED
        BY <2>2, <2>6, <3>1, <4>1, <4>2
    <3>2. CASE l = p.lib
      <4>1. In(r.cur, l) <=> Keeps(l, k)
        BY <2>2, <2>5, <2>6, <3>2
      <4>2. \A j \in 1..k : new[j].lib = l <=> j = k
        BY <1>1, <1>2, <3>2
      <4>3. Keeps(l, k) => In(cur, l)
        BY DEF Has, In
      <4> HIDE DEF Keeps
      <4> QED
        BY <4>1, <4>2, <4>3
    <3> QED
      BY <3>1, <3>2
  <2> QED
    BY <2>7, <2>8, <2>9 DEF r
<1>9. 0..n \subseteq G
  <2>1. \A k \in 1..n : k - 1 \in G => k \in G
    <3> HIDE DEF At
    <3> QED
      BY <1>1, <1>8
  <2> HIDE DEF G
  <2> QED
    BY <1>1, <1>7, <2>1, StepsUp
<1>10. At(n) /\ h[n] \in A
  <2>1. n \in 0..n
    BY <1>1
  <2> HIDE DEF At
  <2> QED
    BY <1>6, <1>9, <2>1
<1>11. resolve_collisions_for_rm_msg(cur, new) = h[n]
  BY <1>5 DEF resolve_collisions_for_rm_msg, RemoveRun, b, n
<1> QED
  BY <1>1, <1>10, <1>11 DEF A

\* Parsing into a list that only messages filled.
LEMMA ParsesPlain ==
  ASSUME NEW req \in Seq(PlainEntry), NEW list \in Seq(Plain)
  PROVE  LET l == parse_lib_inst_list(req, list)
         IN  /\ l \in Seq(Plain) /\ Len(l) = Len(req) + Len(list)
             /\ \A j \in 1..Len(req) : l[j] = parse_inst_lib(req[Len(req) + 1 - j])
             /\ \A j \in 1..Len(list) : l[Len(req) + j] = list[j]
<1>1. \A e \in PlainEntry : parse_inst_lib(e) \in Plain
  BY ParsedSized DEF PlainEntry
<1> QED
  BY <1>1, Parses

\* Parsing into an empty list.
LEMMA ParsesNew ==
  ASSUME NEW req \in Seq(PlainEntry)
  PROVE  LET l == parse_lib_inst_list(req, NoLibs)
         IN  /\ l \in Seq(Plain) /\ Len(l) = Len(req)
             /\ \A j \in 1..Len(req) : l[j] = parse_inst_lib(req[Len(req) + 1 - j])
<1> DEFINE l == parse_lib_inst_list(req, NoLibs)
<1>1. NoLibs \in Seq(Plain) /\ Len(NoLibs) = 0 /\ Len(req) \in Nat
  BY DEF NoLibs
<1>2. /\ l \in Seq(Plain) /\ Len(l) = Len(req) + Len(NoLibs)
      /\ \A j \in 1..Len(req) : l[j] = parse_inst_lib(req[Len(req) + 1 - j])
  BY <1>1, ParsesPlain
<1> HIDE DEF l
<1>3. Len(l) = Len(req)
  BY <1>1, <1>2
<1> QED
  BY <1>2, <1>3 DEF l

\* The libraries of a message that names none twice are a tidy list.
LEMMA ParsesTidy ==
  ASSUME NEW req \in Seq(PlainEntry),
         \A i, j \in DOMAIN req : req[i].lib = req[j].lib => i = j
  PROVE  parse_lib_inst_list(req, NoLibs) \in Tidy
<1> DEFINE new == parse_lib_inst_list(req, NoLibs)
           n == Len(req)
<1>1. NoLibs \in Seq(Plain) /\ Len(NoLibs) = 0 /\ n \in Nat /\ DOMAIN req = 1..n
  BY DEF NoLibs
<1>2. new \in Seq(Plain) /\ Len(new) = n /\ \A j \in 1..n : new[j] = parse_inst_lib(req[n + 1 - j])
  BY ParsesNew
<1>3. \A j \in 1..n : new[j].lib = req[n + 1 - j].lib /\ n + 1 - j \in 1..n
  <2> TAKE j \in 1..n
  <2>1. n + 1 - j \in 1..n
    BY <1>1
  <2>2. req[n + 1 - j] \in Entry
    BY <2>1 DEF PlainEntry
  <2> QED
    BY <1>2, <2>1, <2>2, ParsedSized
<1> HIDE DEF new, n
<1>4. ASSUME NEW i \in 1..n, NEW j \in 1..n, new[i].lib = new[j].lib
      PROVE  i = j
  <2>1. n + 1 - i = n + 1 - j
    BY <1>1, <1>3, <1>4
  <2> QED
    BY <1>1, <2>1
<1>5. DOMAIN new = 1..n
  BY <1>2
<1> QED
  BY <1>2, <1>4, <1>5 DEF Tidy, Distinct, new

\* An ADD of libraries that are not listed keeps the list tidy.
LEMMA AddsTidy ==
  ASSUME NEW req \in Seq(PlainEntry), NEW list \in Tidy,
         \A i, j \in DOMAIN req : req[i].lib = req[j].lib => i = j,
         \A i \in DOMAIN req : data_list_find_data(list, req[i].lib) = 0
  PROVE  LET new == parse_lib_inst_list(req, NoLibs)
             cur == parse_lib_inst_list(req, list)
         IN  /\ cur \in Tidy
             /\ \A l : In(new, l) => ~ In(list, l)
             /\ \A l : In(cur, l) <=> In(new, l) \/ In(list, l)
             /\ \A l, x : Has(cur, l, x) <=> Has(new, l, x) \/ Has(list, l, x)
<1> DEFINE new == parse_lib_inst_list(req, NoLibs)
           cur == parse_lib_inst_list(req, list)
           n == Len(req)
           m == Len(list)
<1>1. /\ NoLibs \in Seq(Plain) /\ Len(NoLibs) = 0 /\ n \in Nat /\ DOMAIN req = 1..n
      /\ list \in Seq(Plain) /\ m \in Nat /\ DOMAIN list = 1..m
  BY DEF NoLibs, Tidy
<1>2. new \in Tidy
  BY ParsesTidy
<1>3. new \in Seq(Plain) /\ Len(new) = n /\ \A j \in 1..n : new[j] = parse_inst_lib(req[n + 1 - j])
  BY ParsesNew
<1>4. /\ cur \in Seq(Plain) /\ Len(cur) = n + m
      /\ \A j \in 1..n : cur[j] = parse_inst_lib(req[n + 1 - j])
      /\ \A j \in 1..m : cur[n + j] = list[j]
  BY <1>1, ParsesPlain
<1>5. ASSUME NEW j \in 1..n
      PROVE  \A k \in 1..m : list[k].lib # new[j].lib
  <2>1. n + 1 - j \in 1..n
    BY <1>1
  <2>2. new[j].lib = req[n + 1 - j].lib
    BY <1>3, <2>1, ParsedSized DEF PlainEntry
  <2>3. data_list_find_data(list, req[n + 1 - j].lib) = 0
    BY <1>1, <2>1
  <2> QED
    BY <1>1, <2>2, <2>3, Finds
<1> HIDE DEF new, cur, n, m
<1>6. /\ DOMAIN new = 1..n /\ DOMAIN cur = 1..(n + m)
      /\ \A j \in 1..n : j \in 1..(n + m) /\ cur[j] = new[j]
      /\ \A j \in 1..m : n + j \in 1..(n + m)
  <2>1. DOMAIN new = 1..n /\ DOMAIN cur = 1..(n + m)
    BY <1>3, <1>4
  <2>2. \A j \in 1..n : j \in 1..(n + m)
    BY <1>1
  <2>3. \A j \in 1..m : n + j \in 1..(n + m)
    BY <1>1
  <2> QED
    BY <1>3, <1>4, <2>1, <2>2, <2>3
<1>7. \A l : In(new, l) => ~ In(list, l)
  BY <1>1, <1>5, <1>6 DEF In
<1>8. \A j \in 1..(n + m) : ~ j \in 1..n => j - n \in 1..m /\ cur[j] = list[j - n]
  <2> TAKE j \in 1..(n + m)
  <2> HAVE ~ j \in 1..n
  <2>1. j - n \in 1..m /\ n + (j - n) = j
    BY <1>1
  <2> QED
    BY <1>4, <2>1
<1>9. ASSUME NEW l
      PROVE  In(cur, l) <=> In(new, l) \/ In(list, l)
  <2>1. In(cur, l) => In(new, l) \/ In(list, l)
    <3> SUFFICES ASSUME NEW j \in 1..(n + m), cur[j].lib = l
                 PROVE  In(new, l) \/ In(list, l)
      BY <1>6 DEF In
    <3>1. CASE j \in 1..n
      BY <1>6, <3>1 DEF In
    <3>2. CASE j \notin 1..n
      BY <1>1, <1>8, <3>2 DEF In
    <3> QED
      BY <3>1, <3>2
  <2>2. In(new, l) => In(cur, l)
    BY <1>6 DEF In
  <2>3. In(list, l) => In(cur, l)
    BY <1>1, <1>4, <1>6 DEF In
  <2> QED
    BY <2>1, <2>2, <2>3
<1>10. ASSUME NEW l, NEW x
       PROVE  Has(cur, l, x) <=> Has(new, l, x) \/ Has(list, l, x)
  <2>1. Has(cur, l, x) => Has(new, l, x) \/ Has(list, l, x)
    BY <1>1, <1>6, <1>8 DEF Has
  <2>2. Has(new, l, x) => Has(cur, l, x)
    BY <1>6 DEF Has
  <2>3. Has(list, l, x) => Has(cur, l, x)
    BY <1>1, <1>4, <1>6 DEF Has
  <2> QED
    BY <2>1, <2>2, <2>3
<1>11. ASSUME NEW i \in 1..(n + m), NEW j \in 1..(n + m), cur[i].lib = cur[j].lib
       PROVE  i = j
  <2>1. CASE i \in 1..n /\ j \in 1..n
    BY <1>2, <1>6, <1>11, <2>1 DEF Tidy, Distinct
  <2>2. CASE i \in 1..n /\ j \notin 1..n
    BY <1>5, <1>6, <1>8, <1>11, <2>2
  <2>3. CASE i \notin 1..n /\ j \in 1..n
    BY <1>5, <1>6, <1>8, <1>11, <2>3
  <2>4. CASE i \notin 1..n /\ j \notin 1..n
    <3>1. i - n \in 1..m /\ j - n \in 1..m /\ list[i - n].lib = list[j - n].lib
      BY <1>8, <1>11, <2>4
    <3>2. i - n = j - n
      BY <1>1, <3>1 DEF Tidy, Distinct
    <3> QED
      BY <1>1, <3>2
  <2> QED
    BY <2>1, <2>2, <2>3, <2>4
<1>12. cur \in Tidy
  BY <1>4, <1>6, <1>11 DEF Tidy, Distinct
<1> QED
  BY <1>7, <1>9, <1>10, <1>12 DEF new, cur

-----------------------------------------------------------------------------
\* The refinement.

InstalledOf(list) ==
  [l \in {list[i].lib : i \in DOMAIN list} |-> {x \in Probes : <<l, x>> \in Pairs(list)}]

\* The steps of ProbeSet, from the installed probes I to J.
AddStep(I, J) ==
  \E N \in SUBSET (Libs \ DOMAIN I) : \E P \in [N -> SUBSET Probes] :
    J = [l \in DOMAIN I \cup N |-> IF l \in N THEN P[l] ELSE I[l]]

RemoveStep(I, J) ==
  \E N \in SUBSET Libs : \E P \in [N -> SUBSET Probes] :
    LET left(l) == IF l \in N THEN I[l] \ P[l] ELSE I[l]
        gone == {l \in DOMAIN I \cap N : P[l] = {} \/ left(l) = {}}
    IN  J = [l \in DOMAIN I \ gone |-> left(l)]

\* What is installed is what is listed.
LEMMA InstalledIs ==
  ASSUME NEW list
  PROVE  /\ \A l : l \in DOMAIN InstalledOf(list) <=> In(list, l)
         /\ \A l \in DOMAIN InstalledOf(list) :
              InstalledOf(list)[l] = {x \in Probes : Has(list, l, x)}
         /\ InstalledOf(list) = [l \in DOMAIN InstalledOf(list) |-> InstalledOf(list)[l]]
BY PairsHas DEF InstalledOf, In

\* A tidy list: its paths and probes are known, a library is listed in one
\* place, and has no probe exactly when its sequence is empty.
LEMMA TidyFacts ==
  ASSUME NEW list \in Tidy
  PROVE  /\ \A l : In(list, l) => l \in Libs
         /\ \A l, x : Has(list, l, x) => In(list, l) /\ x \in Probes
         /\ \A j \in DOMAIN list : \A x : Has(list, list[j].lib, x) <=> find_probe(list[j], x)
         /\ \A j \in DOMAIN list : list[j].probes = <<>> <=> \A x : ~ find_probe(list[j], x)
<1>1. ASSUME NEW j \in DOMAIN list
      PROVE  list[j].lib \in Libs /\ list[j].probes \in Seq(Probes)
  <2>1. list[j] \in Plain
    BY DEF Tidy
  <2> QED
    BY <2>1 DEF Plain, Sized, Exact, Elem
<1>2. \A l : In(list, l) => l \in Libs
  BY <1>1 DEF In
<1>3. \A j \in DOMAIN list : \A x : find_probe(list[j], x) => x \in Probes
  BY <1>1 DEF find_probe
<1>4. \A l, x : Has(list, l, x) => In(list, l) /\ x \in Probes
  BY <1>3 DEF Has, In
<1>5. \A j \in DOMAIN list : \A x : Has(list, list[j].lib, x) <=> find_probe(list[j], x)
  BY DEF Has, Tidy, Distinct
<1>6. ASSUME NEW j \in DOMAIN list
      PROVE  list[j].probes = <<>> <=> \A x : ~ find_probe(list[j], x)
  <2> DEFINE s == list[j].probes
  <2>1. s \in Seq(Probes)
    BY <1>1
  <2> HIDE DEF s
  <2>2. s # <<>> => 1 \in DOMAIN s
    BY <2>1
  <2>3. s = <<>> => DOMAIN s = {}
    OBVIOUS
  <2>4. \A x : find_probe(list[j], x) <=> \E k \in DOMAIN s : s[k] = x
    BY DEF find_probe, s
  <2>5. s = <<>> <=> \A x : ~ find_probe(list[j], x)
    BY <2>2, <2>3, <2>4
  <2> QED
    BY <2>5 DEF s
<1> QED
  BY <1>2, <1>4, <1>5, <1>6

\* An ADD is an Add.
LEMMA AbstractAdd ==
  ASSUME NEW list \in Tidy, NEW new \in Tidy, NEW cur \in Tidy,
         \A l : In(new, l) => ~ In(list, l),
         \A l : In(cur, l) <=> In(new, l) \/ In(list, l),
         \A l, x : Has(cur, l, x) <=> Has(new, l, x) \/ Has(list, l, x)
  PROVE  AddStep(InstalledOf(list), InstalledOf(cur))
<1> DEFINE I == InstalledOf(list)
           J == InstalledOf(cur)
           P == InstalledOf(new)
           N == DOMAIN P
<1>1. \A l : l \in DOMAIN I <=> In(list, l)
  BY InstalledIs
<1>2. \A l : l \in N <=> In(new, l)
  BY InstalledIs
<1>3. \A l : l \in DOMAIN J <=> l \in DOMAIN I \cup N
  BY <1>1, <1>2, InstalledIs
<1>4. N \in SUBSET (Libs \ DOMAIN I)
  BY <1>1, <1>2, TidyFacts
<1>5. P \in [N -> SUBSET Probes]
  BY InstalledIs
<1>6. ASSUME NEW l \in DOMAIN J
      PROVE  J[l] = IF l \in N THEN P[l] ELSE I[l]
  <2>1. J[l] = {x \in Probes : Has(cur, l, x)}
    BY InstalledIs
  <2>2. CASE l \in N
    <3>1. \A x : ~ Has(list, l, x)
      BY <1>2, <2>2, TidyFacts
    <3>2. P[l] = {x \in Probes : Has(new, l, x)}
      BY <2>2, InstalledIs
    <3> QED
      BY <2>1, <2>2, <3>1, <3>2
  <2>3. CASE l \notin N
    <3>1. \A x : ~ Has(new, l, x)
      BY <1>2, <2>3, TidyFacts
    <3>2. l \in DOMAIN I
      BY <1>3, <2>3
    <3>3. I[l] = {x \in Probes : Has(list, l, x)}
      BY <3>2, InstalledIs
    <3> QED
      BY <2>1, <2>3, <3>1, <3>3
  <2> QED
    BY <2>2, <2>3
<1>7. J = [l \in DOMAIN J |-> J[l]]
  BY InstalledIs
<1>8. DOMAIN J = DOMAIN I \cup N
  BY <1>3
<1> HIDE DEF I, J, P
<1>9. J = [l \in DOMAIN I \cup N |-> IF l \in N THEN P[l] ELSE I[l]]
  BY <1>6, <1>7, <1>8
<1> QED
  BY <1>4, <1>5, <1>9 DEF I, J, AddStep

\* A REMOVE is a Remove.
LEMMA AbstractRemove ==
  ASSUME NEW list \in Tidy, NEW new \in Tidy, NEW cur \in Tidy,
         \A l : In(cur, l) <=>
                  /\ In(list, l)
                  /\ \A j \in DOMAIN new : new[j].lib = l =>
                       /\ new[j].probes # <<>>
                       /\ \E x : Has(list, l, x) /\ ~ Gone(new[j], x),
         \A l, x : Has(cur, l, x) <=>
                     /\ Has(list, l, x)
                     /\ ~ \E j \in DOMAIN new : new[j].lib = l /\ Gone(new[j], x)
  PROVE  RemoveStep(InstalledOf(list), InstalledOf(cur))
<1> DEFINE I == InstalledOf(list)
           J == InstalledOf(cur)
           P == InstalledOf(new)
           N == DOMAIN P
           left(l) == IF l \in N THEN I[l] \ P[l] ELSE I[l]
           gone == {l \in DOMAIN I \cap N : P[l] = {} \/ left(l) = {}}
<1>1. \A l : l \in DOMAIN I <=> In(list, l)
  BY InstalledIs
<1>2. \A l : l \in N <=> In(new, l)
  BY InstalledIs
<1>3. \A l : l \in DOMAIN J <=> In(cur, l)
  BY InstalledIs
<1>4. \A l \in DOMAIN I : I[l] = {x \in Probes : Has(list, l, x)}
  BY InstalledIs
<1>5. \A l \in N : P[l] = {x \in Probes : Has(new, l, x)}
  BY InstalledIs
<1>6. \A l \in DOMAIN J : J[l] = {x \in Probes : Has(cur, l, x)}
  BY InstalledIs
<1>7. J = [l \in DOMAIN J |-> J[l]] /\ P \in [N -> SUBSET Probes] /\ N \in SUBSET Libs
  BY <1>2, InstalledIs, TidyFacts
<1> HIDE DEF I, J, P
<1>8. ASSUME NEW l \in DOMAIN I, l \notin N
      PROVE  l \in DOMAIN J /\ J[l] = left(l)
  <2>1. \A j \in DOMAIN new : new[j].lib # l
    BY <1>2, <1>8 DEF In
  <2>2. In(cur, l) /\ \A x : Has(cur, l, x) <=> Has(list, l, x)
    BY <1>1, <2>1
  <2> QED
    BY <1>3, <1>4, <1>6, <1>8, <2>2
<1>9. ASSUME NEW l \in DOMAIN I, l \in N
      PROVE  /\ l \in DOMAIN J <=> P[l] # {} /\ left(l) # {}
             /\ l \in DOMAIN J => J[l] = left(l)
  <2>1. PICK j \in DOMAIN new : new[j].lib = l
    BY <1>2, <1>9 DEF In
  <2>2. \A k \in DOMAIN new : new[k].lib = l <=> k = j
    BY <2>1 DEF Tidy, Distinct
  <2>3. \A x : Has(new, l, x) <=> find_probe(new[j], x)
    BY <2>1, TidyFacts
  <2>4. new[j].probes = <<>> <=> \A x : ~ Has(new, l, x)
    BY <2>1, <2>3, TidyFacts
  <2>5. \A x : Gone(new[j], x) <=> new[j].probes = <<>> \/ Has(new, l, x)
    BY <2>3 DEF Gone
  <2>6. \A x : (Has(new, l, x) \/ Has(list, l, x)) => x \in Probes
    BY TidyFacts
  <2>7. P[l] = {} <=> new[j].probes = <<>>
    BY <1>5, <1>9, <2>4, <2>6
  <2>8. left(l) = {x \in Probes : Has(list, l, x) /\ ~ Has(new, l, x)}
    BY <1>4, <1>5, <1>9
  <2>9. l \in DOMAIN J <=> /\ new[j].probes # <<>>
                           /\ \E x : Has(list, l, x) /\ ~ Gone(new[j], x)
    BY <1>1, <1>3, <2>2
  <2>10. \A x : Has(cur, l, x) <=> Has(list, l, x) /\ ~ Gone(new[j], x)
    BY <2>2
  <2> HIDE DEF left, N
  <2>11. new[j].probes # <<>> =>
           (left(l) # {} <=> \E x : Has(list, l, x) /\ ~ Gone(new[j], x))
    BY <2>5, <2>6, <2>8
  <2>12. l \in DOMAIN J => J[l] = left(l)
    BY <1>6, <2>5, <2>8, <2>9, <2>10
  <2> QED
    BY <2>7, <2>9, <2>11, <2>12
<1>10. \A l \in DOMAIN J : l \in DOMAIN I
  BY <1>1, <1>3
<1> HIDE DEF left
<1>11. DOMAIN J = DOMAIN I \ gone
  BY <1>8, <1>9, <1>10
<1>12. \A l \in DOMAIN J : J[l] = left(l)
  BY <1>8, <1>9, <1>10
<1> HIDE DEF gone, N
<1>13. J = [l \in DOMAIN I \ gone |-> left(l)]
  BY <1>7, <1>11, <1>12
<1> QED
  BY <1>7, <1>13 DEF I, J, left, gone, RemoveStep

\* What a careful host keeps: no library is listed twice, no probe is listed
\* twice in a library, and the global is empty between messages.
TidyInv == lib_inst_list \in Tidy /\ new_lib_inst_list = NoLibs

\* A whole ADD of a careful host lists what it parsed, and does not crash.
LEMMA CarefulAdd ==
  ASSUME Host = {}, TidyInv, NEW req \in Requests, msg_swap_inst_add(req)
  PROVE  LET new == parse_lib_inst_list(req, NoLibs)
         IN  /\ TidyInv' /\ new \in Tidy /\ last'.op = "add"
             /\ \A l : In(new, l) => ~ In(lib_inst_list, l)
             /\ \A l : In(lib_inst_list', l) <=> In(new, l) \/ In(lib_inst_list, l)
             /\ \A l, x : Has(lib_inst_list', l, x) <=>
                            Has(new, l, x) \/ Has(lib_inst_list, l, x)
<1> DEFINE cur == parse_lib_inst_list(req, lib_inst_list)
           new == resolve_collisions_for_add_msg(cur, new_lib_inst_list)
           moved == data_list_move_with_hash(cur, new)
<1>1. /\ req \in Seq(PlainEntry) /\ lib_inst_list \in Tidy
      /\ new_lib_inst_list = NoLibs
  <2>1. Unrepeated(req)
    BY DEF msg_swap_inst_add, Addable
  <2> QED
    BY <2>1, RequestType DEF TidyInv
<1>2. /\ \A i, j \in DOMAIN req : req[i].lib = req[j].lib => i = j
      /\ \A i \in DOMAIN req : data_list_find_data(lib_inst_list, req[i].lib) = 0
  BY DEF msg_swap_inst_add, Addable, Unrepeated
<1>3. parse_lib_inst_list(req, NoLibs) \in Tidy
  BY <1>1, <1>2, ParsesTidy
<1>4. /\ cur \in Tidy
      /\ \A l : In(parse_lib_inst_list(req, NoLibs), l) => ~ In(lib_inst_list, l)
      /\ \A l : In(cur, l) <=>
                  In(parse_lib_inst_list(req, NoLibs), l) \/ In(lib_inst_list, l)
      /\ \A l, x : Has(cur, l, x) <=>
                     \/ Has(parse_lib_inst_list(req, NoLibs), l, x)
                     \/ Has(lib_inst_list, l, x)
  BY <1>1, <1>2, AddsTidy
<1>5. cur \in Seq(Exact) /\ cur \in Seq(Elem)
  BY <1>4, Kinds, SeqMono DEF Tidy
<1>6. new = NoLibs
  <2>1. NoLibs \in Seq(Sized)
    BY DEF NoLibs
  <2> HIDE DEF cur
  <2> QED
    BY <1>1, <1>5, <2>1, ResolvesAdd
<1>7. moved = [list |-> cur, ok |-> TRUE]
  <2>1. NoLibs \in Seq(Exact)
    BY DEF NoLibs
  <2> HIDE DEF cur, new
  <2> QED
    BY <1>5, <1>6, <2>1, Moves
<1>8. lib_inst_list' = moved.list /\ new_lib_inst_list' = NoLibs /\ last'.op = "add"
  <2>1. moved.ok
    BY <1>7
  <2> QED
    BY <2>1 DEF msg_swap_inst_add, Msg
<1>9. lib_inst_list' = cur
  BY <1>7, <1>8
<1> HIDE DEF cur
<1> QED
  BY <1>3, <1>4, <1>8, <1>9 DEF TidyInv

\* The message says to add the probes z.
SentAsAdd(sent, z) == sent = [id |-> "NMSG_SWAP_INST_ADD", probes |-> z]

\* A whole REMOVE of a careful host, and what it sends.
LEMMA CarefulRemove ==
  ASSUME Host = {}, TidyInv, NEW req \in Requests, msg_swap_inst_remove(req)
  PROVE  LET new == parse_lib_inst_list(req, NoLibs)
         IN  /\ TidyInv' /\ new \in Tidy
             /\ \A l : In(lib_inst_list', l) <=>
                         /\ In(lib_inst_list, l)
                         /\ \A j \in DOMAIN new : new[j].lib = l =>
                              /\ new[j].probes # <<>>
                              /\ \E x : Has(lib_inst_list, l, x) /\ ~ Gone(new[j], x)
             /\ \A l, x : Has(lib_inst_list', l, x) <=>
                            /\ Has(lib_inst_list, l, x)
                            /\ ~ \E j \in DOMAIN new : new[j].lib = l /\ Gone(new[j], x)
             /\ apps > 0 => SentAsAdd(last'.sent, Pairs(lib_inst_list) \ Pairs(lib_inst_list'))
<1> DEFINE new == parse_lib_inst_list(req, NoLibs)
           res == resolve_collisions_for_rm_msg(lib_inst_list, new)
<1>1. /\ req \in Seq(PlainEntry) /\ lib_inst_list \in Tidy
      /\ new_lib_inst_list = NoLibs
  <2>1. Unrepeated(req)
    BY DEF msg_swap_inst_remove, Removable
  <2> QED
    BY <2>1, RequestType DEF TidyInv
<1>2. \A i, j \in DOMAIN req : req[i].lib = req[j].lib => i = j
  BY DEF msg_swap_inst_remove, Removable, Unrepeated
<1>3. new \in Tidy
  BY <1>1, <1>2, ParsesTidy
<1>4. /\ lib_inst_list' = res.cur /\ new_lib_inst_list' = NoLibs
      /\ last' = Msg("remove", req, TRUE, Sent(res.new))
  BY <1>1 DEF msg_swap_inst_remove
<1> HIDE DEF new
<1>5. /\ res.cur \in Tidy
      /\ \A l : In(res.cur, l) <=>
                  /\ In(lib_inst_list, l)
                  /\ \A j \in DOMAIN new : new[j].lib = l =>
                       /\ new[j].probes # <<>>
                       /\ \E x : Has(lib_inst_list, l, x) /\ ~ Gone(new[j], x)
      /\ \A l, x : Has(res.cur, l, x) <=>
                     /\ Has(lib_inst_list, l, x)
                     /\ ~ \E j \in DOMAIN new : new[j].lib = l /\ Gone(new[j], x)
      /\ \A l, x : Has(res.new, l, x) <=>
                     /\ Has(lib_inst_list, l, x)
                     /\ \E j \in DOMAIN new : new[j].lib = l /\ Gone(new[j], x)
  BY <1>1, <1>3, ResolvesAll
<1> HIDE DEF res
<1>6. apps > 0 => SentAsAdd(last'.sent, Pairs(res.new))
  BY <1>4 DEF Msg, Sent, Packed, SentAsAdd
<1>7. Pairs(res.new) = Pairs(lib_inst_list) \ Pairs(res.cur)
  <2>1. \A l, x : Has(res.new, l, x) <=> Has(lib_inst_list, l, x) /\ ~ Has(res.cur, l, x)
    BY <1>5
  <2>2. ASSUME NEW z \in Pairs(res.new)
        PROVE  z \in Pairs(lib_inst_list) \ Pairs(res.cur)
    <3>1. PICK l, x : z = <<l, x>>
      BY PairsHas
    <3> QED
      BY <2>1, <2>2, <3>1, PairsHas
  <2>3. ASSUME NEW z \in Pairs(lib_inst_list), z \notin Pairs(res.cur)
        PROVE  z \in Pairs(res.new)
    <3>1. PICK l, x : z = <<l, x>>
      BY PairsHas
    <3> QED
      BY <2>1, <2>3, <3>1, PairsHas
  <2> QED
    BY <2>2, <2>3
<1>8. TidyInv'
  BY <1>4, <1>5 DEF TidyInv
<1> QED
  BY <1>3, <1>4, <1>5, <1>6, <1>7, <1>8 DEF new

\* The steps that leave the libraries alone, and what the last message was.
LEMMA CarefulRest ==
  ASSUME Host = {}, TidyInv, [Next]_vars,
         ~ \E req \in Requests : msg_swap_inst_add(req) \/ msg_swap_inst_remove(req)
  PROVE  /\ TidyInv'
         /\ \/ lib_inst_list' = lib_inst_list /\ (last'.op = "start" \/ last'.op = "stop")
            \/ UNCHANGED vars
            \/ lib_inst_list' = NoLibs /\ daemon' = "exited"
<1>1. NoLibs \in Tidy
  BY DEF NoLibs, Tidy, Distinct
<1>2. CASE StartBroken
  BY <1>2 DEF StartBroken, Msg, TidyInv
<1>3. CASE msg_start
  <2>1. lib_inst_list' = lib_inst_list /\ new_lib_inst_list' = new_lib_inst_list
    BY <1>3 DEF msg_start
  <2>2. last'.op = "start"
    BY <1>3 DEF msg_start, Msg
  <2> QED
    BY <2>1, <2>2 DEF TidyInv
<1>4. CASE stop_all
  BY <1>4 DEF stop_all, Msg, TidyInv
<1>5. CASE msg_swap_free_all_data
  BY <1>1, <1>5 DEF msg_swap_free_all_data, TidyInv
<1>6. CASE UNCHANGED vars
  BY <1>6 DEF vars, TidyInv
<1>7. ~ \E req \in Requests : AddBroken(req) \/ RemoveBroken(req)
  BY DEF AddBroken, RemoveBroken
<1> QED
  BY <1>2, <1>3, <1>4, <1>5, <1>6, <1>7 DEF Next

\* A careful host keeps the lists tidy.
THEOREM TidyLists ==
  ASSUME Host = {}
  PROVE  Spec => []TidyInv
<1>1. Init => TidyInv
  BY DEF Init, TidyInv, Tidy, Distinct, NoLibs
<1>2. TidyInv /\ [Next]_vars => TidyInv'
  <2> SUFFICES ASSUME TidyInv, [Next]_vars PROVE TidyInv'
    OBVIOUS
  <2>1. ASSUME NEW req \in Requests, msg_swap_inst_add(req) PROVE TidyInv'
    BY <2>1, CarefulAdd
  <2>2. ASSUME NEW req \in Requests, msg_swap_inst_remove(req) PROVE TidyInv'
    BY <2>2, CarefulRemove
  <2> QED
    BY <2>1, <2>2, CarefulRest
<1> QED
  BY <1>1, <1>2, PTL DEF Spec

\* A REMOVE of a careful host sends the device exactly the probes it takes
\* from the list, and under the id of ADD (da_inst.c:796): the device is told
\* to add what the list loses.
THEOREM RemovedSent ==
  ASSUME Host = {}
  PROVE  Spec => RemovedAreSentAsAdd
<1> DEFINE Told == daemon' = "up" /\ last'.op = "remove" /\ last'.whole /\ apps > 0 =>
                     last'.sent = [id |-> "NMSG_SWAP_INST_ADD",
                                   probes |-> Pairs(lib_inst_list) \ Pairs(lib_inst_list')]
<1>1. TidyInv /\ [Next]_vars => [Told]_vars
  <2> SUFFICES ASSUME TidyInv, Next PROVE Told \/ UNCHANGED vars
    OBVIOUS
  <2>1. ASSUME NEW req \in Requests, msg_swap_inst_add(req) PROVE Told
    <3>1. last'.op = "add"
      BY <2>1, CarefulAdd
    <3> QED
      BY <3>1
  <2>2. ASSUME NEW req \in Requests, msg_swap_inst_remove(req) PROVE Told
    <3>1. apps > 0 => SentAsAdd(last'.sent, Pairs(lib_inst_list) \ Pairs(lib_inst_list'))
      BY <2>2, CarefulRemove
    <3> QED
      BY <3>1 DEF SentAsAdd
  <2>3. CASE ~ \E req \in Requests : msg_swap_inst_add(req) \/ msg_swap_inst_remove(req)
    <3>1. \/ last'.op = "start" \/ last'.op = "stop"
          \/ UNCHANGED vars
          \/ daemon' = "exited"
      BY <2>3, CarefulRest
    <3> QED
      BY <3>1
  <2> QED
    BY <2>1, <2>2, <2>3
<1> QED
  BY <1>1, TidyLists, PTL DEF Spec, RemovedAreSentAsAdd

\* Nothing is installed when the list is empty, and freeing it removes
\* every library by its name.
LEMMA FreesAll ==
  ASSUME NEW I, DOMAIN I \subseteq Libs
  PROVE  RemoveStep(I, InstalledOf(NoLibs))
<1> DEFINE N == DOMAIN I
           P == [l \in N |-> {}]
           left(l) == IF l \in N THEN I[l] \ P[l] ELSE I[l]
           gone == {l \in DOMAIN I \cap N : P[l] = {} \/ left(l) = {}}
<1>1. P \in [N -> SUBSET Probes] /\ N \in SUBSET Libs
  OBVIOUS
<1>2. DOMAIN I \ gone = {}
  OBVIOUS
<1>3. DOMAIN NoLibs = {}
  BY DEF NoLibs
<1>4. InstalledOf(NoLibs) = [l \in DOMAIN I \ gone |-> left(l)]
  <2> HIDE DEF gone, left
  <2> QED
    BY <1>2, <1>3 DEF InstalledOf
<1> HIDE DEF P, N
<1> QED
  BY <1>1, <1>4 DEF left, gone, RemoveStep

\* For a careful host the list implements a map from libraries to probes.
THEOREM Refinement ==
  ASSUME Host = {}
  PROVE  Spec => ImplementsProbeSet
<1>1. Installed = InstalledOf(lib_inst_list) /\ Installed' = InstalledOf(lib_inst_list')
  BY DEF Installed, InstalledOf
<1>2. Init => Promise!Init
  BY DEF Init, Installed, Promise!Init, NoLibs
<1>3. TidyInv /\ TidyInv' /\ [Next]_vars => [Promise!Next]_Installed
  <2> SUFFICES ASSUME TidyInv, TidyInv', [Next]_vars
               PROVE  Promise!Add \/ Promise!Remove \/ Installed' = Installed
    BY DEF Promise!Next
  <2>1. lib_inst_list \in Tidy /\ lib_inst_list' \in Tidy
    BY DEF TidyInv
  <2>2. ASSUME NEW req \in Requests, msg_swap_inst_add(req)
        PROVE  Promise!Add
    <3> DEFINE new == parse_lib_inst_list(req, NoLibs)
    <3>1. /\ new \in Tidy
          /\ \A l : In(new, l) => ~ In(lib_inst_list, l)
          /\ \A l : In(lib_inst_list', l) <=> In(new, l) \/ In(lib_inst_list, l)
          /\ \A l, x : Has(lib_inst_list', l, x) <=>
                         Has(new, l, x) \/ Has(lib_inst_list, l, x)
      BY <2>2, CarefulAdd
    <3> HIDE DEF new
    <3>2. AddStep(InstalledOf(lib_inst_list), InstalledOf(lib_inst_list'))
      BY <2>1, <3>1, AbstractAdd
    <3> QED
      BY <1>1, <3>2 DEF Promise!Add, AddStep
  <2>3. ASSUME NEW req \in Requests, msg_swap_inst_remove(req)
        PROVE  Promise!Remove
    <3> DEFINE new == parse_lib_inst_list(req, NoLibs)
    <3>1. /\ new \in Tidy
          /\ \A l : In(lib_inst_list', l) <=>
                      /\ In(lib_inst_list, l)
                      /\ \A j \in DOMAIN new : new[j].lib = l =>
                           /\ new[j].probes # <<>>
                           /\ \E x : Has(lib_inst_list, l, x) /\ ~ Gone(new[j], x)
          /\ \A l, x : Has(lib_inst_list', l, x) <=>
                         /\ Has(lib_inst_list, l, x)
                         /\ ~ \E j \in DOMAIN new : new[j].lib = l /\ Gone(new[j], x)
      BY <2>3, CarefulRemove
    <3> HIDE DEF new
    <3>2. RemoveStep(InstalledOf(lib_inst_list), InstalledOf(lib_inst_list'))
      BY <2>1, <3>1, AbstractRemove
    <3>3. RemoveStep(Installed, Installed')
      BY <1>1, <3>2
    <3> QED
      BY <3>3 DEF Promise!Remove, RemoveStep
  <2>4. ASSUME lib_inst_list' = NoLibs
        PROVE  Promise!Remove
    <3>1. DOMAIN Installed \subseteq Libs
      BY <1>1, <2>1, InstalledIs, TidyFacts
    <3>2. RemoveStep(Installed, InstalledOf(NoLibs))
      BY <3>1, FreesAll
    <3> QED
      BY <1>1, <2>4, <3>2 DEF Promise!Remove, RemoveStep
  <2>5. CASE ~ \E req \in Requests : msg_swap_inst_add(req) \/ msg_swap_inst_remove(req)
    <3>1. lib_inst_list' = lib_inst_list \/ lib_inst_list' = NoLibs
      BY <2>5, CarefulRest DEF vars
    <3>2. CASE lib_inst_list' = lib_inst_list
      BY <1>1, <3>2
    <3> QED
      BY <2>4, <3>1, <3>2
  <2> QED
    BY <2>2, <2>3, <2>5
<1> QED
  BY <1>2, <1>3, TidyLists, PTL DEF Spec, ImplementsProbeSet, Promise!Spec
=============================================================================
